# Verification of the Cypherpunk VPN desktop client

TLA+ models of the Cypherpunk VPN daemon and client, the TLC configurations that
check them on small instances, and TLAPS proofs about them. Paths below are
relative to the repository (`src/`); line numbers are those of this commit. The
repository has no tests of its own outside vendored code, and little
documentation besides the comments in the source; websocketpp, asio and
jsonrpc-lean are git submodules and are modelled from how the code uses them.

    tlc -config ConnectionSafety.cfg MCConnection     # each run: see "Runs"
    tlapm ConnectionProofs.tla                        # the proofs, also of
                                                      # DaemonProofs, PingerProofs,
                                                      # OpenVPNProofs, FirewallProofs,
                                                      # MirrorProofs, PartsProofs
                                                      # and ClientProofs

## 1. Inventory

The program is a **daemon** (C++, root or LocalSystem) that owns OpenVPN and the
firewall, and an **Electron client** (JavaScript) that talks JSON-RPC to it over
a websocket on the loopback interface. The daemon runs everything on one thread:
the `io_service` of websocketpp is the queue of ready handlers, and `_io.post`,
timers, sockets and SIGCHLD all append to it.

| component | source | state it keeps | operations | correct when |
|---|---|---|---|---|
| Connection | `daemon/connection.*` | `_state`, `_openvpn_state`, attempt counter, two timers, copy of the settings, `_needsReconnect` | Connect, Disconnect, NeedsReconnect; handlers DoConnect, slow and interval timeout, process exit, management lines | a wanted connection is retried for ever, an unwanted one ends; one OpenVPN at a time; no timer, flag or process outlives the state it belongs to |
| OpenVPNProcess | `daemon/openvpn.*` | management socket, `_management_signaled`, write queue | Run, Shutdown, Kill, StartManagementInterface, reading lines | the process that was asked to stop stops; commands are sent in order; events reach the listener that owns the process |
| CypherDaemon | `daemon/daemon.*` | clients, `_shouldConnect`, `_needsReconnect`, `_to_notify`, `_state` | the RPC methods, open/close of a client, NotifyChanges, DoShutdown, PingServers | every client is told of every change; the killswitch is what settings, switch and clients ask for; a shutdown ends |
| settings objects | `daemon/settings.*`, `daemon/json.*` | settings, account, config; their files | read, write, change notification | a change is noticed once, and a restart reads what was written |
| posix daemon and subprocess | `daemon/posix/*` | signal set, chains and jumps of iptables or anchors of pf | signals, firewall_install, ApplyFirewallSettings, Run, Kill | a signal leads to a shutdown; both families of addresses are blocked or none |
| Windows firewall | `daemon/win/win_firewall.*`, `win_service.cpp` | filter ids, filters per adapter | a transaction per change | the filters in the engine are all or none, and the ones the daemon remembers |
| Windows service | `daemon/win/win_service.cpp` | service status | control handler on its own thread | not modelled |
| pinger | `daemon/ping.h`, `daemon.cpp` | send queue, replies to wait for, timers; the next round's timer | QueueSend, HandleWrite/Receive/Timeout/Resolve, PingServers | the callback runs exactly once; no ping is lost or made up; pinging goes on |
| RPC client | `client/src/rpc.js` | socket, queue of calls, callbacks, reconnect timer | call, post, reply, reconnect, disconnect | requests are carried out once, in order; every call that was not lost is answered once |
| mirrors | `client/src/daemon.js`, `web/daemon.js` | copies of the daemon's data in the main process and in a window | delta in, filtered delta out | both converge on the daemon's data, and a call's effect can be read when it returns |
| web session | `client/src/web/server.js` | session cookie, stored token | request with refresh and retry | one answer for one request; who cannot be authenticated is logged out |
| login | `web/components/LoginScreen.js`, `web/Application.js` | the screen, flows under way | check, submit, refresh, logout | the flows end on the screen that fits the account |
| transitions | `web/components/Transition.js` | children shown, current and pending transitions | new children, timeouts, frames | every child that should be there is there |
| analytics | `web/analytics.js` | queue, two timers | record, batch, activate, deactivate | every hit is posted or terminated |
| start and quit | `client/src/main.js`, `app.js` | start-up chain, window, tray icon, exiting | start, install, quit | quitting ends, and disconnects first |
| installation on macOS | `client/src/install.js`, `install_darwin.js` | group, files, service, application, permissions | check, a chain of commands | an interrupted installation is not taken for a complete one |
| tray, views, packaging, vendored UI | `client/src/tray.js`, `web/components`, `build`, `client/semantic` | none of their own | | not modelled |

**Interaction.** A client's RPC is a handler of the loop; it changes the
daemon's settings and calls Connection::Connect or Disconnect, which change the
state and post further handlers. The Connection calls the daemon back as its
listener (OnConnectionStateChanged, OnConnectionAttempt), the daemon marks
fields in `_to_notify` and posts *one* NotifyChanges, which tells all clients
and applies the firewall. OpenVPN talks back through the management socket, one
line per handler, and through SIGCHLD. Settings are shared: the Connection reads
`g_settings`, `g_config` and `g_account` whenever it runs, not only when it was
asked to connect. In the client, the main process owns the websocket and relays
the daemon's data, calls and answers to the window over Electron's IPC; the
window's flows wait for requests to the account server and for calls of the
daemon alike.

**What is hard.** The order of handlers: several DoConnect calls may be queued
when the state changes under them; the last lines of a process and its exit
come in either order, and readers of a discarded process may still deliver a
line; Shutdown does different things before and after the management socket is
open; cancelled timers still deliver a handler; notifications are raised while
one is being made; the shutdown is a procedure that returns three times and
trusts others to call it again. The firewall is changed by several commands, or
by a transaction with steps that fail. In the client, connections break with
requests in every stage; chains of promises overtake each other and then act on
whatever screen is there; a quit meets an unfinished start. `PROJECT.json` lists each such place under
`hazards`, with the properties that cover it.

## 2. Modules

| module | models |
|---|---|
| `Connection` | the Connection, the lifetime of OpenVPN processes and their management sockets, and the queue of handlers |
| `Lifecycle` | what clients and the daemon take the Connection for; `Connection` implements it |
| `OpenVPNProcess` | the management interface of one process, with its queue of commands |
| `CommandChannel` | what `Connection` takes that interface for; `OpenVPNProcess` implements it |
| `Daemon` (extends `Connection`) | the daemon around it: clients, notifications, killswitch, shutdown |
| `ConnectionComments`, `DaemonComments` | what comments and texts say and the code does not keep (section 5) |
| `Pinger` | one round of the server pinger |
| `PingRound` | what a round promises to the daemon; `Pinger` implements it |
| `PingRounds` | when the daemon starts rounds, composed of `PingRound`s |
| `PosixFirewall`, `WinFirewall` | the commands, or the transaction, behind `killswitch` of `Daemon` |
| `RpcClient` | requests over a websocket that is reopened |
| `ClientMirror` (extends `RpcClient`) | the daemon's data in the main process and the window, calls and answers |
| `Session` | requests to the account server and the refresh of the session |
| `Login` (extends `Session`) | login screens, flows, logout |
| `Transition`, `Analytics`, `AppLifecycle`, `Install` | one part of the client each |
| `MCConnection`, `MCDaemon`, `MCDaemonParts`, `MCClient` | small instances for TLC |
| `ConnectionProofs`, `DaemonProofs`, `PingerProofs`, `OpenVPNProofs`, `FirewallProofs`, `PartsProofs`, `MirrorProofs`, `ClientProofs` | theorems (section 6) |

### Connection, Lifecycle

*The loop.* `queue` is a sequence of names of ready handlers. `RunX` pops the
head and runs handler X whole: its calls to SetState, Shutdown, NeedsReconnect
are operators, so that one action changes everything the handler changes and
appends everything it posts. Environment actions append. Since a handler's data
would be the same for each instance in the queue (a DoConnect has no argument,
an Exited belongs to the current process), the name is enough, with one
exception: handlers of a *discarded* process. `OnOpenVPNExited` renames what the
queue still holds for it (`Discard`): the accept handler and state lines have no
effect any more ("Discarded"), and an error line becomes "StaleError", because
SignalError is not told which process it came from and acts on the current one.
`staleReader` stands for a reader that has not delivered such a line yet.

| variable | code |
|---|---|
| `state`, `ovpn`, `attempts` | `_state`, `_openvpn_state`, `_connection_attempts`. OPENVPN_CONNECTING to ADD_ROUTES are one value (they differ in the log only). The counter saturates above `MaxAttempts`, where the code compares it only with the limit |
| `slowTimer`, `intervalTimer` | a wait is pending. Cancelling the slow timer queues its handler (`Aborted`), which ignores the error as the code does; the interval timer's handler checks it, so a cancelled one leaves nothing |
| `copied`, `connNeedsReconnect` | what CopySettings saved; `_needsReconnect` |
| `phase`, `exited`, `signaled`, `sigterm` | `_openvpn_process` and how far it got: launched, connected to the management port, accepted, negotiating, credentials rejected, up, announced its exit; dead with SIGCHLD pending; `_management_signaled`; a SIGTERM on its way, by socket or by Kill |
| `settings`, `needsReconnect` | the globals and the daemon's flag, which Connect and NeedsReconnect share with the daemon |
| `loop` | `ws_server.run()` running, ended by an exception, or stopped |

`settings` is a record of what the properties tell apart: `options` (everything
CompareSettings looks at), `server`, `cypherplay`, `fastest` and `login`;
`NoServer` and `NoLogin` are the values whose lookup throws. `DoConnect` may
fail to launch (`launched`), and OnOpenVPNExited takes what the clock says about
the 1-second interval as an arbitrary choice (`early`).

The operators of the handlers take the rest of the queue and the list of
handlers the listener posts while they run, so that `Daemon` runs the same
definitions with itself as the listener and the order of posts is the code's.

`Lifecycle` is what all this amounts to for somebody outside: a mode (idle, trying,
up, stopping), one process, the settings it was launched with and those the next one
would be. `Launch`, `Call`, `Speak` and `Exit` are the process's life, `Try`, `Succeed`
and `Stop` the mode's. It does not promise that an idle switch has no process, because
it may: one that had not spoken when Disconnect came is not waited for (section 5).
The nine states, the timers, the attempts and the queue are what it leaves out.

### OpenVPNProcess, CommandChannel

`OpenVPNProcess` is one process from the end of DoConnect that launched it to the
last handler that holds the object. `posted` are its handlers in the order of
`_io.post`; what the socket completes (`socket`, `write`, `read`) becomes ready on
its own and may run before or after any of them, which is more than the single
queue of the `io_service` allows. Weak handlers run while `Alive`: as long as
Connection owns the process or a read or write, whose handlers hold it, is under
way. When asio assigns the accepted socket depends on its version, so
`SocketOpen` may become true before the accept handler has run; `Connection`
takes the later moment. Kill needs no action: OpenVPN may exit at any time.
A process whose accept fails never gets a command; its channel stays `waiting`.

`CommandChannel` is the promise: commands are delivered once each, in order, and
all of them as long as the line is open. `Connection` uses it without saying so:
`sigterm` is set when "signal SIGTERM" is sent, and its fairness counts on it to
arrive.

### Daemon

Adds `exiting` (`_state`), `clients`, `closing`, `shouldConnect`, `firewall`,
`notify` and `notifyScheduled` (`_to_notify`, `_notify_scheduled`), `killswitch`
and `told`, what each client knows of the state object. `DX` is handler X of
`Connection` with the daemon's part as listener, or one of the daemon's own.
`NotifyChanges` is an operator, since RPC handlers also call it at their end,
and is a handler of its own too. `Open`, `Close` and `Terminate` in the queue are
the websocket's and signal handlers. `firewall` has the three modes;
`DataFlags` are the keys a settings change may raise.

`_to_notify.state` is not initialised by the constructor (`daemon.cpp:57`,
`daemon.h:143`) and is read first at `daemon.cpp:459`. `GarbageFlags` is the set
of values it may start with.

### Pinger, PingRound, PingRounds

`Pinger` is one `ServerPingerThinger`. Its one timer per destination serves as
the timeout of a ping and as the pause before the next one; `timer` says which.
What asio does on `cancel` and `expires_at` is the heart of the model: a wait
that is still pending becomes ready with an error, which HandleTimeout looks at
and QueueSend never sees (`Aborted`, so a cancelled pause sends at once), while
a handler that is ready already runs as if nothing had happened (`expired`,
`resend`). Ready handlers run in any order, since resolver, socket and timers do
not wait for each other. `sent[d]` numbers the pings of a destination; the code's
16-bit global counter gives each the same identity within a round. `waiting` is
`_wait_map`. Packets that do not answer a ping of the round change nothing.

`PingRounds` takes the daemon's side: PingServers with its three callers, the
callback, ScheduleNextPingServers and the timer. A running round is a
`PingRound` (it will answer, once); the run `daemon_parts` shows that `Pinger` is one,
by the refinement `answered <- called` (`RoundImplemented`). `changed` is the pending NotifyChanges
that `NotificationPending` of `Daemon` promises.

### PosixFirewall, WinFirewall

`Daemon` has ApplyFirewallSettings set `killswitch` in one step. These two
modules are what that step does. `PosixFirewall` is Linux: `todo` is the list of
commands that are still to be run, one action runs its head, and the check of
`firewall_set_anchor_enabled` is a command like the others, which puts two more
in front of the rest. DaemonStops may cut the list anywhere; `chain` and
`output` stay. On macOS each command replaces or flushes an anchor, so that a
repetition repairs anything; it is left out. `WinFirewall` runs the whole
transaction in one action: one call after the other (`DoEach`) changes a record
of what the transaction sees; `broken` is the filter that cannot be added this
time, a filter that is not in the engine cannot be removed, and adapters come in
any order. After a throw the "off" part runs on the same record, then the commit.

### RpcClient, ClientMirror

A request has a number, in the order of `send()`. `queue`, `callbacks`,
`upstream` and `downstream` say where it and its answer are, and every loss of
the connection empties the wire but not the queue. Reconnection follows
`rpc.js:150-175`: one timer, armed by an event that finds the socket closing or
closed. The ws package is modelled from its use (`socket`, and which listener is
called in which state).

A field of the daemon's data is the number of times it was set, so that "older"
has a meaning. Both filters and both assignments are there, the greeting with
all fields, the version check, and the snapshot that a page asks for
synchronously when its script starts, which may be newer than messages delivered
after it. `ipc` is Electron's ordered channel; `PageLoads` drops any prefix of
what was sent before the page listened.

### Session, Login

`frames[f]` is the chain of requests that flow f waits for: its own, a refresh of
the session that a 403 caused, repetitions. An answer settles the innermost one
and, through the promises of `server.js:84-110`, those around it. `Login` adds
what the flows do with an answer: calls of the daemon, which are answered in
order, and a push of a screen. Any flow may push its screen at any time, as in
the code. `Refusing` is FALSE in the run: a server that refuses a session which
it has just renewed makes the client ask for ever (section 5).

### Transition, Analytics, AppLifecycle, Install

`Transition` merges the lists of children as `mergeChildMappings` does and keeps
the current and the pending transition of each. `Analytics` keeps both timers.
`AppLifecycle` follows the start-up chain of `app.js:95-189` with the window, its
two show events and the tray icon, beside Electron's quit sequence. `Install`
has a value for each thing that mac_check looks at and for what it does not look
at (the loaded rules, and whether the daemon's files are complete), and the list
of commands that runAsRoot builds from it; a command may fail half-way, and a
reboot may come between any two. A failing `launchctl unload` is caught
(`install_darwin.js:103`): the chain goes on with the job still loaded
(`loaded`), and `launchctl load` then starts nothing. launchd starts the daemon
again when it ends (`Restarted`, KeepAlive of the plist) and at a reboot, from
half-extracted files too if there are no others. The history variable `stray`,
which no guard reads, records that a job was not unloaded when it should have
been or was started from half-extracted files.

### What is left out

*In these components:* the text of profiles and arguments; BYTECOUNT lines,
packets and measured times, which are forwarded only (in `Daemon` the PING_STATS
flag of PingServers is there, because it schedules notifications); error messages to clients; whether `send` throws
for a client whose connection is closing (`daemon.cpp:271`, a property of
websocketpp); how many attempts make a connection slow (`connection.h:81`); calls
from the daemon to the client, of which this daemon makes none (the reply of
`rpc.js:48` would use an undefined variable); deprecated per-object messages;
failing iptables commands, whose status the code ignores; a WFP engine that
cannot be opened; contents of requests, hits and screens.

*Other components:* the Windows service's control thread, which calls
RequestShutdown beside the loop on variables without a lock: undefined in C++,
and every outcome would be a guess. Files of settings, written in place in one
call (`json.cpp:74`), so that a crash may leave half a file; nothing reads it
before the next start. Tray, notifications, autostart and the React views: they
compute a menu, a message or a page from the mirrored data in one step and call
the RPC methods modelled here. Network status and update checks: requests like
the others. Packaging, resources, logging and formatting. The vendored Semantic
UI under `client/semantic` is most of the repository's JavaScript by lines (the
program's own client is about 7,000 of 36,000), third-party code without a copy
of the program's state: the models cover the client's own logic, which is a
small share of all lines.

## 3. Runs

`MaxAttempts` is 1, the smallest value with a first, a last and a too late
attempt: the code only resets, increments and compares the counter.
`MaxRequests` bounds the requests that wait in the queue at one time, not how
many are made; with 1, a request still overlaps any number of internal handlers
(relaunches, timers, lines, notifications), and the run that needs two requests
back to back has 2. `MaxBacklog` bounds how many ready handlers a new request may
find before it. In the three large daemon runs it is 2, enough for every order
of a request with a pending DoConnect and a notification, or with a line and an
exit; in all the others it is 10, which no state reaches. Events that are not
requests are never held back, so that the queue itself is not bounded. One line
of OpenVPN is queued at a time because that is what the code's reader does. Every
constant's value is in the `.cfg`, every set of settings in the MC module.

| run | instance | checks |
|---|---|---|
| `connection_safety` | three settings: a location, one that is not in the config, CypherPlay with a faster server (3.5 M states) | `NoStall` `DisconnectingHasProcess` `TimersDisarmed` `ConnectedIsUp` `ProcessTracked` `FlagsAgree` `LifecycleImplemented` |
| `connection_liveness` | one setting (0.26 M states) | `Relaunches` `InterruptionEnds` `DisconnectEnds` |
| `daemon_settings` | one client, two settings, mode auto, any garbage in the flags (2.9 M) | `ClientsUpToDate` |
| `daemon_firewall` | one client, all three modes (3.6 M) | `NotificationPending` `OnMeansTrying` `KillswitchFollows` |
| `daemon_shutdown` | two symmetric clients, mode on, any garbage (3.4 M) | `DaemonTypeOK` (with `TypeOK` of the Connection) `ShutdownPending` `KillswitchOffAtExit` |
| `daemon_shutdown_liveness` | one client, any garbage (1.0 M) | `ShutdownEnds` |
| `daemon_parts` | two destinations, three pings each; three rounds and three due timer handlers; three stops of the daemon on Linux; two adapters on Windows; two requests by OpenVPN (0.24 M together) | `PartsTypeOK` `PingsAccounted` `OneWrite` `NoDestinationStalls` `RoundImplemented` `PingingGoesOn` `RoundFlagsAgree` `KillswitchHolds` `AllOrNothing` `CommandsDelivered` |
| `client_daemon` | two fields, each set at most three times, two calls or posts, any number of lost connections (0.94 M) | `MirrorTypeOK` `RequestsKept` `MirrorsFollow` `ReadYourWrites` `Reconnects` |
| `client` | two flows and the logout, four acts of the user or expiries; two children; batches of two, six hits; one start; any number of installations (0.07 M together) | `ClientTypeOK` `RequestsSettle` `FailureLeadsToLogin` `TargetKept` `QueueDrains` `AppEnds` `InstallationSound` |

`daemon_parts` and `client` hold parts that share no variable: a behaviour is one
of a single part (`part`) while the others rest, so that one run says of each
what a run of its own would say.

* `NoStall`: while a connection is wanted and there is no process, a DoConnect
  is queued or the interval timer runs. Every branch of OnOpenVPNExited, Connect
  and SignalError contributes; one that forgets to post leaves the user waiting.
* `LifecycleImplemented`: the Connection is a switch with one process behind it
  (`Lifecycle`). However many DoConnect calls are queued, none launches over a
  running process or changes its settings; CONNECTED follows only upon an attempt
  whose process has spoken, however late its line is read; and DISCONNECTED upon
  CONNECTED only when the process is gone.
* `DisconnectingHasProcess`: DISCONNECTING always waits for a process that has
  spoken and not exited. That is also why its Shutdown is never lost.
* `TimersDisarmed`, `ConnectedIsUp`, `ProcessTracked`, `FlagsAgree`: nothing is
  left over from a state, a process or a settings change that is gone, and a line
  that waits in the queue finds its management socket open.
* `Relaunches`, `InterruptionEnds`, `DisconnectEnds`: the same as promises.
* `NotificationPending`: the flags always have a NotifyChanges queued, also when
  they are raised while one runs or from inside an RPC. The run starts with
  zeroed flags; with garbage the property is false (section 5).
* `ClientsUpToDate`: a client's picture differs from the daemon's only in fields
  that are flagged, also for a client that joins between a change and its slice.
* `OnMeansTrying`: the switch is on only while a client is there and the
  connection is not on its way down. `KillswitchFollows`: the killswitch is what
  the settings, the switch and the clients ask for, or a slice that will make it
  so is pending. `KillswitchOffAtExit`: none is left behind by a shutdown.
* `ShutdownPending`: a shutdown always has a next step, by one of the parties
  DoShutdown trusts. `ShutdownEnds`: with no client attached it does end.
* `PingsAccounted`: what was sent, is queued, or will be queued by a pause always
  adds up to one more than the results so far, capped at the maximum, and a reply
  counts once: whatever overtakes what, pings are neither lost nor made up. Two
  destinations are needed for a queue that is not empty when a second one is
  sent; three pings are a first, a middle and a last one. `OneWrite`: HandleWrite
  pops what was sent. `NoDestinationStalls`: a destination with results to come
  has a step ahead. `RoundImplemented`: the callback is called, and once.
* `PingingGoesOn`: with a client and no connection, a round runs or something
  pending will start one, although the timer's flag may be left set by a handler
  that found the connection up. `RoundFlagsAgree`: both flags that overlapping
  rounds share tell the truth. The bound of three lets two rounds end while a
  third runs.
* `KillswitchHolds`: ApplyFirewallSettings ends with both families blocked if
  that was asked for, after a daemon that was killed between any two commands
  and restarted, and applying it anew opens no gap. Three stops are enough to
  interrupt an enabling, a disabling and an installation one after the other.
* `AllOrNothing`: the Windows transaction leaves the engine with the whole
  killswitch or none of it, and the keys in memory are those of the engine. Two
  adapters: one that stays while the other goes and returns.
* `CommandsDelivered`: whenever OpenVPN connects, asks for something or leaves,
  and whoever sends meanwhile, commands reach it once and in order, and all of
  them while the line holds. Two requests by OpenVPN, with the three commands
  sent unasked, queue up to four commands behind the one that is being written.
* `RequestsKept` (`ExecutedInOrder` and `CallsAccounted`): requests that were queued are sent once on
  the next connection, those on a broken one are not sent again; an answer comes
  only for what was carried out. `MirrorsFollow`: what is on its way to a copy,
  applied to it, gives what it copies. `ReadYourWrites`: a notification reaches
  the window before the answer of the call that caused it, through both
  processes. `Reconnects`: no closed socket is left without a timer. Two fields
  are needed for a delta that leaves one out; the third request is the first that
  may follow a lost one and precede a queued one.
* `RequestsSettle`: a request is settled although the session expires under
  several at once. `FailureLeadsToLogin`: after a failed authentication the first
  login screen comes up, whatever other flows push and however the server
  answers the logout.
* `TargetKept`: a child that should be there is there, in its place and not on its
  way out. `QueueDrains`: hits that wait are served by exactly one timer.
  `AppEnds`: a quit ends the process at whatever point of the start it comes.
  `InstallationSound`: an installation that reports success left a client that can
  be started, with its group and permissions, and no files of an earlier version;
  and, unless the daemon is `stray`, one that runs, is up to date and has all its
  files and rules. What the next check accepts has complete files and their rules
  under the same condition, and a client that can be started always remains.
  Without the condition both are false, which section 5 tells.

The daemon runs split the requests between them (`Incoming`), each with the ones
its properties are about: the product of all of them with two clients is beyond
a reasonable run. `SYMMETRY` is used only where clients are interchangeable and
no liveness is checked. Deadlock is checked in the runs of the daemon: one that
stopped or threw stutters explicitly (`Dead`), everything else always has a step.
It is not in the two runs of the client, whose requests and acts are bounded and
whose process ends.

**Mutants.** Each property has a variant of one definition (the ones marked
"Mutant:" in the modules) that a plausible slip in the code would make, and that
its run refutes; `PROJECT.json` lists them.

## 4. Fairness

`Fairness` and `DaemonFairness` assume four things only:

* the loop runs the handler at the head of its queue (`Run`, `DRun`), which is
  what `io_service::run` does;
* an armed timer expires;
* an OpenVPN that got SIGTERM, through the management socket or by kill(2), or
  that announced EXITING, is gone in the end;
* a close the daemon started ends, answered or by websocketpp's timeout.

`FairPingerSpec` assumes only that the global timer of a round expires;
`ProcessFairness` that posted handlers and those of a write run, and that a write to
an OpenVPN that is there ends.

`MirrorFairness` assumes that the reconnect timer fires, that a closing handshake
ends (ws gives up after 30 seconds) and that the window's event loop runs;
neither the daemon nor the network need do anything. `LoginFairness` assumes that
a request is answered or fails (the browser's timeout), that the daemon answers
calls and that setImmediate runs: a call that is lost with its connection or
rejected would leave the chain of promises behind it, the logout among them,
without an end, and is outside `Login` (`RpcClient` has lost calls). `AppFairness` assumes that Electron goes on
with a quit: windows close, will-quit follows, the socket's close is seen, the
promise is resolved. The invariants of transitions, analytics, installation and
both firewalls need none.

Nothing else: clients need not ask for anything, OpenVPN need not connect to
its management port, get anywhere, say anything or die unasked. That is weak
enough for the lost Shutdown of section 5 to show as a behaviour that never
ends.

`ShutdownEnds` excludes one case. The late error line of a discarded process
makes SignalError post a DoConnect, DoConnect accepts DISCONNECTED and launches,
and the shutdown has to bring that process down first; if this repeated for
ever the daemon would never stop. Fairness cannot rule it out, so the property
says that the shutdown ends or such a line is queued.

## 5. Where the code and its comments disagree

Three runs expect a violation; each property states what the quoted text says.

1. **`ReconnectEnds`** (`openvpn.h:52`, "Request clean shutdown (first via
   management interface, calls Kill if that fails)"). The user connects, changes
   the location, and connects again while OpenVPN has not been accepted on the
   management port. Connect goes to DISCONNECTING_TO_RECONNECT and calls
   Shutdown, which remembers that it signalled, but sends nothing since the
   socket is not open (`openvpn.cpp:131`). Nobody ever
   kills that OpenVPN: in the trace it never gets as far as connecting to the
   management port, and the state does not end unless the user acts again.
2. **`ShutdownLeavesNoProcess`** (`daemon.cpp:196`, "1. Shut down any existing
   OpenVPN process"). The last client leaves right after DoConnect launched
   OpenVPN. `_openvpn_state` still says EXITED, so Disconnect announces
   DISCONNECTED and asks nobody to stop (`connection.cpp:583`). A SIGTERM then
   makes DoShutdown find DISCONNECTED and stop the loop (`daemon.cpp:202`).
   `main` does not delete the daemon, so no destructor kills the process.
3. **`ProtectedWhileConnecting`** (`FirewallScreen.jsx:43`, "Enable the
   killswitch while connecting, protecting you in case of accidental
   disconnections."). Connect and Disconnect are handled one after the other
   before the DoConnect that Connect posted. Disconnect says DISCONNECTED,
   turns the switch off and NotifyChanges disengages the killswitch; the
   DoConnect then accepts DISCONNECTED (`connection.cpp:600`) and launches
   OpenVPN with mode auto and no killswitch, and with the switch shown as off.

Other deviations the models reproduce, so that no property forbids them:

* a process announced as DISCONNECTED goes on running (`connection.cpp:583-586`
  against "Disconnected from server", `connection.h:74`), and a DoConnect posted
  before Disconnect relaunches after it (`connection.cpp:600` against
  `connection.h:16-17`): the roots of 2 and 3;
* a CONNECTED line in DISCONNECTING_TO_RECONNECT makes the discarded process
  CONNECTED (`connection.cpp:294` against `connection.h:67-68`);
* a cancelled wait of the slow timer puts a fresh attempt into slow mode
  (`connection.cpp:426`), and RECONNECTING can run without one (`:632`, since
  RECONNECTING lines raise the counter; against `connection.h:57`);
* with CypherPlay and a faster server, NeedsReconnect compares the saved fastest
  server with the chosen one and always asks for a reconnect (`:530`);
* a location or login that disappears after RPC_connect makes CopySettings throw
  out of the main loop (`:624` against `daemon.cpp:671`): `loop = "threw"`;
* a client that joins while a shutdown closes the others is never closed, and
  DoShutdown is not called again before it leaves (`daemon.cpp:213-221`):
  `ShutdownPending` counts a client as the next step, `ShutdownEnds` is about
  the case without clients;
* uninitialised flags delay the first notifications they stand for
  (`daemon.cpp:459`): NotificationPending assumes zero, the other daemon runs
  start from any value;
* in the pinger, a reply whose timeout is already ready is counted as both, so
  replies and timeouts may add up to more than `MAXIMUM_PING_COUNT` (the pings do
  not); a late reply during the pause makes the next ping immediate (`ping.h:249`);
* HandleTimeout leaves its ping in `_wait_map` (`ping.h:300`), so that a round
  with a lost packet ends by the global timeout only; and a round may end while
  another destination is between two pings or not resolved yet, since Done asks
  for an empty queue and an empty map only (`ping.h:202`, `272`, `313`);
* after Done the pending receive keeps the pinger and its raw socket until one
  more packet arrives (`ping.h:290`): `Idle` leaves it out;
* rounds go on without clients, because the callback arms the timer that
  OnLastClientDisconnected cancelled (`daemon.cpp:788`);
* the limits in the comments of `connection.h:33-64` are not the values of
  `connection.h:79-89`. The model takes the limit as a constant.

In the firewalls:

* Linux: a daemon killed between `iptables -A` and `ip6tables -A`, or between two
  `-D`s, leaves a jump of one family or two of the other that later disabling
  does not remove; `AppliedInFull` therefore claims the disabled half only for
  daemons that were not killed. exemptLAN switched on while the killswitch is on
  is appended behind the blocking jump and has no effect, against "install
  exemptions first" (`posix_firewall.cpp:35`) and "install killswitch last"
  (`:54`). A failing iptables is ignored.
* Windows: the key of a filter that went with its adapter stays in
  `_tap_filters`, so that the next Apply, even one that switches off, throws
  FILTER_NOT_FOUND, is reported as a failure and sets the firewall to "off"
  (`win_service.cpp:237`); an adapter that returns is not allowed again. A wipe
  that fails at start leaves filters that nobody removes.

In the client; the models do the same as the code:

* `xhr` retries for ever when every refreshed session is refused again: `retry`
  passes `attemptLoginRefreshOnForbidden`, an option it does not know
  (`server.js`). `RequestsSettle` holds of a server that accepts what it has just
  refreshed, and is checked with one that does. An unreachable server during a
  refresh logs the user out.
* A login flow that ends during the logout pushes the main screen with the
  account cleared, and a late answer stores the account again: `MainHasAccount`
  in `Login` is stated and *false*. `nonEmpty` always returns null for objects
  (`LoginScreen.js:15`), and a network status that changes back during a refresh
  is not noticed (`:73`).
* Calls that were sent on a connection that broke keep their callbacks
  (`rpc.js:157`), and a post lost with it leaves a control showing a value the
  daemon does not have: `CallsAccounted` counts the former as forgotten. A version
  mismatch after the first is silent, since the rejection is not cleared.
* A click on a location connects when the answer to applySettings arrives
  (`MainScreen.js:324`, `tray.js:43`), so that a Disconnect clicked meanwhile is
  overtaken.
* A quit during the start makes the chain throw on a daemon that is null and
  show an error; the show timer on a closed window and the tray on a daemon that
  is gone exit with 1 (`app.js`). `AppEnds` says that the process ends.
* In the transition group, leaving, returning, the timeout and leaving again
  before the next frame keep a child shown: `ChildrenSettle` is stated and
  *false*, `TargetKept` is what holds.
* `launchctl unload` may fail unnoticed (`install_darwin.js:103`). An upgrade then
  reports success while the old daemon goes on, since `load` starts nothing
  (`:116`), and the next start asks for the installation again. With a damaged group
  and a daemon that is up to date, a `pfctl` that fails after it (`:113`) leaves
  a daemon that later starts accept with rules that were not reloaded, once the
  permissions are right. `CompletesInstalled` and `CheckVouches` say what is left
  of the promise for such a `stray` daemon: the files, the group and the permissions.
* mac_check looks for the plist and the service's binary (`install.js:45`). If an
  extraction failed after these two, launchd starts the daemon at the next
  boot, and a start that finds it up to date takes it for complete: `stray` too.
* The names that tar prints to stdout would be mapped with an undefined `f`
  (`install_darwin.js:109`), which ends the chain. bsdtar prints them to stderr, so that
  the list is empty and xattr is applied to `/usr/local/cypherpunk` only; the model
  has a tar that prints nothing to stdout.
* chown and xattr of the application are not repeated when the commands fail
  between them and the `mv` (`install_darwin.js:138`): `InstallationSound` asks for
  the parts that mac_check looks at and for the rules.

## 6. Proofs

Eight modules; every theorem is for all values of the constants, under the
named assumptions of the modules and nothing else.

**`ConnectionProofs`** proves, for every set of settings, every limit of attempts
and every bound on the waiting requests, and with no bound on the queue, that all
invariants of `connection_safety` and `TypeOK` hold of `Spec`, and that `Spec`
implements `Lifecycle`. Assumptions: `ConnectionAssumption` (settings are records with
those five fields, `cypherplay` is Boolean, the three limits are positive).

The invariants are not inductive one by one. `NoStall` survives Exited only if
a process that is gone has been noticed by `ovpn`, or a Disconnect could leave
DISCONNECTING with nobody to end it (`ProcessTracked`, `DisconnectingHasProcess`).
`ConnectedIsUp` survives a late CONNECTED line only because `ProcessTracked`
says that a line in the queue has its process, whose socket is open. `NoStall` survives a SetState
that cancels the interval timer only because `TimersDisarmed` says it was armed
without a process. `IInv` is their conjunction, and it *is* inductive.

* *Queue lemmas* (`TrackedKeeps`, `HasTail`, `HasConcat`, `HasPosted`, `HasAppend`, `HasDiscard`,
  `RestPosts`, `QuietPosts`, `PoppedTail`): what is in the queue after a pop, a
  post, an append and a `Discard`.
* *Operation lemmas* (`SetStateEffect`, `ShutdownEffect`, then `ConnectInv`,
  `DisconnectInv`, `DoConnectInv`, `SlowTimeoutInv`, `AcceptInv`, `ExitedInv`,
  `OpenVPNConnectedInv`, `OpenVPNStateInv`, `StaleErrorInv`): one per operation,
  over the rest of the queue and what the listener posts, so that they also
  serve for the daemon.
* `RunInv`, `EnvironmentInv`, `StutterInv`, `InitInv`: one step per action.
* *Theorems*: `Invariance` (`Spec => []IInv`); `TypeCorrect`, `RetryPending`,
  `DisconnectingWaits`, `TimersBelong`, `ConnectedMeansUp`, `FlagsAgreement`,
  `Tracking` for its parts.
* *Refinement*: `LifecycleKept` (`Spec => LifecycleImplemented`). The mapping shows
  of `state` one of four modes, of `phase` whether the process is there, calling or
  heard of, and of `copied` nothing once the process is gone. `LifeStays` and
  `LifeModeChanges` say when a step is a choice of settings, or a change of mode, of
  `Lifecycle`; each operation has its lemma (`ConnectLives`, `DisconnectLives`,
  `DoConnectLives`, `SlowTimeoutLives`, `AcceptLives`, `ExitedLives`, `LineLives`,
  `StaleErrorLives`, `BackgroundLives`), again over any queue and posts. It rests on
  `IInv`: a Disconnect may wait because what `ovpn` remembers is a process that has
  spoken, and a line that is read makes the mode "up" for the same reason.

**`DaemonProofs`** proves the safety properties of the daemon for any clients,
settings, modes and requests: `ClientsAreToldTheTruth`, `KillswitchIsRight`,
`NoKillswitchLeftBehind`, `ShutdownGoesOn`; `OnIsNeverIdle` where nobody terminates
the daemon (`ASSUME "Terminate" \notin Incoming`: after a signal the switch means
nothing); `NoWakeupLost` where `_to_notify` starts out clear
(`ASSUME GarbageFlags \subseteq {{}}`: otherwise it is false, section 5).

The inductive invariant is `DaemonInv`. What it has beyond the properties:

* `RequestsHaveClients`: a Connect that waits has a client behind it, and a
  client that closes behind a waiting Connect is not the last one, or Connect
  would leave the switch on with nobody there. Only the order in the queue says
  so, hence `LateConnect`, which speaks of positions.
* `GarbageHarmless`: flags that nobody raised concern a daemon that never
  connected, so that what they suppress is not missed. Without it
  `KillswitchFollows` is not preserved by a Connect that finds the flag set.
* `NotifyChangesQueued`: a scheduled notification is in the queue.
* `OnMeansTryingUntilExit`: also that DoShutdown is queued only while exiting.

A step pops the first handler, appends what it posts, and a process that ends
takes its handlers with it. `Grown` is the view of this that the invariant needs:
positions of the five handlers in `Tracked` stay, and only those in `Posted` come
behind. The `...Handled` lemmas prove it of each operation of the Connection,
`NotedKillswitch`, `NotifiedKillswitch`, `NotedClients`, `NotifiedClients`,
`NotedQueued` and `NotifiedQueued` what Notify and NotifyChanges do to one part of
the invariant each, and `D...Inv` are the steps.

Its second half proves that `IInv` holds inside the daemon as well
(`ConnectionInDaemon`, and from it `NoStallInDaemon` and `ConnectedIsUpInDaemon`):
what clients, signals and notifications put between the Connection's handlers
costs it nothing. The daemon's handlers are the operations of `Connection` over
another rest of the queue with other posts behind it, so that the operation
lemmas above apply to each. So do those of the refinement: `LifecycleInDaemon`
(by `DaemonLives`) says that the Connection keeps its promise to the daemon and its
clients through every RPC, signal and step of a shutdown. `DaemonTypeCorrect` needs it for the types of what a
client is told.

**`PingerProofs`**, on the rounds, proves `PingingGoesOn` (`PingsGoOn`) and `RoundFlagsAgree`
(`RoundFlagsTell`) for any bound on the rounds (`RoundsAssumption`: it is
positive). They are not inductive: a round that ends does not arm a timer when
`_next_ping_scheduled` is set, so the invariant needs to know what the flag
stands for (`ScheduledIsPending`): a timer, a due handler, or a notification to
come. `PingServersInv` is the step shared by its three callers.

Of a single round it proves `PingsAreAccounted` (`PingsAccounted`), `OneWriteAtATime`
(`OneWrite`) and `DestinationsGoOn` (`NoDestinationStalls`) for any number of
destinations and of pings (`PingerAssumption`). `PingerInv` joins them to what they
need of each other: a write under way has its entry in the queue; a timeout
belongs to a ping that was sent, and a destination that is not resolved has no
results (`TimeoutsOfSent`); and a destination goes on even when the front of the
queue does not count (`StepsAhead`), because that ping was sent already and its
entry is about to be removed. `BehindAppend` and `BehindTail` say what the two
operations on the queue do to the pings still to be sent, `SendStarted`,
`QueueSent` and `ResultCounted` what the operations that several handlers share
keep, and each handler has its lemma. `CalledOnce` is the safety half of the
refinement of `PingRound`: the callback is called at most once.

**`OpenVPNProofs`** proves that `ProcessInv` holds for any number of requests
(`RepliesAssumption`): the interface is started once, by the first posted
handler, and every write has a front to write. From it follows `CommandsInOrder`,
the safety half of the refinement of `CommandChannel`: a posted handler only moves
a command from one queue to the other (`SendUnseen`, by `MovedCommand`), a write
that ends delivers the front of both (`WriteDelivers`, by `FrontOfBoth`), and a
handler whose object is gone is dropped only after the line has broken
(`ChannelStep`).

**`FirewallProofs`** proves `KillswitchHolds` (`KillswitchIsKept`) for any
number of kills and reboots. The property speaks of the moments when no command
is pending and of steps between two commands, so that `PosixInv` says what the
commands that are pending will have done:

* `Engages`: a killswitch that is wanted is in OUTPUT, or its `-A` or the look that
  leads to it is pending, and nothing that is pending takes it away.
* `Filled` and `ClearedFirst`: a chain is full, or its last `-A` is pending; a
  `--new-chain` or `-F` that is pending comes before that `-A`, not after it.
* `MovedOnce` and `LookedOnce`: what `firewall_anchor_enabled` looks at is not moved
  by a command that was queued before the look, and no two commands undo each other.
* `Agrees`: without a kill both families will jump to the same anchors
  (`WillJump`), no jump is there twice, and one that is not wanted has a look
  ahead of it that finds it. After a kill the families may differ; what was not
  wanted may then stay, which is why `AppliedInFull` promises less there.

`FirstRemoved` says what `iptables -D` leaves of OUTPUT, `Installation` which
commands `firewall_install` queues and in which order. `InstallsKeeps`, `MovesKeeps`,
`LooksKeeps`, `AppliesKeeps`, `StartsKeeps` and `StopsKeeps` are the steps.

Of Windows it proves `AllOrNothing` (`WindowsAllOrNothing`) for any finite set of
adapters, named unlike the filters (`AdaptersAssumption`). The property is
inductive together with the types (`WinInv`), but only because the daemon's keys
are part of it: what a transaction does depends on them. Inside a transaction
`Works` says that the keys are those of filters it sees, that adapters in the
engine are tracked, and that nothing changed yet unless something counted as a
success. Every call keeps that, also one that throws (`CallKeepsWorks`), and so
does a loop of them (`EachKeepsWorks`). Hence a try block that does not throw
leaves everything that is always set (`EnabledWorks`), and the fallback always
finds what it removes and ends with nothing (`EverythingGoes`). It does not commit
unless a `TURN_OFF` or an earlier call counted; that is sound because an engine
that has none of the named filters has none for an adapter either (`AllGone`).

**`PartsProofs`** carries the last three over to `MCDaemonParts`, the instance in
which they are checked. A behaviour of it is one of the rounds, of both firewalls
and of the management of a process (`PartsImplement`), because a step of one part
leaves the others alone (`PartsStep`). A round of pings may also rest there as one
that is over, which keeps its books as well (`PingerOverInv`), so that `PingerInv`
holds (`RoundInParts`). `PartsTypeCorrect` and `PartsPromise` are what follows.

**`MirrorProofs`** proves the safety properties of the client beside the daemon,
`MirrorTypes`, `RequestsAreKept`, `MirrorsAlwaysFollow` and `WritesAreRead`, for any
fields, and any bounds on changes, requests and lost connections, with no bound
on what is on its way. None of the four is inductive: `MirrorsFollow` and
`ReadYourWrites` speak of the moments when nothing is on its way, or a promise was
resolved. `MirrorInv` says the same of what *is* on its way:

* `InOrder`, `AnswersCarried` and `Accounts`: the numbers of the requests increase
  through `executed`, the wire and the queue, and only what was carried out has
  an answer on the wire.
* `WireInv`: the last word on the wire about each field is the daemon's value
  (`MainFollows`), the values of the field that is written only grow there
  (`GrowsIn`), and the answer of a call comes after the value it wrote (`ToldIn`).
  The first message of a connection has all fields (`WireKept`).
* `WindowInv`: the same for the messages from main to the window (`Tells`): the
  last word about each field is main's value, and the last "up" or "down" is
  main's state; from an answer on, nothing older than its value follows
  (`ToldTo`, `ReturnedTo`).

What the last word about a field is, once a message is appended, taken from the
front, or lost with others (`LatestAppend`, `LatestTail`, `LatestSuffix`, and for
"up" and "down" `SaidAppend`, `SaidTail`, `SaidSuffix`), is a fact about the last
position of a set (`LastIn`), and neither needs a fold over the messages nor
induction over them. `RequestsInv` is kept by the `...Requests` lemmas, `WireInv`
by the `...Wire` lemmas, and `WindowInv` by the `...Window` and `...Keeps` lemmas,
which need not know why main's data change.

**`ClientProofs`** proves `QueueDrains` (`QueueIsServed`) for every size of a
batch and every number of hits. `AnalyticsInv` adds `HitsNumbered`: numbers
are given out in order, so that a hit that is recorded is neither in the queue
already nor dealt with.

It also proves `InstallationSound` (`InstallationIsSound`) for any number of
installations, failures (noticed or not), restarts of the daemon and reboots. What a failure leaves behind depends on the
order of the commands, so that `InstallInv` speaks of those that are pending:
they go upwards (`Ascending`), each comes after what it needs and before what it
undoes (`Arranged`), and each thing the next start looks at is there or has its
command pending (`Reached`). `Vouched` is the part that is easy to get wrong: a
job with the group has its rules, or will be unloaded *next*, before a command
that ends the chain when it fails, or is stray from then on; nothing is assumed
of an unload. `Served` says what a version that runs tells of the files: all of it
for a daemon that is not stray, and only that they are not old ones for a new
daemon that is. `CommandsArranged` shows that every combination of options
leads to such a chain.

It proves `TargetKept` (`TargetIsKept`) for any finite set of children
(`ChildrenAssumption`: an element tree is finite). The property needs two more facts
to be inductive (`TransitionInv`): only what is shown has a transition
(`TransitionsShown`), and what is leaving is not to leave again (`LeavesOnce`).
Without the second, a child that is leaving and has to leave once more would, when it is
wanted back, only lose what is pending, and would be gone after the first.
`ScheduledWell` says what each case of `componentWillReceiveProps` leads to. The other
half is about `mergeChildMappings`: what both lists have comes in the order of the new one
(`MergeKeepsOrder`), and nothing is lost or there twice (`MergeKeepsAll`), because
every old child has exactly one place, in front of the first child ahead that both
have or at the end (`PlacesCover`, `PlacesApart`). A new list of props may reorder what
is there, so that the order of the *old* children is not part of it.

Of `Login` it proves `LoginInv` (`LoginInvariance`) for any flows, any depth of a chain
and any number of acts (`SessionAssumption`, `LoginAssumption`), with a server that
refuses or not. What its type invariant says of a chain of requests is not inductive:
which request is repeated after a refresh is looked up backwards from the end of the
chain, and whether there is a chain at all depends on what the flow waits for. `FlowsInv`
says that a chain has the flow's own request in front and only there (`Chains`), and that
a flow waits for its request, for exactly one call of the daemon, or for nothing.
`FlowRetries` shows that an answer always finds the request to be repeated, however many
refreshes are nested; `FlowGoes` is the step from one wait to the next, for a call that
is answered by `FirstAnswered`.

The types of `AppLifecycle` are inductive as they are (`AppNextTyped`). Together they give
the invariant of `MCClient` (`ClientInvariance`, by `ClientStep`), and from it
`ClientTypeCorrect` and `ClientPromise`.

**No induction over data.** Where a proof needs a first or a last position in a
sequence, `FirstExists` and `LastExists` get it from the well-foundedness of the
finite subsets of an interval (`WFMin`), which is an induction once and for all;
the theorems of the library that take an operator are not used. `EachDone` uses it
for a recursive function, the loop of calls of a Windows transaction: that
the function exists, and that what each call leads to, the loop ends in. For the
two recursive functions of `Transition` (`Only`, `MergeChildMappings`) the same comes in
steps: `NatSteps` and `SeqSteps` are the induction with a *set* in place of the
operator, and `Iterates` says that an iteration exists.

**Model-checked only.** The liveness properties (fairness and ENABLED are out of
the prover's reach), so that a round answers, a command arrives, a request settles,
a logout leads to the first screen, the window is connected again and a quit ends at
all; and of course the three violations. Every invariant that a run checks has a
theorem.

## 7. What is left out

Every module, run and theorem of the plan is there. Not planned: the service
control thread of Windows, whose unsynchronised accesses have no defined outcome to
model; views, packaging, vendored code, logging and formatting, which keep no state
with an order of events.
