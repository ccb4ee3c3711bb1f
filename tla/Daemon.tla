------------------------------- MODULE Daemon -------------------------------
(***************************************************************************)
(* CypherDaemon (daemon/daemon.cpp): the clients on its websocket, what    *)
(* they are told, the killswitch and the shutdown, around the Connection   *)
(* whose listener it is.  Every handler of module Connection runs here     *)
(* with the daemon's part added, and the daemon's own handlers join the    *)
(* same queue.                                                             *)
(*                                                                         *)
(* Traffic counters and ping results are only forwarded to the clients and *)
(* are left out, but not the notifications that PingServers raises.        *)
(***************************************************************************)
EXTENDS Connection

CONSTANTS
    Clients,       \* client connections to the websocket
    NoView,        \* a client that is not connected has been told nothing
    FirewallModes, \* bound: the values of the "firewall" setting
    Incoming,      \* bound: the kinds of requests that arrive unasked
    GarbageFlags   \* the values _to_notify.state may have before it is first written

VARIABLES
    exiting,         \* _state is EXITING (it is EXITED once the loop has ended)
    clients,         \* _connections
    closing,         \* clients that DoShutdown is closing
    shouldConnect,   \* _shouldConnect
    firewall,        \* g_settings.firewall()
    notify,          \* _to_notify
    notifyScheduled, \* _notify_scheduled
    killswitch,      \* the firewall anchor is enabled (ApplyFirewallSettings)
    told             \* what each client has been told of the daemon's state

clientVars == <<clients, closing, told>>
notifyVars == <<notify, notifyScheduled>>
ownVars    == <<exiting, clientVars, shouldConnect, firewall, notifyVars, killswitch>>
vars       == <<connectionVars, ownVars>>

-----------------------------------------------------------------------------
StateFlags == {"CONNECT", "STATE", "NEEDSRECONNECT", "PING_STATS"}

\* Changed settings, account or config: FIREWALL is "firewall", "allowLAN" or
\* "overrideDNS", LOCATIONS is "locations", DATA any other key.
DataFlags == {"FIREWALL", "LOCATIONS", "DATA"}

Flags == StateFlags \cup DataFlags

View == [connect : BOOLEAN, state : State \cup {"EXITING"}, needsReconnect : BOOLEAN]

ASSUME DaemonAssumption ==
    /\ FirewallModes \subseteq {"auto", "on", "off"}
    /\ Incoming \subseteq Requests \cup DaemonRequests
    /\ GarbageFlags \subseteq SUBSET StateFlags

DaemonTypeOK ==
    /\ TypeOK
    /\ exiting \in BOOLEAN
    /\ clients \in SUBSET Clients
    /\ closing \in SUBSET clients
    /\ shouldConnect \in BOOLEAN
    /\ firewall \in FirewallModes
    /\ notify \in SUBSET Flags
    /\ notifyScheduled \in BOOLEAN
    /\ killswitch \in BOOLEAN
    /\ told \in [Clients -> View \cup {NoView}]

DaemonInit ==
    /\ Init
    /\ exiting = FALSE
    /\ clients = {}
    /\ closing = {}
    /\ shouldConnect = FALSE
    /\ firewall \in FirewallModes
    /\ notify \in GarbageFlags
    /\ notifyScheduled = FALSE
    /\ killswitch = FALSE
    /\ told = [c \in Clients |-> NoView]

-----------------------------------------------------------------------------
(* Notifications.                                                          *)

\* MakeStateObject, all fields.
Shown ==
    [connect        |-> shouldConnect,
     state          |-> IF exiting THEN "EXITING" ELSE state,
     needsReconnect |-> needsReconnect]

\* MakeStateObject of the flagged fields, merged into what the client knew.
Tell(view, flags) ==
    [connect        |-> IF "CONNECT" \in flags THEN Shown'.connect ELSE view.connect,
     state          |-> IF "STATE" \in flags THEN Shown'.state ELSE view.state,
     needsReconnect |-> IF "NEEDSRECONNECT" \in flags THEN Shown'.needsReconnect
                        ELSE view.needsReconnect]

\* ApplyFirewallSettings engages the killswitch.
Engaged == clients # {} /\ (firewall = "on" \/ (shouldConnect /\ firewall = "auto"))

\* OnStateChanged, OnSettingsChanged, ..: NotifyChanges is to be run for these changes.
MustNotify(raised) == notifyScheduled \/ ~(raised \subseteq notify)

PostNotify(raised) ==
    IF ~notifyScheduled /\ MustNotify(raised) THEN <<"NotifyChanges">> ELSE <<>>

Notify(raised) ==
    /\ notify' = notify \cup raised
    /\ notifyScheduled' = MustNotify(raised)

\* PingServers marks the ping results as updating when there is no connection.
PingServersRaises == IF ~exiting' /\ state' = "DISCONNECTED" THEN {"PING_STATS"} ELSE {}

\* Mutant: a changed firewall setting is not applied.
FirewallFlagsOfState == {"STATE", "CONNECT"}

\* NotifyChanges calls ApplyFirewallSettings for these.
FirewallFlags == {"STATE", "CONNECT", "FIREWALL"}

\* What NotifyChanges raises anew, once it has cleared the flags.
RaisedByNotify(flags) ==
    IF "LOCATIONS" \in flags \/ "STATE" \in flags THEN PingServersRaises ELSE {}

\* NotifyChanges, called at the end of a handler that raised these changes.
NotifyChanges(raised) ==
    LET flags == notify \cup raised
        again == RaisedByNotify(flags)
    IN  IF MustNotify(raised)
        THEN /\ notify' = again
             /\ notifyScheduled' = (again # {})
             /\ told' = [c \in Clients |-> IF c \in clients THEN Tell(told[c], flags) ELSE told[c]]
             /\ killswitch' = IF flags \cap FirewallFlags # {} THEN Engaged' ELSE killswitch
        ELSE UNCHANGED <<notifyVars, told, killswitch>>

\* Mutant: NotifyChanges clears _notify_scheduled too late.
NeverAgain(raised) == <<>>

PostAgain(raised) ==
    IF MustNotify(raised) /\ RaisedByNotify(notify \cup raised) # {}
    THEN <<"NotifyChanges">> ELSE <<>>

\* Mutant: the firewall is not looked at when clients come and go.
KeepKillswitch == killswitch

\* "If the kill-switch is set to always on", for the first and the last client.
KillswitchForClients == IF firewall = "on" THEN Engaged' ELSE killswitch

Raised(condition, flag) == IF condition THEN {flag} ELSE {}

-----------------------------------------------------------------------------
(* The daemon as the Connection's listener.                                *)

\* OnConnectionStateChanged while not exiting; "wanted" is _shouldConnect so far.
RaisedByConnection(wanted) ==
    IF exiting \/ state' = state THEN {}
    ELSE {"STATE"} \cup Raised(state' = "DISCONNECTED" /\ wanted, "CONNECT")

\* Mutant: the shutdown does not wait for the connection.
PostNoShutdown == <<>>

\* OnConnectionStateChanged while exiting.
PostShutdown ==
    IF exiting /\ state' # state /\ state' = "DISCONNECTED" THEN <<"DoShutdown">> ELSE <<>>

\* Mutant: _shouldConnect is not reset.
LeaveOn == UNCHANGED shouldConnect

\* "_shouldConnect = false"
SwitchOff == shouldConnect' = FALSE

GivesUp == ~exiting /\ state' # state /\ state' = "DISCONNECTED"

\* What the listener does during a handler that calls nothing else of the daemon.
Listen(extra) ==
    /\ shouldConnect' = (shouldConnect /\ ~GivesUp)
    /\ Notify(RaisedByConnection(shouldConnect) \cup extra)
    /\ UNCHANGED <<exiting, clientVars, firewall, killswitch>>

ListenerPosts(extra) ==
    PostNotify(RaisedByConnection(shouldConnect) \cup extra) \o PostShutdown

\* Mutant: OnConnectionAttempt tells nobody.
RaisesNothing == {}

\* OnConnectionAttempt
RaisedByAttempt == Raised(needsReconnect /\ ~needsReconnect', "NEEDSRECONNECT")

DDoConnect ==
    /\ Ready("DoConnect")
    /\ \E launched \in BOOLEAN :
         DoConnect(launched, Tail(queue), ListenerPosts(RaisedByAttempt))
    /\ Listen(RaisedByAttempt)
    /\ UNCHANGED settings

DSlowTimeout ==
    /\ Ready("SlowTimeout")
    /\ OnSlowConnectionTimeout(Tail(queue), ListenerPosts({}))
    /\ Listen({})
    /\ UNCHANGED daemonVars

DExited ==
    /\ Ready("Exited")
    /\ \E early \in BOOLEAN : OnOpenVPNExited(early, Tail(queue), ListenerPosts({}))
    /\ Listen({})
    /\ UNCHANGED daemonVars

DLine ==
    /\ \E line \in Lines : Ready(line) /\ OnOpenVPNManagement(line, Tail(queue), ListenerPosts({}))
    /\ Listen({})
    /\ UNCHANGED daemonVars

\* Handlers that change no state the daemon listens to.
DQuiet == (RunAccept \/ RunStaleError \/ RunDiscarded) /\ UNCHANGED ownVars

-----------------------------------------------------------------------------
(* Requests of the clients.                                                *)

\* RPC_connect and RPC_disconnect that return early or throw.
DRefused ==
    /\ \/ Ready("Connect") /\ (exiting \/ ~Complete(settings))
       \/ Ready("Disconnect") /\ exiting
    /\ queue' = Tail(queue)
    /\ UNCHANGED <<connVars, daemonVars, ownVars>>

\* RPC_connect
DConnect ==
    LET raised == {"DATA"} \cup Raised(~shouldConnect, "CONNECT")
                  \cup Raised(state' # state, "STATE")
                  \cup Raised(needsReconnect, "NEEDSRECONNECT")
    IN  /\ Ready("Connect")
        /\ ~exiting
        /\ Complete(settings)
        /\ shouldConnect' = TRUE
        /\ needsReconnect' = FALSE
        /\ UNCHANGED <<settings, exiting, clients, closing, firewall>>
        /\ Connect(needsReconnect, Tail(queue) \o PostNotify({"DATA"}), <<>>)
        /\ NotifyChanges(raised)

\* RPC_disconnect
DDisconnect ==
    LET first  == Raised(shouldConnect, "CONNECT")
        raised == first \cup RaisedByConnection(FALSE)
    IN  /\ Ready("Disconnect")
        /\ ~exiting
        /\ SwitchOff
        /\ UNCHANGED <<daemonVars, exiting, clients, closing, firewall>>
        /\ Disconnect(Tail(queue) \o PostNotify(first),
                      (IF PostNotify(first) = <<>> THEN PostNotify(raised) ELSE <<>>)
                      \o PostAgain(raised))
        /\ NotifyChanges(raised)

\* RPC_applySettings ("asks" when it goes on to call NeedsReconnect), RPC_applyConfig,
\* RPC_setAccount or RPC_resetSettings, with the keys they change.
AppliesSettings(keys, asks) ==
    LET queries == asks /\ ~needsReconnect /\ ~exiting
        throws  == queries /\ NeedsReconnectThrows(settings')
        finds   == queries /\ ~throws /\ NeedsReconnect(settings')
        raised  == keys \cup Raised(finds, "NEEDSRECONNECT")
    IN  /\ Ready("ApplySettings")
        /\ settings' \in SettingsSpace
        /\ firewall' \in FirewallModes
        /\ settings' # settings => keys # {}
        /\ firewall' # firewall => "FIREWALL" \in keys
        /\ asks \/ "FIREWALL" \in keys => "LOCATIONS" \notin keys
        /\ connNeedsReconnect' = IF queries /\ ~throws THEN finds ELSE connNeedsReconnect
        /\ needsReconnect' = (needsReconnect \/ finds)
        /\ UNCHANGED <<state, ovpn, attempts, timerVars, copied, procVars, staleReader, loop,
                       exiting, clients, closing, shouldConnect>>
        /\ IF throws
           THEN Notify(raised) /\ UNCHANGED <<told, killswitch>>
           ELSE NotifyChanges(raised)
        /\ queue' = Tail(queue) \o PostNotify(raised)
                    \o (IF throws THEN <<>> ELSE PostAgain(raised))

\* Whatever the keys; some of the four always call NeedsReconnect, some never.
DApplySettings ==
    \E keys \in SUBSET DataFlags, asks \in BOOLEAN : AppliesSettings(keys, asks)

-----------------------------------------------------------------------------
(* The daemon's own handlers.                                              *)

\* NotifyChanges as a handler.
DNotifyChanges ==
    /\ Ready("NotifyChanges")
    /\ UNCHANGED <<connVars, daemonVars, exiting, clients, closing, shouldConnect, firewall>>
    /\ NotifyChanges({})
    /\ queue' = Tail(queue) \o PostAgain({})

\* The open handler, OnFirstClientConnected and OnClientConnected.
DOpen(c) ==
    LET raised == IF clients = {} THEN PingServersRaises ELSE {}
    IN  /\ Ready("Open")
        /\ clients' = clients \cup {c}
        /\ UNCHANGED <<connVars, daemonVars, exiting, closing, shouldConnect, firewall>>
        /\ killswitch' = IF clients = {} THEN KillswitchForClients ELSE killswitch
        /\ told' = [told EXCEPT ![c] = Shown]
        /\ Notify(raised)
        /\ queue' = Tail(queue) \o PostNotify(raised)

DOpenAny == \E c \in Clients \ clients : DOpen(c)

\* Mutant: a close handshake outlives its client.
LeaveClosing(c) ==
    /\ clients' = clients \ {c}
    /\ told' = [told EXCEPT ![c] = NoView]
    /\ UNCHANGED closing

\* "_connections.erase(c)"
Leave(c) ==
    /\ clients' = clients \ {c}
    /\ told' = [told EXCEPT ![c] = NoView]
    /\ closing' = closing \ {c}

\* The close handler of a client that is not the last.
DClose(c) ==
    /\ Ready("Close")
    /\ clients \ {c} # {}
    /\ Leave(c)
    /\ queue' = Tail(queue)
    /\ UNCHANGED <<connVars, daemonVars, exiting, shouldConnect, firewall, notifyVars, killswitch>>

\* The close handler and OnLastClientDisconnected.
DCloseLast(c) ==
    LET first  == Raised(shouldConnect, "CONNECT")
        raised == first \cup RaisedByConnection(FALSE)
    IN  /\ Ready("Close")
        /\ clients = {c}
        /\ Leave(c)
        /\ SwitchOff
        /\ UNCHANGED <<daemonVars, exiting, firewall>>
        /\ IF exiting
           THEN /\ UNCHANGED connVars
                /\ queue' = Tail(queue) \o PostNotify(first) \o <<"DoShutdown">>
           ELSE Disconnect(Tail(queue) \o PostNotify(first),
                           IF PostNotify(first) = <<>> THEN PostNotify(raised) ELSE <<>>)
        /\ Notify(raised)
        /\ killswitch' = KillswitchForClients

DCloseAny == \E c \in clients : DClose(c) \/ DCloseLast(c)

\* OnSignal for SIGINT and SIGTERM: RequestShutdown.
DTerminate ==
    LET raised == Raised(~exiting, "STATE")
    IN  /\ Ready("Terminate")
        /\ exiting' = TRUE
        /\ Notify(raised)
        /\ queue' = Tail(queue) \o PostNotify(raised) \o <<"DoShutdown">>
        /\ UNCHANGED <<connVars, daemonVars, clientVars, shouldConnect, firewall, killswitch>>

\* DoShutdown, step 1: "Shut down any existing OpenVPN process".
DShutdownConnection ==
    LET raised == Raised(shouldConnect, "CONNECT")
    IN  /\ Ready("DoShutdown")
        /\ state # "DISCONNECTED"
        /\ SwitchOff
        /\ UNCHANGED <<daemonVars, exiting, clientVars, firewall, killswitch>>
        /\ Disconnect(Tail(queue) \o PostNotify(raised), PostShutdown)
        /\ Notify(raised)

\* Steps 2 and 3: notify, "Disconnect all clients", "kill the message loop".
DShutdownClients ==
    LET raised == Raised(shouldConnect, "CONNECT")
    IN  /\ Ready("DoShutdown")
        /\ state = "DISCONNECTED"
        /\ SwitchOff
        /\ closing' = clients
        /\ loop' = IF clients = {} THEN "stopped" ELSE loop
        /\ UNCHANGED <<state, ovpn, attempts, timerVars, copyVars, procVars, staleReader,
                       daemonVars, exiting, clients, firewall>>
        /\ NotifyChanges(raised)
        /\ queue' = Tail(queue) \o PostNotify(raised) \o PostAgain(raised)

DRun == \/ DDoConnect \/ DSlowTimeout \/ DExited \/ DLine \/ DQuiet
        \/ DConnect \/ DDisconnect \/ DRefused \/ DApplySettings
        \/ DNotifyChanges \/ DOpenAny \/ DCloseAny \/ DTerminate
        \/ DShutdownConnection \/ DShutdownClients

-----------------------------------------------------------------------------
(* The environment.                                                        *)

Becomes(h) ==
    /\ loop = "running"
    /\ ~Has(queue, h)
    /\ Room
    /\ queue' = Append(queue, h)
    /\ UNCHANGED <<connVars, daemonVars, ownVars>>

\* A client whose close is not queued yet.
Attached == clients # {} /\ (Has(queue, "Close") => Cardinality(clients) > 1)

\* A request is read from a client that is not being closed.
ClientAsks(request) ==
    /\ Attached
    /\ clients \ closing # {}
    /\ Arrive(request)
    /\ UNCHANGED ownVars

ClientOpens == "Open" \in Incoming /\ clients # Clients /\ Becomes("Open")

\* A client leaves, or answers a close of the daemon.
ClientCloses == ("Close" \in Incoming \/ closing # {}) /\ Attached /\ Becomes("Close")

\* The daemon is asked to stop (and may be asked again when that takes long).
Terminates == "Terminate" \in Incoming /\ ~Has(queue, "DoShutdown") /\ Becomes("Terminate")

DEnvironment ==
    \/ Background /\ UNCHANGED ownVars
    \/ \E request \in Requests \cap Incoming : ClientAsks(request)
    \/ ClientOpens
    \/ ClientCloses
    \/ Terminates

DDead == loop # "running" /\ UNCHANGED vars

DaemonNext == DRun \/ DEnvironment \/ DDead

DaemonSpec == DaemonInit /\ [][DaemonNext]_vars

(***************************************************************************)
(* On top of Connection's fairness: the loop runs the daemon's handlers,   *)
(* and a close that the daemon started ends, by the client's answer or by  *)
(* websocketpp's timeout.                                                  *)
(***************************************************************************)
DaemonFairness ==
    /\ WF_vars(DRun)
    /\ WF_vars(SlowTimerFires /\ UNCHANGED ownVars)
    /\ WF_vars(IntervalTimerFires /\ UNCHANGED ownVars)
    /\ WF_vars((sigterm \/ phase = "exiting") /\ ProcessExits /\ UNCHANGED ownVars)
    /\ WF_vars(closing # {} /\ ClientCloses)

FairDaemonSpec == DaemonSpec /\ DaemonFairness

-----------------------------------------------------------------------------
(* Properties.                                                             *)

\* No wakeup is lost: whatever is still to be told, NotifyChanges is queued for it
\* (OnStateChanged, OnSettingsChanged, NotifyChanges).
NotificationPending ==
    /\ notify # {} => notifyScheduled
    /\ notifyScheduled /\ loop = "running" => Has(queue, "NotifyChanges")

\* What a client was told differs from the daemon's state in flagged fields only
\* (MakeStateObject, OnClientConnected, OnStateChanged).
ClientsUpToDate ==
    \A c \in clients :
        /\ told[c].connect # Shown.connect => "CONNECT" \in notify
        /\ told[c].state # Shown.state => "STATE" \in notify
        /\ told[c].needsReconnect # Shown.needsReconnect => "NEEDSRECONNECT" \in notify

\* The user's switch is on only while the connection is up or being made, for a client
\* that is there (RPC_connect, OnConnectionStateChanged, OnLastClientDisconnected).
OnMeansTrying ==
    shouldConnect => clients # {} /\ state \notin {"DISCONNECTED", "DISCONNECTING"}

\* The killswitch is what the settings, the switch and the clients ask for, or
\* NotifyChanges is about to make it so (ApplyFirewallSettings).
KillswitchFollows ==
    killswitch = Engaged \/ notify \cap FirewallFlags # {}

\* The killswitch is not left behind by a shutdown (DoShutdown, OnLastClientDisconnected).
KillswitchOffAtExit == loop = "stopped" => ~killswitch

\* A shutdown always has a next step: DoShutdown is queued, OpenVPN is going down, or
\* there are clients to close (DoShutdown, OnConnectionStateChanged).
ShutdownPending ==
    exiting /\ loop = "running"
        => Has(queue, "DoShutdown") \/ state = "DISCONNECTING" \/ clients # {}

(* The inductive invariant of DaemonProofs.                                *)

\* A close is at most once in the queue, and a Connect behind it was sent by
\* another client, so that there is one when either runs.
LateConnect == \E i, j \in DOMAIN queue : i < j /\ queue[i] = "Close" /\ queue[j] = "Connect"

RequestsHaveClients ==
    /\ \A i, j \in DOMAIN queue : queue[i] = "Close" /\ queue[j] = "Close" => i = j
    /\ Has(queue, "Connect") => clients # {}
    /\ LateConnect => Cardinality(clients) > 1
    /\ shouldConnect => clients # {}

\* Flags that are set without a NotifyChanges were there from the start, and the
\* first Connect replaces them.
GarbageHarmless ==
    notify # {} /\ ~notifyScheduled
        => notify \subseteq StateFlags /\ ~shouldConnect /\ killswitch = Engaged

\* NotificationPending, but for such flags.
NotifyChangesQueued == notifyScheduled /\ loop = "running" => Has(queue, "NotifyChanges")

\* OnMeansTrying, until the daemon is asked to stop.
OnMeansTryingUntilExit ==
    /\ shouldConnect /\ ~exiting => state \notin {"DISCONNECTED", "DISCONNECTING"}
    /\ exiting \/ Has(queue, "Terminate") => "Terminate" \in Incoming
    /\ Has(queue, "DoShutdown") => exiting

DaemonInv ==
    /\ queue \in Seq(Handlers)
    /\ clients \subseteq Clients /\ IsFiniteSet(clients) /\ DOMAIN told = Clients
    /\ shouldConnect \in BOOLEAN /\ needsReconnect \in BOOLEAN
    /\ RequestsHaveClients
    /\ GarbageHarmless
    /\ NotifyChangesQueued
    /\ OnMeansTryingUntilExit
    /\ ClientsUpToDate
    /\ KillswitchFollows
    /\ KillswitchOffAtExit
    /\ ShutdownPending

\* Asked to stop with no client attached, the daemon stops, unless the late error line
\* of a discarded process relaunches OpenVPN meanwhile (DoShutdown, SignalError).
ShutdownEnds ==
    (exiting /\ clients = {})
        ~> (loop # "running" \/ clients # {} \/ Has(queue, "StaleError"))
=============================================================================
