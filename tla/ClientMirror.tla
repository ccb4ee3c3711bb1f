---------------------------- MODULE ClientMirror ----------------------------
(***************************************************************************)
(* The two copies of the daemon's data in the client, and the messages     *)
(* that keep them up to date: the main process (client/src/daemon.js)      *)
(* follows the daemon over the socket of RpcClient, and the window         *)
(* (client/src/web/daemon.js) follows the main process over Electron's     *)
(* IPC.  A key of the data is one field of config, account, settings or    *)
(* state; its value is represented by how often it was set, so that later  *)
(* values are greater, and 0 stands for a field the copy does not have.    *)
(*                                                                         *)
(* Messages to a page are delivered in order.  Those that were sent before *)
(* its script registered its listeners may be lost, all up to some point,  *)
(* or be delivered after the synchronous call the script begins with.      *)
(***************************************************************************)
EXTENDS RpcClient

CONSTANTS
    Keys,       \* fields of the daemon's data
    Setting,    \* the one that applySettings writes
    MaxChanges, \* bound on the changes of a field in a behaviour
    MaxCalls,   \* bound on the requests of the window, at most MaxRequests
    MaxUnread   \* bound on what the window has not read when main goes on

ASSUME MirrorAssumption ==
    /\ Setting \in Keys
    /\ MaxChanges \in Nat \ {0}
    /\ MaxCalls \in 0..MaxRequests
    /\ MaxUnread \in Nat \ {0}

VARIABLES
    real,       \* the daemon's data
    wrote,      \* request -> the value of Setting that it wrote
    version,    \* the daemon that runs has the version of the client
    isopen,     \* main: the daemon's first message was received
    main,       \* main: daemon.config, account, settings and state
    connected,  \* main: the promise of connect(): waiting, resolved or rejected
    page,       \* the window: "none", "loading" or "loaded"
    ipc,        \* messages on their way to the window
    window,     \* window: its daemon.config, account, settings and state
    opened,     \* window: opened
    loaderOn,   \* window: the loader is shown
    returned    \* window: the calls whose promise was resolved

daemonVars == <<real, wrote, version>>
mainVars == <<isopen, main, connected>>
pageVars == <<page, window, opened, loaderOn, returned>>
mirrorVars == <<rpcVars, daemonVars, mainVars, ipc, pageVars>>

Values == 0..MaxChanges
Empty == [k \in Keys |-> 0]
Delta(keys, data) == [k \in keys |-> data[k]]

\* A notification of the daemon.  The first one of a connection has every
\* field, and the version.
Data(delta) == [type |-> "data", delta |-> delta]
IsComplete(delta) == DOMAIN delta = Keys

\* The fields of delta that differ from target, which filterChanges leaves.
FilterChanges(target, delta) ==
    Delta({k \in DOMAIN delta : delta[k] # target[k]}, delta)

\* Mutant: what is received takes the place of the copy.
Replace(target, delta) == delta

\* Object.assign(target, delta)
Assign(target, delta) ==
    [k \in Keys |-> IF k \in DOMAIN delta THEN delta[k] ELSE target[k]]

\* webContents.send, if there is a window
ToWindow(msgs) ==
    /\ Len(ipc) < MaxUnread
    /\ ipc' = IF page = "none" THEN ipc ELSE ipc \o msgs
Up(data) == [type |-> "up", delta |-> data]
Down == [type |-> "down", delta |-> <<>>]
Post(delta) == [type |-> "post", delta |-> delta]
StatusReply == IF isopen THEN Up(main) ELSE Down

MirrorTypeOK ==
    /\ RpcTypeOK
    /\ real \in [Keys -> Values]
    /\ wrote \in [Requests -> Values]
    /\ version \in BOOLEAN /\ isopen \in BOOLEAN
    /\ main \in [Keys -> Values] /\ window \in [Keys -> Values]
    /\ connected \in {"waiting", "resolved", "rejected"}
    /\ page \in {"none", "loading", "loaded"}
    /\ opened \in BOOLEAN /\ loaderOn \in BOOLEAN
    /\ returned \subseteq Requests

MirrorInit ==
    /\ RpcInit
    /\ real = [k \in Keys |-> 1]
    /\ wrote = [r \in Requests |-> 0]
    /\ version \in BOOLEAN
    /\ isopen = FALSE
    /\ main = Empty
    /\ connected = "waiting"
    /\ page = "none"
    /\ ipc = <<>>
    /\ window = Empty
    /\ opened = FALSE
    /\ loaderOn = TRUE
    /\ returned = {}

-----------------------------------------------------------------------------
\* The daemon

CanChange(keys) == \A k \in keys : real[k] < MaxChanges
Change(keys) == real' = [k \in Keys |-> IF k \in keys THEN real[k] + 1 ELSE real[k]]

\* NotifyChanges: what changed is sent to a client that is connected.
NotificationTo(keys) == IF socket = "open" THEN <<Data(Delta(keys, real'))>> ELSE <<>>

DaemonChanges ==
    \E keys \in SUBSET Keys \ {{}} :
        /\ CanChange(keys)
        /\ Change(keys)
        /\ downstream' = downstream \o NotificationTo(keys)
        /\ UNCHANGED <<socketVars, requestVars, upstream, executed, wrote, version,
                       mainVars, ipc, pageVars>>

\* Another daemon is installed while there is no connection.
DaemonReplaced ==
    /\ socket \in {"connecting", "closed"}
    /\ version' \in BOOLEAN \ {version}
    /\ UNCHANGED <<rpcVars, real, wrote, mainVars, ipc, pageVars>>

\* Mutant: the answer overtakes the notification of what the call changed.
AnswerFirst(keys, r) == AnswerTo(r) \o NotificationTo(keys)

\* RPC_applySettings notifies before it returns.
NotifyFirst(keys, r) == NotificationTo(keys) \o AnswerTo(r)

RPC_applySettings ==
    /\ upstream # <<>>
    /\ CanChange({Setting})
    /\ Change({Setting})
    /\ wrote' = [wrote EXCEPT ![Head(upstream)] = real'[Setting]]
    /\ Executes(NotifyFirst({Setting}, Head(upstream)))
    /\ UNCHANGED <<socketVars, requestVars, version, mainVars, ipc, pageVars>>

-----------------------------------------------------------------------------
\* The main process

\* The connection is accepted, and OnClientConnected sends everything.
SocketOpens == Opens(<<Data(real)>>) /\ UNCHANGED <<daemonVars, mainVars, ipc, pageVars>>

\* onerror: once for each event that reaches _onerror.
ReportDown(events) ==
    /\ isopen' = FALSE
    /\ ToWindow(events)
    /\ UNCHANGED <<daemonVars, main, connected, pageVars>>

SocketFails ==
    \/ Refused /\ ReportDown(<<Down, Down>>)
    \/ SocketError /\ ReportDown(<<Down>>)
    \/ Closes /\ ReportDown(<<Down>>)
    \/ ServerCloses /\ UNCHANGED <<daemonVars, mainVars, ipc, pageVars>>
    \/ HandshakeEnds /\ UNCHANGED <<daemonVars, mainVars, ipc, pageVars>>

TimerFires == ReconnectTimer /\ UNCHANGED <<daemonVars, mainVars, ipc, pageVars>>

\* onpost with the daemon's first message, of the wrong version.
VersionMismatch ==
    /\ Head(downstream).type = "data"
    /\ ~isopen /\ IsComplete(Head(downstream).delta) /\ ~version
    /\ connected' = IF connected = "waiting" THEN "rejected" ELSE connected
    /\ socket' = "none"
    /\ queue' = <<>>
    /\ callbacks' = {}
    /\ downstream' = Tail(downstream)
    /\ UNCHANGED <<reconnectTimeout, issued, status, upstream, executed, daemonVars,
                   isopen, main, ipc, pageVars>>

\* Mutant: a first message is stored, but not passed on.
UpOnly(delta) == <<Up(main)>>

\* What onpost sends to the window: on the first message of a connection the
\* data as they were before it, then what the message changed.
Relayed(delta) ==
    (IF isopen THEN <<>> ELSE <<Up(main)>>) \o <<Post(FilterChanges(main, delta))>>

OnData ==
    LET delta == Head(downstream).delta IN
    /\ Head(downstream).type = "data"
    /\ isopen \/ (IsComplete(delta) /\ version)
    /\ isopen' = TRUE
    /\ connected' = IF connected = "waiting" THEN "resolved" ELSE connected
    /\ main' = Assign(main, delta)
    /\ ToWindow(Relayed(delta))
    /\ downstream' = Tail(downstream)
    /\ UNCHANGED <<socketVars, requestVars, upstream, executed, daemonVars, pageVars>>

\* A partial message before the first one is dropped.
OnEarlyData ==
    /\ Head(downstream).type = "data"
    /\ ~isopen /\ ~IsComplete(Head(downstream).delta)
    /\ downstream' = Tail(downstream)
    /\ UNCHANGED <<socketVars, requestVars, upstream, executed, daemonVars, mainVars, ipc, pageVars>>

\* The promise of a daemon-call is settled: daemon-result.
OnAnswer ==
    /\ Head(downstream).type = "result"
    /\ OnResult(Head(downstream).request)
    /\ ToWindow(IF Head(downstream).request \in callbacks THEN <<Head(downstream)>> ELSE <<>>)
    /\ downstream' = Tail(downstream)
    /\ UNCHANGED <<socketVars, queue, issued, upstream, executed, daemonVars, mainVars, pageVars>>

MainReceives == downstream # <<>> /\ (VersionMismatch \/ OnData \/ OnEarlyData \/ OnAnswer)

\* connectToDaemon's promises are fulfilled: createMainWindow, which ends with
\* notifyWindowCreated.
CreateWindow ==
    /\ page = "none"
    /\ connected = "resolved"
    /\ page' = "loading"
    /\ ipc' = <<StatusReply>>
    /\ UNCHANGED <<rpcVars, daemonVars, mainVars, window, opened, loaderOn, returned>>

\* daemon-call and daemon-post from the window.
WindowSends(kind) ==
    /\ page = "loaded" /\ opened
    /\ issued < MaxCalls
    /\ Send(kind)
    /\ UNCHANGED <<daemonVars, mainVars, ipc, pageVars>>

\* will-quit: the main process gives the connection up.
Quit ==
    /\ socket # "none"
    /\ page = "loaded"
    /\ Disconnect
    /\ UNCHANGED <<daemonVars, mainVars, ipc, pageVars>>

-----------------------------------------------------------------------------
\* The window

\* up(): onpost with all the data, then the ready callbacks.
OnUp(data) ==
    /\ window' = Assign(window, FilterChanges(window, data))
    /\ opened' = TRUE
    /\ loaderOn' = FALSE

\* The script of the page registers its listeners and asks for the status.
PageLoads ==
    /\ page = "loading"
    /\ page' = "loaded"
    /\ \E n \in 0..Len(ipc) : ipc' = SubSeq(ipc, n + 1, Len(ipc))
    /\ IF isopen THEN OnUp(main) ELSE UNCHANGED <<window, opened, loaderOn>>
    /\ UNCHANGED <<rpcVars, daemonVars, mainVars, returned>>

WindowReceives ==
    LET msg == Head(ipc) IN
    /\ page = "loaded"
    /\ ipc # <<>>
    /\ ipc' = Tail(ipc)
    /\ \/ /\ msg.type = "up"
          /\ OnUp(msg.delta)
          /\ UNCHANGED returned
       \/ /\ msg.type = "down"
          /\ loaderOn' = TRUE
          /\ UNCHANGED <<window, opened, returned>>
       \/ /\ msg.type = "post"
          /\ window' = Assign(window, FilterChanges(window, msg.delta))
          /\ UNCHANGED <<opened, loaderOn, returned>>
       \/ /\ msg.type = "result"
          /\ returned' = returned \union {msg.request}
          /\ UNCHANGED <<window, opened, loaderOn>>
    /\ UNCHANGED <<rpcVars, daemonVars, mainVars, page>>

MirrorNext ==
    \/ DaemonChanges \/ DaemonReplaced \/ RPC_applySettings
    \/ SocketOpens \/ SocketFails \/ TimerFires
    \/ MainReceives \/ CreateWindow \/ Quit
    \/ \E kind \in {"call", "post"} : WindowSends(kind)
    \/ PageLoads \/ WindowReceives

\* Timers fire, a closing handshake ends (ws gives up after 30 s), and the
\* window's event loop runs.
ClosingEnds == socket = "closing" /\ SocketFails

MirrorFairness ==
    /\ WF_mirrorVars(TimerFires)
    /\ WF_mirrorVars(ClosingEnds)
    /\ WF_mirrorVars(PageLoads)
    /\ WF_mirrorVars(WindowReceives)

MirrorSpec == MirrorInit /\ [][MirrorNext]_mirrorVars /\ MirrorFairness

-----------------------------------------------------------------------------
\* The last of some positions in a sequence, and the messages about a key.
LastIn(positions) == CHOOSE i \in positions : \A j \in positions : j <= i
About(s, k) == {i \in DOMAIN s : s[i].type # "result" /\ k \in DOMAIN s[i].delta}

\* The value of key k after the messages of s, starting from v.
Latest(s, k, v) == IF About(s, k) = {} THEN v ELSE s[LastIn(About(s, k))].delta[k]

\* Main has, or is going to be told, the daemon's data: what is on its way,
\* applied to what main has, is what the daemon has now.
MainFollows ==
    socket = "open" => \A k \in Keys : Latest(downstream, k, main[k]) = real[k]

\* The window has, or is going to be told, main's data, although what main
\* forwards is only the difference to its own copy, and messages sent before
\* the page was there were lost or arrive after a newer snapshot.
WindowFollows ==
    (page = "loaded" /\ opened) => \A k \in Keys : Latest(ipc, k, window[k]) = main[k]

\* Whoever uses the window's copy finds every field there.
OpenedHasData == opened => \A k \in Keys : window[k] # 0

\* The loader is shown, in the end, exactly while main has no connection.
Signals(s) == {i \in DOMAIN s : s[i].type \in {"up", "down"}}
LoaderFollows ==
    page = "loaded" =>
        IF Signals(ipc) = {} THEN loaderOn = ~isopen
        ELSE isopen <=> ipc[LastIn(Signals(ipc))].type = "up"

\* Each copy catches up with what it copies as soon as nothing is on its way.
MirrorsFollow == MainFollows /\ WindowFollows /\ OpenedHasData /\ LoaderFollows

\* When the promise of applySettings is resolved in the window, the window's
\* settings are at least as new as what the call wrote.
ReadYourWrites ==
    \A r \in returned : wrote[r] > 0 /\ window[Setting] >= wrote[r]
=============================================================================
