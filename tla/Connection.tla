----------------------------- MODULE Connection -----------------------------
(***************************************************************************)
(* The daemon's Connection (daemon/connection.cpp): the state machine that *)
(* keeps one OpenVPN process running for as long as the user wants to be   *)
(* online, together with the parts of OpenVPNProcess (daemon/openvpn.cpp)  *)
(* and of asio that decide in which order its handlers run.                *)
(*                                                                         *)
(* Everything runs on one thread.  "queue" is the io_service: a FIFO of    *)
(* ready handlers.  Environment actions (a timer expiring, a management    *)
(* line, SIGCHLD, a client's request) append a handler; the loop pops the  *)
(* head and runs it to completion.  A handler posts with _io.post, which   *)
(* appends too, so whatever was already ready overtakes it.                *)
(*                                                                         *)
(* The operators take the rest of the queue "q", and "after", the handlers *)
(* that the listener posts while the operation runs, so that the Daemon    *)
(* module runs the same operators with itself as the listener.             *)
(***************************************************************************)
EXTENDS Naturals, Sequences, FiniteSets

CONSTANTS
    SettingsSpace,  \* the values of g_settings, g_config and g_account that matter here
    NoServer,       \* currentLocation() throws / fastest is "" or equal to location
    NoLogin,        \* g_account.privacy() has no username or password
    NotCopied,      \* _settings, _server, _username, _password before the first DoConnect
    MaxAttempts,    \* MAX_CONNECTION_ATTEMPTS = MAX_RECONNECTION_ATTEMPTS
    MaxRequests,    \* bound: requests of clients and the system waiting in the queue
    MaxBacklog      \* bound: ready handlers that a new request may find in the queue

ASSUME ConnectionAssumption ==
    /\ \A s \in SettingsSpace :
         DOMAIN s = {"options", "server", "cypherplay", "fastest", "login"}
    /\ \A s \in SettingsSpace : s.cypherplay \in BOOLEAN
    /\ MaxAttempts \in Nat \ {0}
    /\ MaxRequests \in Nat \ {0}
    /\ MaxBacklog \in Nat \ {0}

VARIABLES
    state,             \* _state
    ovpn,              \* _openvpn_state; the states before CONNECTED are one
    attempts,          \* _connection_attempts, saturating above MaxAttempts
    slowTimer,         \* a wait is pending on _slow_connection_timer
    intervalTimer,     \* a wait is pending on _connection_interval_timer
    copied,            \* _settings, _cypherplay, _server, _username, _password
    connNeedsReconnect,\* _needsReconnect of the Connection
    phase,             \* _openvpn_process: "none", or how far its management got
    exited,            \* the OpenVPN process is dead and SIGCHLD is pending
    signaled,          \* _management_signaled of the current process
    sigterm,           \* a SIGTERM is on its way to the current process
    staleReader,       \* the reader of a discarded process may still deliver an error line
    settings,          \* g_settings, g_config.locations, g_account.privacy
    needsReconnect,    \* _needsReconnect of the daemon
    queue,             \* ready handlers of the io_service
    loop               \* "threw": an exception left the main loop; "stopped": DoShutdown

procVars  == <<phase, exited, signaled, sigterm>>
timerVars == <<slowTimer, intervalTimer>>
copyVars  == <<copied, connNeedsReconnect>>
connVars  == <<state, ovpn, attempts, timerVars, copyVars, procVars, staleReader, loop>>
daemonVars == <<settings, needsReconnect>>
connectionVars == <<connVars, daemonVars, queue>>

-----------------------------------------------------------------------------
State == {"CONNECTING", "STILL_CONNECTING", "CONNECTED", "INTERRUPTED",
          "RECONNECTING", "STILL_RECONNECTING", "DISCONNECTING_TO_RECONNECT",
          "DISCONNECTING", "DISCONNECTED"}

\* OPENVPN_CONNECTING .. OPENVPN_ADD_ROUTES differ only in the log.
OpenVPNState == {"CONNECTING", "CONNECTED", "RECONNECTING", "EXITING", "EXITED"}

Phase == {"none", "launched", "accepting", "open", "negotiating", "rejected", "up", "exiting"}

\* Management lines with an effect; TLS_ERROR is ">STATE:..,EXITING,tls-error",
\* AUTH_FAILED is ">PASSWORD:Verification Failed" (or another unexpected one).
Lines == {"CONNECTING", "CONNECTED", "RECONNECTING", "EXITING", "TLS_ERROR", "AUTH_FAILED"}

Requests == {"Connect", "Disconnect", "ApplySettings"}

\* Handlers of the daemon (module Daemon).
DaemonRequests == {"Terminate", "Open", "Close"}
DaemonHandlers == {"NotifyChanges", "DoShutdown"} \cup DaemonRequests

Handlers == Lines \cup Requests \cup DaemonHandlers
            \cup {"DoConnect", "SlowTimeout", "Accept", "Exited", "StaleError", "Discarded"}

\* A handler waits in the queue.
Has(q, h) == \E i \in DOMAIN q : q[i] = h

CopySpace == [options : {s.options : s \in SettingsSpace}, cypherplay : BOOLEAN,
              server : {s.server : s \in SettingsSpace} \cup {s.fastest : s \in SettingsSpace},
              login : {s.login : s \in SettingsSpace}]

TypeOK ==
    /\ state \in State
    /\ ovpn \in OpenVPNState
    /\ attempts \in 0..(MaxAttempts + 1)
    /\ slowTimer \in BOOLEAN
    /\ intervalTimer \in BOOLEAN
    /\ copied \in CopySpace \cup {NotCopied}
    /\ connNeedsReconnect \in BOOLEAN
    /\ phase \in Phase
    /\ exited \in BOOLEAN
    /\ signaled \in BOOLEAN
    /\ sigterm \in BOOLEAN
    /\ staleReader \in BOOLEAN
    /\ settings \in SettingsSpace
    /\ needsReconnect \in BOOLEAN
    /\ queue \in Seq(Handlers)
    /\ loop \in {"running", "threw", "stopped"}

Init ==
    /\ state = "DISCONNECTED"
    /\ ovpn = "EXITED"
    /\ attempts = 0
    /\ slowTimer = FALSE
    /\ intervalTimer = FALSE
    /\ copied = NotCopied
    /\ connNeedsReconnect = FALSE
    /\ phase = "none"
    /\ exited = FALSE
    /\ signaled = FALSE
    /\ sigterm = FALSE
    /\ staleReader = FALSE
    /\ settings \in SettingsSpace
    /\ needsReconnect = FALSE
    /\ queue = <<>>
    /\ loop = "running"

-----------------------------------------------------------------------------
(* Helpers shared by the handlers.                                         *)

Increment(n) == IF n > MaxAttempts THEN n ELSE n + 1

\* Mutant: SetState forgets the timers when a process is being shut down.
RestingWithoutShutdown == {"CONNECTED", "DISCONNECTED"}

\* SetState: entering one of these states resets the counter and the timers.
Resting == {"CONNECTED", "DISCONNECTING_TO_RECONNECT", "DISCONNECTING", "DISCONNECTED"}

Resets(new) == new # state /\ new \in Resting

SetState(new) ==
    /\ state' = new
    /\ attempts' = IF Resets(new) THEN 0 ELSE attempts
    /\ slowTimer' = (slowTimer /\ ~Resets(new))
    /\ intervalTimer' = (intervalTimer /\ ~Resets(new))

\* OnSlowConnectionTimeout is run with an error when its wait is cancelled.
Aborted(cancelled) == IF cancelled /\ slowTimer THEN <<"SlowTimeout">> ELSE <<>>

\* _management_socket.is_open(): from the accept handler on.
ManagementOpen == phase \in {"open", "negotiating", "rejected", "up", "exiting"}

\* Mutant: Shutdown never falls back to Kill.
ShutdownWithoutKill ==
    /\ signaled' = TRUE
    /\ sigterm' = (sigterm \/ (~signaled /\ ManagementOpen))
    /\ UNCHANGED <<phase, exited>>

\* OpenVPNProcess::Shutdown: "signal SIGTERM" over the management socket the
\* first time (nothing if it is not open yet), Kill from the second time on.
Shutdown ==
    /\ signaled' = TRUE
    /\ sigterm' = (sigterm \/ signaled \/ ManagementOpen)
    /\ UNCHANGED <<phase, exited>>

ShutdownIf(condition) == IF condition THEN Shutdown ELSE UNCHANGED procVars

\* Mutant: without a process nobody asks for the next attempt.
PostNothing == <<>>

\* "if (_openvpn_process) Shutdown() else _io.post(DoConnect)"
ShutdownOrPost == ShutdownIf(phase # "none")
PostIfNoProcess == IF phase = "none" THEN <<"DoConnect">> ELSE <<>>

\* STILL_* once there were too many attempts.
SlowState(s, n) ==
    CASE s = "CONNECTING"   /\ n > MaxAttempts -> "STILL_CONNECTING"
      [] s = "RECONNECTING" /\ n > MaxAttempts -> "STILL_RECONNECTING"
      [] OTHER -> s

-----------------------------------------------------------------------------
(* Settings.                                                               *)

\* What CopySettings saves; with locationFlag "cypherplay" the server is the
\* fastest one the client named.
CopyOf(s) ==
    [options    |-> s.options,
     cypherplay |-> s.cypherplay,
     server     |-> IF s.cypherplay /\ s.fastest # NoServer THEN s.fastest ELSE s.server,
     login      |-> s.login]

\* currentLocation() and privacy().at(..) return instead of throwing.
Complete(s) == s.server # NoServer /\ s.login # NoLogin

Mismatch(s) ==
    \/ copied.options # s.options
    \/ copied.server # s.server
    \/ copied.cypherplay # s.cypherplay

\* NeedsReconnect(): the flag is sticky until the process is gone or replaced.
NeedsReconnect(s) == phase # "none" /\ (connNeedsReconnect \/ Mismatch(s))

\* The comparison with currentLocation() throws.
NeedsReconnectThrows(s) ==
    /\ phase # "none"
    /\ ~connNeedsReconnect
    /\ copied.options = s.options
    /\ s.server = NoServer

-----------------------------------------------------------------------------
(* Operations called by the daemon.                                        *)

Retriable == {"CONNECTING", "STILL_CONNECTING", "CONNECTED", "RECONNECTING", "STILL_RECONNECTING"}

ConnectUnneeded(force) == state \in Retriable /\ ~force /\ ~NeedsReconnect(settings)

\* Connection::Connect, called by RPC_connect once it has found the required data.
Connect(force, q, after) ==
    /\ connNeedsReconnect' = IF state \in Retriable /\ ~force THEN NeedsReconnect(settings)
                             ELSE connNeedsReconnect
    /\ \/ /\ ConnectUnneeded(force)
          /\ UNCHANGED <<state, attempts, timerVars, procVars>>
          /\ queue' = q \o after
       \/ /\ state \in Retriable \cup {"DISCONNECTING"}
          /\ ~ConnectUnneeded(force)
          /\ SetState("DISCONNECTING_TO_RECONNECT")
          /\ ShutdownOrPost
          /\ queue' = q \o Aborted(TRUE) \o PostIfNoProcess \o after
       \/ /\ state = "INTERRUPTED"
          /\ ShutdownOrPost
          /\ queue' = q \o PostIfNoProcess \o after
          /\ UNCHANGED <<state, attempts, timerVars>>
       \/ /\ state \in {"DISCONNECTED", "DISCONNECTING_TO_RECONNECT"}
          /\ SetState("CONNECTING")
          /\ queue' = q \o <<"DoConnect">> \o after
          /\ UNCHANGED procVars
    /\ UNCHANGED <<ovpn, copied, staleReader, loop>>

\* Mutant: Disconnect always waits for an exit.
AlwaysDisconnecting == "DISCONNECTING"

\* Only a process that has not reported its exit is waited for.
StateAfterDisconnect == IF ovpn = "EXITED" THEN "DISCONNECTED" ELSE "DISCONNECTING"

\* Connection::Disconnect
Disconnect(q, after) ==
    /\ \/ /\ state = "DISCONNECTED"
          /\ UNCHANGED <<state, attempts, timerVars, procVars>>
          /\ queue' = q \o after
       \/ /\ state # "DISCONNECTED"
          /\ SetState(StateAfterDisconnect)
          /\ ShutdownIf(phase # "none" /\ ovpn \notin {"EXITING", "EXITED"})
          /\ queue' = q \o Aborted(Resets(state')) \o after
    /\ UNCHANGED <<ovpn, copyVars, staleReader, loop>>

-----------------------------------------------------------------------------
(* Handlers of the io_service.                                             *)

\* The switch at the top of DoConnect.
StateToConnect ==
    CASE state = "INTERRUPTED" -> "RECONNECTING"
      [] state \in {"DISCONNECTING_TO_RECONNECT", "DISCONNECTED"} -> "CONNECTING"
      [] OTHER -> state

AttemptsToConnect == IF StateToConnect # state THEN 0 ELSE attempts

\* Mutant: the daemon keeps asking for a reconnect that has been made.
KeepNeedsReconnect == UNCHANGED needsReconnect

\* CypherDaemon::OnConnectionAttempt
OnConnectionAttempt == needsReconnect' = FALSE

\* Mutant: DoConnect replaces the process that is still there.
NeverRunning == FALSE

\* "if (_openvpn_process) return" in DoConnect.
AlreadyRunning == phase # "none"

\* The rest of DoConnect: copy the settings, launch OpenVPN, arm the timer.
\* "launched" is FALSE when Run throws (fork or exec failed).
LaunchProcess(launched, q, after) ==
    LET first    == IF copied # CopyOf(settings) THEN 0 ELSE AttemptsToConnect
        restart  == first = 0 /\ StateToConnect \in {"CONNECTING", "RECONNECTING"}
    IN  /\ copied' = CopyOf(settings)
        /\ connNeedsReconnect' = FALSE
        /\ OnConnectionAttempt
        /\ phase' = "launched"
        /\ exited' = FALSE
        /\ signaled' = FALSE
        /\ sigterm' = FALSE
        /\ intervalTimer' = FALSE
        /\ slowTimer' = (slowTimer \/ restart)
        /\ attempts' = Increment(first)
        /\ state' = SlowState(StateToConnect, Increment(first))
        /\ queue' = q \o Aborted(restart) \o after
        /\ loop' = IF launched THEN "running" ELSE "threw"

DoConnect(launched, q, after) ==
    /\ \/ /\ state \in {"CONNECTED", "DISCONNECTING"}
          /\ UNCHANGED <<state, attempts, timerVars, copyVars, procVars, needsReconnect, loop>>
          /\ queue' = q \o after
       \/ /\ state \notin {"CONNECTED", "DISCONNECTING"}
          /\ AlreadyRunning
          /\ state' = StateToConnect
          /\ attempts' = AttemptsToConnect
          /\ UNCHANGED <<timerVars, copyVars, procVars, needsReconnect, loop>>
          /\ queue' = q \o after
       \/ /\ state \notin {"CONNECTED", "DISCONNECTING"}
          /\ ~AlreadyRunning
          /\ ~Complete(settings)
          /\ state' = StateToConnect
          /\ attempts' = AttemptsToConnect
          /\ loop' = "threw"
          /\ UNCHANGED <<timerVars, copyVars, procVars, needsReconnect>>
          /\ queue' = q \o after
       \/ /\ state \notin {"CONNECTED", "DISCONNECTING"}
          /\ ~AlreadyRunning
          /\ Complete(settings)
          /\ LaunchProcess(launched, q, after)
    /\ UNCHANGED <<ovpn, staleReader>>

OnSlowConnectionTimeout(q, after) ==
    /\ state' = CASE state = "CONNECTING"   -> "STILL_CONNECTING"
                  [] state = "RECONNECTING" -> "STILL_RECONNECTING"
                  [] OTHER -> state
    /\ UNCHANGED <<ovpn, attempts, timerVars, copyVars, procVars, staleReader, loop>>
    /\ queue' = q \o after

\* The accept handler of StartManagementInterface opens the socket.
OnManagementAccepted(q) ==
    /\ phase' = "open"
    /\ queue' = q
    /\ UNCHANGED <<state, ovpn, attempts, timerVars, copyVars, exited, signaled, sigterm,
                   staleReader, loop>>

\* Mutant: the handlers of a discarded process act on the current one.
Keep(q) == q

\* What the ready handlers of a process do once it is no longer the current one:
\* the accept handler is gone with it, the reader keeps it alive for one more line.
Discard(q) ==
    [i \in DOMAIN q |->
        CASE q[i] \in {"TLS_ERROR", "AUTH_FAILED"} -> "StaleError"
          [] q[i] \in {"Accept", "CONNECTING", "CONNECTED", "RECONNECTING", "EXITING"} -> "Discarded"
          [] OTHER -> q[i]]

\* Mutant: an exit that nothing announced is not noticed.
StateAfterAnnouncedExit ==
    CASE state = "INTERRUPTED" -> "RECONNECTING"
      [] state = "DISCONNECTING_TO_RECONNECT" -> "CONNECTING"
      [] state = "DISCONNECTING" -> "DISCONNECTED"
      [] OTHER -> state

\* The state after an OpenVPN process exited.
StateAfterExit ==
    CASE state = "CONNECTED" -> "INTERRUPTED"
      [] state = "INTERRUPTED" -> "RECONNECTING"
      [] state = "DISCONNECTING_TO_RECONNECT" -> "CONNECTING"
      [] state = "DISCONNECTING" -> "DISCONNECTED"
      [] OTHER -> state

\* Mutant: no retry after a reconnection attempt failed.
SchedulesOnce == state \notin {"CONNECTED", "DISCONNECTING", "DISCONNECTED", "RECONNECTING"}

\* ScheduleConnect after an exit; "early" is what the clock says.
Schedules == state \notin {"CONNECTED", "DISCONNECTING", "DISCONNECTED"}

\* OnOpenVPNExited: drop the process, SetOpenVPNState(OPENVPN_EXITED).
OnOpenVPNExited(early, q, after) ==
    /\ phase' = "none"
    /\ exited' = FALSE
    /\ signaled' = FALSE
    /\ sigterm' = FALSE
    /\ staleReader' = (staleReader \/ phase \in {"open", "negotiating", "up"})
    /\ ovpn' = "EXITED"
    /\ state' = StateAfterExit
    /\ attempts' = IF Resets(StateAfterExit) THEN 0 ELSE attempts
    /\ slowTimer' = (slowTimer /\ ~Resets(StateAfterExit))
    /\ intervalTimer' = \/ Schedules /\ early
                        \/ intervalTimer /\ ~Resets(StateAfterExit)
    /\ queue' = Discard(q) \o Aborted(Resets(StateAfterExit))
                \o (IF state = "CONNECTED" \/ (Schedules /\ ~early)
                    THEN <<"DoConnect">> ELSE <<>>)
                \o after
    /\ UNCHANGED <<copyVars, loop>>

\* OnOpenVPNManagement for a line of the current process: SetOpenVPNState,
\* then SignalError for the lines that report one.
OnOpenVPNConnected(q, after) ==
    /\ ovpn' = "CONNECTED"
    /\ \/ /\ state \in {"DISCONNECTING", "DISCONNECTED"}
          /\ Shutdown
          /\ UNCHANGED <<state, attempts, timerVars>>
          /\ queue' = q \o after
       \/ /\ state \notin {"DISCONNECTING", "DISCONNECTED"}
          /\ SetState("CONNECTED")
          /\ queue' = q \o Aborted(Resets("CONNECTED")) \o after
          /\ UNCHANGED procVars
    /\ UNCHANGED <<copyVars, staleReader, loop>>

\* Mutant: RECONNECTING interrupts a connection, although OpenVPN does not exit.
InterruptedByReconnect(line) ==
    CASE line \in {"EXITING", "TLS_ERROR", "RECONNECTING"} /\ state = "CONNECTED" -> "INTERRUPTED"
      [] line = "RECONNECTING" -> SlowState(state, Increment(attempts))
      [] OTHER -> state

StateAfterLine(line) ==
    CASE line = "RECONNECTING" -> SlowState(state, Increment(attempts))
      [] line \in {"EXITING", "TLS_ERROR"} /\ state = "CONNECTED" -> "INTERRUPTED"
      [] OTHER -> state

OnOpenVPNState(line, q, after) ==
    /\ ovpn' = CASE line = "TLS_ERROR" -> "EXITING"
                 [] line = "AUTH_FAILED" -> ovpn
                 [] OTHER -> line
    /\ attempts' = IF line = "RECONNECTING" THEN Increment(attempts) ELSE attempts
    /\ state' = StateAfterLine(line)
    /\ ShutdownIf(line \in {"TLS_ERROR", "AUTH_FAILED"})
    /\ UNCHANGED <<timerVars, copyVars, staleReader, loop>>
    /\ queue' = q \o after

OnOpenVPNManagement(line, q, after) ==
    IF line = "CONNECTED" THEN OnOpenVPNConnected(q, after) ELSE OnOpenVPNState(line, q, after)

\* A line of a discarded process: its state is ignored, but SignalError is not
\* told which process the error came from.
OnStaleError(q, after) ==
    /\ ShutdownOrPost
    /\ queue' = q \o PostIfNoProcess \o after
    /\ UNCHANGED <<state, ovpn, attempts, timerVars, copyVars, staleReader, loop>>

-----------------------------------------------------------------------------
(* The loop runs the handler at the head of the queue.                     *)

Ready(h) == loop = "running" /\ queue # <<>> /\ Head(queue) = h

\* RPC_connect: a fault goes back to the client unless the required data is there.
RunConnect ==
    /\ Ready("Connect")
    /\ IF Complete(settings)
       THEN Connect(needsReconnect, Tail(queue), <<>>) /\ needsReconnect' = FALSE
       ELSE queue' = Tail(queue) /\ UNCHANGED <<connVars, needsReconnect>>
    /\ UNCHANGED settings

RunDisconnect == Ready("Disconnect") /\ Disconnect(Tail(queue), <<>>) /\ UNCHANGED daemonVars

\* RPC_applySettings, RPC_applyConfig or RPC_setAccount; "asks" when the daemon
\* goes on to call NeedsReconnect (which may throw back to the client).
RunApplySettings ==
    /\ Ready("ApplySettings")
    /\ settings' \in SettingsSpace
    /\ \E asks \in BOOLEAN :
         IF asks /\ ~needsReconnect /\ ~NeedsReconnectThrows(settings')
         THEN /\ connNeedsReconnect' = NeedsReconnect(settings')
              /\ needsReconnect' = NeedsReconnect(settings')
         ELSE UNCHANGED <<connNeedsReconnect, needsReconnect>>
    /\ queue' = Tail(queue)
    /\ UNCHANGED <<state, ovpn, attempts, timerVars, copied, procVars, staleReader, loop>>

RunDoConnect ==
    /\ Ready("DoConnect")
    /\ \E launched \in BOOLEAN : DoConnect(launched, Tail(queue), <<>>)
    /\ UNCHANGED settings

RunSlowTimeout ==
    Ready("SlowTimeout") /\ OnSlowConnectionTimeout(Tail(queue), <<>>) /\ UNCHANGED daemonVars

RunAccept == Ready("Accept") /\ OnManagementAccepted(Tail(queue)) /\ UNCHANGED daemonVars

RunExited ==
    /\ Ready("Exited")
    /\ \E early \in BOOLEAN : OnOpenVPNExited(early, Tail(queue), <<>>)
    /\ UNCHANGED daemonVars

RunLine ==
    /\ \E line \in Lines : Ready(line) /\ OnOpenVPNManagement(line, Tail(queue), <<>>)
    /\ UNCHANGED daemonVars

RunStaleError == Ready("StaleError") /\ OnStaleError(Tail(queue), <<>>) /\ UNCHANGED daemonVars

RunDiscarded ==
    Ready("Discarded") /\ queue' = Tail(queue) /\ UNCHANGED <<connVars, daemonVars>>

Run == \/ RunConnect \/ RunDisconnect \/ RunApplySettings \/ RunDoConnect
       \/ RunSlowTimeout \/ RunAccept \/ RunExited \/ RunLine \/ RunStaleError \/ RunDiscarded

-----------------------------------------------------------------------------
(* The environment makes handlers ready.                                   *)

Room ==
    /\ Len(queue) <= MaxBacklog
    /\ Cardinality({r \in Requests \cup DaemonRequests : Has(queue, r)}) < MaxRequests

\* A client's request arrives; its handler runs in the loop's own time.
Arrive(request) ==
    /\ loop = "running"
    /\ ~Has(queue, request)
    /\ Room
    /\ queue' = Append(queue, request)
    /\ UNCHANGED <<connVars, daemonVars>>

\* A timer expires.  The waiter of a cancelled interval timer sees the error and
\* does nothing, so only its expiry is a handler.
SlowTimerFires ==
    /\ loop = "running"
    /\ slowTimer
    /\ slowTimer' = FALSE
    /\ queue' = Append(queue, "SlowTimeout")
    /\ UNCHANGED <<state, ovpn, attempts, intervalTimer, copyVars, procVars, staleReader,
                   daemonVars, loop>>

IntervalTimerFires ==
    /\ loop = "running"
    /\ intervalTimer
    /\ intervalTimer' = FALSE
    /\ queue' = Append(queue, "DoConnect")
    /\ UNCHANGED <<state, ovpn, attempts, slowTimer, copyVars, procVars, staleReader,
                   daemonVars, loop>>

\* OpenVPN connects to --management.
ProcessConnects ==
    /\ loop = "running"
    /\ phase = "launched"
    /\ ~exited
    /\ phase' = "accepting"
    /\ queue' = Append(queue, "Accept")
    /\ UNCHANGED <<state, ovpn, attempts, timerVars, copyVars, exited, signaled, sigterm,
                   staleReader, daemonVars, loop>>

\* The lines OpenVPN may print next, and where each one leaves it.
NextLines(p) ==
    CASE p = "open"        -> {"CONNECTING", "EXITING"}
      [] p = "negotiating" -> {"CONNECTED", "RECONNECTING", "EXITING", "TLS_ERROR", "AUTH_FAILED"}
      [] p = "rejected"    -> {"EXITING"}
      [] p = "up"          -> {"RECONNECTING", "EXITING"}
      [] OTHER             -> {}

PhaseAfter(line) ==
    CASE line = "CONNECTING"   -> "negotiating"
      [] line = "CONNECTED"    -> "up"
      [] line = "RECONNECTING" -> "open"
      [] line = "AUTH_FAILED"  -> "rejected"
      [] OTHER                 -> "exiting"

\* One line at a time: the next async_read_until is started by the handler of
\* the last.  Lines already in the socket are read after the process died, too.
LineArrives(line) ==
    /\ loop = "running"
    /\ line \in NextLines(phase)
    /\ \A l \in Lines : ~Has(queue, l)
    /\ phase' = PhaseAfter(line)
    /\ queue' = Append(queue, line)
    /\ UNCHANGED <<state, ovpn, attempts, timerVars, copyVars, exited, signaled, sigterm,
                   staleReader, daemonVars, loop>>

StaleErrorArrives ==
    /\ loop = "running"
    /\ staleReader
    /\ staleReader' = FALSE
    /\ queue' = Append(queue, "StaleError")
    /\ UNCHANGED <<state, ovpn, attempts, timerVars, copyVars, procVars, daemonVars, loop>>

\* The OpenVPN process dies, asked to or not; SIGCHLD becomes ready.
ProcessExits ==
    /\ loop = "running"
    /\ phase # "none"
    /\ ~exited
    /\ exited' = TRUE
    /\ queue' = Append(queue, "Exited")
    /\ UNCHANGED <<state, ovpn, attempts, timerVars, copyVars, phase, signaled, sigterm,
                   staleReader, daemonVars, loop>>

Background ==
    \/ SlowTimerFires
    \/ IntervalTimerFires
    \/ ProcessConnects
    \/ \E line \in Lines : LineArrives(line)
    \/ StaleErrorArrives
    \/ ProcessExits

Environment == Background \/ \E request \in Requests : Arrive(request)

\* Run() returned: nothing happens any more.
Dead == loop # "running" /\ UNCHANGED connectionVars

Next == Run \/ Environment \/ Dead

Spec == Init /\ [][Next]_connectionVars

(***************************************************************************)
(* The loop keeps running handlers and the clock keeps ticking; a process  *)
(* that got SIGTERM or announced its exit is gone in the end.  Nothing     *)
(* else is promised: a client need not ask for anything and OpenVPN need   *)
(* neither connect nor give up.                                            *)
(***************************************************************************)
Fairness ==
    /\ WF_connectionVars(Run)
    /\ WF_connectionVars(SlowTimerFires)
    /\ WF_connectionVars(IntervalTimerFires)
    /\ WF_connectionVars((sigterm \/ phase = "exiting") /\ ProcessExits)

FairSpec == Spec /\ Fairness

-----------------------------------------------------------------------------
(* Properties.                                                             *)

Retrying == {"CONNECTING", "STILL_CONNECTING", "RECONNECTING", "STILL_RECONNECTING"}

\* While the user wants to be online, a dead OpenVPN process is always replaced:
\* with no process, a DoConnect is queued or the interval timer will queue one
\* (SetOpenVPNState's EXITED cases, Connect, SignalError, ScheduleConnect).
NoStall ==
    loop = "running" /\ phase = "none" /\ state \in Retrying \cup {"INTERRUPTED", "DISCONNECTING_TO_RECONNECT"}
        => intervalTimer \/ Has(queue, "DoConnect")

\* DISCONNECTING is left by OnOpenVPNExited only, so there is a process to exit
\* and _openvpn_state does not already say EXITED (Disconnect, SetOpenVPNState).
DisconnectingHasProcess == state = "DISCONNECTING" => phase # "none" /\ ovpn # "EXITED"

\* No timer outlives the phase it belongs to (SetState, DoConnect): both are
\* armed while retrying only, and a relaunch is never pending beside a process.
TimersDisarmed ==
    /\ slowTimer \/ intervalTimer => state \in Retrying
    /\ intervalTimer => phase = "none"

\* CONNECTED is shown only while a process is up, or on its own way back up: never
\* after it said EXITING or was reaped (SetOpenVPNState, OnOpenVPNExited).
ConnectedIsUp == state = "CONNECTED" => phase # "none" /\ ovpn \notin {"EXITING", "EXITED"}

\* The two flags that remember a settings change agree while a process runs: the
\* daemon's was set together with the Connection's, and a launch clears both
\* (RPC_applySettings, NeedsReconnect, CopySettings, OnConnectionAttempt).
FlagsAgree == needsReconnect /\ phase # "none" => connNeedsReconnect

\* Whatever the queue still holds for the current process finds it there; lines, and a state
\* of OpenVPN other than EXITED, are those of a process whose management socket is open
\* (OnOpenVPNExited, OnOpenVPNManagement).
ProcessTracked ==
    /\ ovpn # "EXITED" => ManagementOpen
    /\ (\E line \in Lines : Has(queue, line)) => ManagementOpen
    /\ Has(queue, "Accept") => phase # "none"

\* The inductive invariant of ConnectionProofs.
IInv ==
    /\ TypeOK
    /\ NoStall
    /\ DisconnectingHasProcess
    /\ TimersDisarmed
    /\ ConnectedIsUp
    /\ FlagsAgree
    /\ ProcessTracked

\* What clients see of the Connection, and of its process.
Mode ==
    CASE state = "DISCONNECTED" -> "idle"
      [] state = "DISCONNECTING" -> "stopping"
      [] state = "CONNECTED" -> "up"
      [] OTHER -> "trying"

Process ==
    CASE phase = "none" -> "none"
      [] phase = "launched" -> "launched"
      [] phase = "accepting" -> "calling"
      [] OTHER -> "heard"

Life == INSTANCE Lifecycle
            WITH Copies <- CopySpace, None <- NotCopied, mode <- Mode, process <- Process,
                 with <- IF phase = "none" THEN NotCopied ELSE copied, chosen <- CopyOf(settings)

\* However many DoConnect calls are queued and whatever a process says too late, one is
\* launched only when there is none and keeps its settings, CONNECTED follows only upon an
\* attempt, and DISCONNECTED upon CONNECTED only when the process is gone (DoConnect,
\* Disconnect, SetOpenVPNState, OnOpenVPNExited).
LifecycleImplemented == Life!LifeSpec

\* With no process left, OpenVPN is launched again unless the user gave up first
\* or the launch threw: retries go on forever (ScheduleConnect, DoConnect).
Relaunches ==
    (phase = "none" /\ state \in Retrying)
        ~> (phase # "none" \/ state = "DISCONNECTED" \/ loop = "threw")

\* A lost connection is noticed: INTERRUPTED lasts until the process exits.
InterruptionEnds == state = "INTERRUPTED" ~> (state # "INTERRUPTED" \/ loop = "threw")

\* Disconnect ends: its Shutdown is never lost, because DISCONNECTING waits only for a
\* process that has already spoken over its management socket (Disconnect, Shutdown).
DisconnectEnds == state = "DISCONNECTING" ~> (state # "DISCONNECTING" \/ loop = "threw")
=============================================================================
