----------------------------- MODULE AppLifecycle -----------------------------
(***************************************************************************)
(* The main process from its start to its end (client/src/main.js, app.js):*)
(* the chain of promises that connects to the daemon or has it installed   *)
(* and then creates the window and the tray icon, and the quit sequence,   *)
(* which may begin at any point of that chain.                             *)
(*                                                                         *)
(* Electron's app.quit() emits before-quit, closes the windows, which asks *)
(* their pages first, and emits will-quit once there is none.  exit() ends *)
(* the process at once, and so does an exception that nobody catches.      *)
(***************************************************************************)
EXTENDS Naturals

VARIABLES
    stage,         \* what the start-up chain waits for
    exiting,       \* global.exiting
    daemon,        \* global.daemon is not null
    mainWindow,    \* global.window: "none", "hidden" or "shown"
    showDue,       \* who will call show() of createMainWindow
    trayIcon,      \* the icon of the tray is there
    quitting,      \* app.quit() waits for the window to be closed
    disconnecting, \* daemon.disconnect() of will-quit: "no", "waiting" or "resolved"
    ended          \* the process is gone

appVars == <<stage, exiting, daemon, mainWindow, showDue, trayIcon, quitting, disconnecting, ended>>

Stages == {"ready", "connecting", "installing", "reinstalling", "connectingLate", "running"}

AppTypeOK ==
    /\ stage \in Stages
    /\ exiting \in BOOLEAN /\ daemon \in BOOLEAN /\ trayIcon \in BOOLEAN
    /\ quitting \in BOOLEAN /\ ended \in BOOLEAN
    /\ mainWindow \in {"none", "hidden", "shown"}
    /\ showDue \subseteq {"ready-to-show", "timer"}
    /\ disconnecting \in {"no", "waiting", "resolved"}

AppInit ==
    /\ stage = "ready"
    /\ exiting = FALSE
    /\ daemon = FALSE
    /\ mainWindow = "none"
    /\ showDue = {}
    /\ trayIcon = FALSE
    /\ quitting = FALSE
    /\ disconnecting = "no"
    /\ ended = FALSE

windowVars == <<mainWindow, showDue, trayIcon>>
quitVars == <<exiting, quitting, disconnecting>>

-----------------------------------------------------------------------------
\* exit(): the process ends at once.
Exits ==
    /\ exiting' = TRUE
    /\ ended' = TRUE
    /\ UNCHANGED <<stage, daemon, windowVars, quitting, disconnecting>>

\* Nobody catches the exception: app.exit(1).
Crashes ==
    /\ ended' = TRUE
    /\ UNCHANGED <<stage, daemon, windowVars, quitVars>>

\* connectToDaemon: the daemon is set up, and never again once it is given up.
ConnectsTo(next) ==
    /\ stage' = next
    /\ daemon' = TRUE
    /\ UNCHANGED <<windowVars, quitVars, ended>>

\* The app is ready: with a daemon that runs it connects to see its version.
Ready ==
    /\ stage = "ready"
    /\ \/ ConnectsTo("connecting")
       \/ stage' = "installing" /\ UNCHANGED <<daemon, windowVars, quitVars, ended>>

\* createMainWindow and tray.create, for a start with or without a window.  A
\* daemon that will-quit gave up meanwhile makes the chain throw and exit.
GoesOnRunning ==
    IF daemon
    THEN /\ stage' = "running"
         /\ mainWindow' = "hidden"
         /\ showDue' \in {{}, {"ready-to-show", "timer"}}
         /\ trayIcon' = TRUE
         /\ UNCHANGED <<daemon, quitVars, ended>>
    ELSE Exits

\* The daemon answers with the right version.
Connected == stage \in {"connecting", "connectingLate"} /\ GoesOnRunning

\* It has the wrong version: an installation follows, unless there was one.
Mismatched ==
    \/ /\ stage = "connecting"
       /\ stage' = "reinstalling"
       /\ UNCHANGED <<daemon, windowVars, quitVars, ended>>
    \/ stage \in {"connecting", "connectingLate"} /\ Exits

\* connectToDaemon's two seconds are over.
TimesOut == stage \in {"connecting", "connectingLate"} /\ Exits

\* install.run: whatever failed, was declined, or needs another start exits; the
\* daemon is connected to unless that was tried before.
Installed ==
    \/ stage \in {"installing", "reinstalling"} /\ Exits
    \/ stage = "installing" /\ ConnectsTo("connectingLate")

-----------------------------------------------------------------------------
\* show() of createMainWindow, for a window that may be gone by then.
Shows(by) ==
    /\ by \in showDue
    /\ by = "ready-to-show" => mainWindow # "none"
    /\ IF mainWindow = "none" THEN Crashes
       ELSE /\ mainWindow' = "shown"
            /\ showDue' = showDue \ {by, "timer"}
            /\ UNCHANGED <<stage, daemon, trayIcon, quitVars, ended>>

\* The window's close button hides it.
CloseButton ==
    /\ mainWindow = "shown"
    /\ ~exiting
    /\ mainWindow' = "hidden"
    /\ UNCHANGED <<stage, daemon, showDue, trayIcon, quitVars, ended>>

\* The tray, a second instance, or the dock: window.show().
Activates ==
    /\ mainWindow = "hidden"
    /\ mainWindow' = "shown"
    /\ UNCHANGED <<stage, daemon, showDue, trayIcon, quitVars, ended>>

\* An item of the tray's menu that posts to the daemon.
TrayCommand == trayIcon /\ ~daemon /\ Crashes

-----------------------------------------------------------------------------
\* before-quit, for an app.quit() of the user, the system or will-quit.
QuitBegins ==
    /\ quitting' = TRUE
    /\ exiting' = TRUE
    /\ UNCHANGED <<stage, daemon, windowVars, ended>>

UserQuits == ~quitting /\ QuitBegins /\ UNCHANGED disconnecting

\* The window is closed: exiting lets the close event pass.
WindowCloses ==
    /\ quitting
    /\ mainWindow # "none"
    /\ mainWindow' = "none"
    /\ UNCHANGED <<stage, daemon, showDue, trayIcon, quitVars, ended>>

\* Mutant: the daemon is not forgotten.
StaysSet == UNCHANGED daemon

\* The daemon is given up, so that the next will-quit goes through.
GivenUp == daemon' = FALSE

\* will-quit: cancelled once for the sake of the connection to the daemon.
WillQuit ==
    /\ quitting
    /\ mainWindow = "none"
    /\ IF daemon
       THEN /\ quitting' = FALSE
            /\ GivenUp
            /\ disconnecting' = "waiting"
            /\ UNCHANGED <<trayIcon, ended>>
       ELSE /\ trayIcon' = FALSE
            /\ ended' = TRUE
            /\ UNCHANGED <<quitting, daemon, disconnecting>>
    /\ UNCHANGED <<stage, exiting, mainWindow, showDue>>

\* The socket is closed, which ws sees to within 30 s.
Disconnects ==
    /\ disconnecting = "waiting"
    /\ disconnecting' = "resolved"
    /\ UNCHANGED <<stage, daemon, windowVars, exiting, quitting, ended>>

\* setImmediate of will-quit: app.quit() again.
QuitsAgain == disconnecting = "resolved" /\ disconnecting' = "no" /\ QuitBegins

QuitStep == ~ended /\ (WindowCloses \/ WillQuit \/ Disconnects \/ QuitsAgain)

AppNext ==
    /\ ~ended
    /\ \/ Ready \/ Connected \/ Mismatched \/ TimesOut \/ Installed
       \/ \E by \in {"ready-to-show", "timer"} : Shows(by)
       \/ CloseButton \/ Activates \/ TrayCommand \/ UserQuits
       \/ QuitStep

\* What Electron and ws do by themselves; the user need not do anything.
AppFairness == WF_appVars(QuitStep)

AppSpec == AppInit /\ [][AppNext]_appVars /\ AppFairness

-----------------------------------------------------------------------------
\* A quit ends the process, at whatever point of the start it comes and however
\* often the user asks again while the first one waits for the daemon.
AppEnds == exiting ~> ended
=============================================================================
