------------------------------- MODULE Install --------------------------------
(***************************************************************************)
(* Installation on macOS by the client itself (client/src/install.js,      *)
(* install_darwin.js): mac_check looks at what is there, and runAsRoot is  *)
(* a chain of commands, each of which may fail or be the last one before a *)
(* reboot.  Nothing is undone then: the next start looks again.            *)
(*                                                                         *)
(* Debug builds are left out, and so is a user who declines, which changes *)
(* nothing.  A version of the daemon or the app is "old" or "new", the     *)
(* latter being that of this client; "broken" files are half extracted, or *)
(* still in quarantine.                                                    *)
(***************************************************************************)
EXTENDS Sequences

VARIABLES
    group,     \* the group cypherpunk: "none", "empty", or "everyone" is in it
    files,     \* the daemon's files: "none", "broken", "old" or "new"
    service,   \* the daemon that runs: "none", "old" or "new"
    loaded,    \* launchd has the daemon's job, and keeps it running
    rules,     \* pf has the rules of these files and this group
    stray,     \* history: that job was not unloaded when it should have been, or was
               \* started from half-extracted files
    image,     \* this client is still where it was downloaded to
    installedApp, \* the app in /Applications: "none", "old" or "new"
    setgid,    \* place -> the client there runs with the group
    at,        \* the place that the client was started from
    steps,     \* the commands that runAsRoot has yet to run
    progress   \* "off", "installing", "installed", or "connected"

machineVars == <<group, files, service, loaded, rules, stray, image, installedApp, setgid>>
installVars == <<machineVars, at, steps, progress>>

Places == {"image", "Applications"}
Commands == {"createGroup", "addEveryone", "unload", "extract", "reloadRules", "load",
             "removeApp", "moveApp", "own", "fixPermissions"}

InstallTypeOK ==
    /\ group \in {"none", "empty", "everyone"}
    /\ files \in {"none", "broken", "old", "new"}
    /\ service \in {"none", "old", "new"}
    /\ loaded \in BOOLEAN /\ rules \in BOOLEAN /\ stray \in BOOLEAN /\ image \in BOOLEAN
    /\ installedApp \in {"none", "old", "new"}
    /\ setgid \in [Places -> BOOLEAN]
    /\ at \in Places
    /\ steps \in Seq(Commands)
    /\ progress \in {"off", "installing", "installed", "connected"}

\* A new client beside nothing, or beside an older version.
InstallInit ==
    /\ \/ /\ group = "none" /\ files = "none" /\ service = "none" /\ rules = FALSE
          /\ loaded = FALSE /\ installedApp = "none"
       \/ /\ group = "everyone" /\ files = "old" /\ service \in {"none", "old"} /\ rules = TRUE
          /\ loaded \in BOOLEAN /\ (service = "old" => loaded)
          /\ installedApp \in {"none", "old"}
    /\ stray = FALSE
    /\ image = TRUE
    /\ setgid = [p \in Places |-> p = "Applications" /\ installedApp = "old"]
    /\ at = "image"
    /\ steps = <<>>
    /\ progress = "off"

-----------------------------------------------------------------------------
\* mac_check: status is "installed", for the client at p.
ChecksOut(p) ==
    /\ service # "none"
    /\ files # "none"
    /\ setgid[p]
    /\ group = "everyone"

StartableAt(p) == IF p = "image" THEN image ELSE installedApp = "new"

\* The client connects to a daemon that runs to learn its version.
UpToDate == service = "new"

When(condition, commands) == IF condition THEN commands ELSE <<>>

\* Mutant: the daemon is stopped for a new group, but started again only if it
\* is installed.
StartedIfInstalled(installDaemon, createGroup) == installDaemon

\* startDaemon: whoever stopped it starts it again.
StartDaemon(installDaemon, createGroup) == installDaemon \/ createGroup

\* The commands of runAsRoot with the options of mac_run.
CommandsFor(installDaemon, moveToApplications, fixPermissions) ==
    LET createGroup == group # "everyone"
        restart == installDaemon \/ createGroup
    IN When(group = "none", <<"createGroup">>)
       \o When(createGroup, <<"addEveryone">>)
       \o When(restart, <<"unload">>)
       \o When(installDaemon, <<"extract">>)
       \o When(restart, <<"reloadRules">>)
       \o When(StartDaemon(installDaemon, createGroup), <<"load">>)
       \o When(moveToApplications, <<"removeApp", "moveApp", "own">>)
       \o When(fixPermissions \/ createGroup \/ moveToApplications, <<"fixPermissions">>)

\* A start of the client at p.  The user may keep it where it is unless there
\* is another one in /Applications.
StartsAt(p) ==
    /\ progress \in {"off", "installed"}
    /\ StartableAt(p)
    /\ at' = p
    /\ IF ChecksOut(p) /\ UpToDate
       THEN progress' = "connected" /\ steps' = <<>>
       ELSE /\ progress' = "installing"
            /\ \E move \in IF p = "Applications" THEN {FALSE}
                           ELSE IF installedApp = "none" THEN BOOLEAN ELSE {TRUE} :
                 steps' = CommandsFor(~UpToDate \/ files = "none", move,
                                      group # "everyone" \/ ~setgid[p])
    /\ UNCHANGED machineVars

\* The client quits.
Stops ==
    /\ progress = "connected"
    /\ progress' = "off"
    /\ UNCHANGED <<machineVars, at, steps>>

-----------------------------------------------------------------------------
\* The daemon that these files start.  Of half-extracted ones, it is whichever
\* binary is there, if any.
Launched == IF files = "broken" THEN {"none", "old", "new"} ELSE {files}

\* launchd takes the job and starts it.
Launches ==
    /\ service' \in Launched
    /\ loaded' = TRUE
    /\ stray' = (files = "broken")

\* What a command does if it succeeds, or if its error is caught.
Does(command) ==
    \/ /\ command = "createGroup"
       /\ group' = "empty"
       /\ UNCHANGED <<files, service, loaded, rules, stray, image, installedApp, setgid, at>>
    \/ /\ command = "addEveryone"
       /\ group' = "everyone"
       /\ rules' = FALSE
       /\ UNCHANGED <<files, service, loaded, stray, image, installedApp, setgid, at>>
    \/ \* its error is caught: the job may still be there, and the daemon go on
       /\ command = "unload"
       /\ loaded' \in {FALSE, loaded}
       /\ service' = IF loaded' THEN service ELSE "none"
       /\ stray' = loaded'
       /\ UNCHANGED <<group, files, rules, image, installedApp, setgid, at>>
    \/ /\ command = "extract"
       /\ files' = "new"
       /\ rules' = FALSE
       /\ UNCHANGED <<group, service, loaded, stray, image, installedApp, setgid, at>>
    \/ /\ command = "reloadRules"
       /\ rules' = TRUE
       /\ UNCHANGED <<group, files, service, loaded, stray, image, installedApp, setgid, at>>
    \/ \* which starts nothing if the job was not unloaded
       /\ command = "load"
       /\ IF loaded THEN UNCHANGED <<service, loaded, stray>> ELSE Launches
       /\ UNCHANGED <<group, files, rules, image, installedApp, setgid, at>>
    \/ /\ command = "removeApp"
       /\ installedApp' = "none"
       /\ UNCHANGED <<group, files, service, loaded, rules, stray, image, setgid, at>>
    \/ \* moved, or copied if the image is not writable
       /\ command = "moveApp"
       /\ installedApp' = "new"
       /\ image' \in BOOLEAN
       /\ setgid' = [setgid EXCEPT !["Applications"] = setgid["image"]]
       /\ at' = "Applications"
       /\ UNCHANGED <<group, files, service, loaded, rules, stray>>
    \/ \* chown to root:wheel
       /\ command = "own"
       /\ setgid' = [setgid EXCEPT !["Applications"] = FALSE]
       /\ UNCHANGED <<group, files, service, loaded, rules, stray, image, installedApp, at>>
    \/ /\ command = "fixPermissions"
       /\ setgid' = [setgid EXCEPT ![at] = TRUE]
       /\ UNCHANGED <<group, files, service, loaded, rules, stray, image, installedApp, at>>

Succeeds ==
    /\ progress = "installing"
    /\ steps # <<>>
    /\ Does(Head(steps))
    /\ steps' = Tail(steps)
    /\ UNCHANGED progress

\* What a command leaves if it fails.
HalfDone(command) ==
    /\ files' \in {files} \union IF command = "extract" THEN {"broken"} ELSE {}
    /\ installedApp' \in {installedApp} \union IF command = "removeApp" THEN {"none"} ELSE {}
    /\ UNCHANGED <<group, service, loaded, rules, stray, image, setgid>>

\* All that follows is skipped.  launchctl unload never ends the chain (Does).
Fails ==
    /\ progress = "installing"
    /\ steps # <<>>
    /\ Head(steps) # "unload"
    /\ HalfDone(Head(steps))
    /\ steps' = <<>>
    /\ progress' = "off"
    /\ UNCHANGED at

\* launchd starts the daemon and loads pf.conf.
Reboot ==
    /\ progress # "connected"
    /\ IF files = "none"
       THEN service' = "none" /\ loaded' = FALSE /\ stray' = FALSE
       ELSE Launches
    /\ rules' = (files # "none")
    /\ steps' = <<>>
    /\ progress' = "off"
    /\ UNCHANGED <<group, files, image, installedApp, setgid, at>>

\* KeepAlive: a daemon that ends, or never came up, is started again, from the files
\* that are there by then.
Restarted ==
    /\ loaded
    /\ service' \in Launched
    /\ stray' = (stray \/ files = "broken")
    /\ UNCHANGED <<group, files, loaded, rules, image, installedApp, setgid, at, steps, progress>>

\* Somebody removes the group, or its member.
GroupDamaged ==
    /\ progress = "off"
    /\ group' \in {"none", "empty"} \ {group}
    /\ group # "none"
    /\ UNCHANGED <<files, service, loaded, rules, stray, image, installedApp, setgid, at, steps,
                   progress>>

\* The promise is resolved: the client is started again.
Completes ==
    /\ progress = "installing"
    /\ steps = <<>>
    /\ progress' = "installed"
    /\ UNCHANGED <<machineVars, at, steps>>

InstallNext ==
    \/ \E p \in Places : StartsAt(p)
    \/ Stops \/ Succeeds \/ Fails \/ Reboot \/ Restarted \/ GroupDamaged \/ Completes

InstallSpec == InstallInit /\ [][InstallNext]_installVars

-----------------------------------------------------------------------------
\* An installation that reports success left a client that can be started, with
\* its group and permissions, and no files of an earlier version, whatever earlier
\* ones left half done.  Unless it was left with a stray daemon, the daemon that
\* runs is that of all the new files, with their rules.
CompletesInstalled ==
    progress = "installed" =>
        /\ StartableAt(at) /\ group = "everyone" /\ setgid[at]
        /\ files \in {"broken", "new"}
        /\ ~stray => ChecksOut(at) /\ UpToDate /\ files = "new" /\ rules

\* The check looks at less than what runAsRoot does.  It may take a daemon that
\* runs for complete files and reloaded rules, since the daemon is started after
\* them, as long as no stray one is taken for it.
CheckVouches ==
    \A p \in Places :
        (progress = "off" /\ StartableAt(p) /\ ChecksOut(p) /\ UpToDate) =>
            /\ files \in {"broken", "new"}
            /\ ~stray => files = "new" /\ rules

\* A client that could be started remains, even after a failed upgrade.
ClientRemains == \E p \in Places : StartableAt(p)

\* No failed or interrupted installation is taken for a complete one, and the
\* next one that completes repairs what it left, but for what a stray daemon
\* hides: launchctl unload may fail unnoticed, and mac_check does not see that
\* the files it runs from are half extracted.
InstallationSound == CompletesInstalled /\ CheckVouches /\ ClientRemains
=============================================================================
