--------------------------- MODULE OpenVPNProcess ---------------------------
(***************************************************************************)
(* One OpenVPNProcess (daemon/openvpn.cpp) from its launch in DoConnect to *)
(* the last handler that holds it: the management socket, the queue of     *)
(* commands, and what the Connection and OpenVPN do to them.               *)
(*                                                                         *)
(* What _io.post queued runs in order (posted).  Completions of the        *)
(* socket become ready on their own and may run before or after.  Handlers *)
(* that hold a shared pointer keep the object alive, the others check      *)
(* whether it is (Alive).                                                  *)
(***************************************************************************)
EXTENDS Naturals, Sequences

CONSTANT MaxReplies  \* how often OpenVPN asks for a release or a password

ASSUME RepliesAssumption == MaxReplies \in Nat

\* "newlines" is what StartManagementInterface queues, "launch" what DoConnect
\* sends, "release" and "password" what Connection replies to >HOLD and >PASSWORD.
Commands == {"newlines", "launch", "release", "password", "SIGTERM"}

VARIABLES
    posted,         \* posted handlers: "newlines" starts the interface, others send
    socket,         \* the management socket and its acceptor
    commands,       \* _management_write_queue
    write,          \* the async_write of its front: "none", "pending", "done", "failed"
    read,           \* the async_read_until, or the line that is ready
    managementSignaled,  \* _management_signaled
    owned,          \* it is Connection's _openvpn_process
    openvpn,        \* "starting", "connected", "leaving" or "exited"
    received,       \* the commands that OpenVPN got
    asks            \* requests of OpenVPN so far

sendVars == <<posted, commands, write>>
peerVars == <<openvpn, received, asks>>
processVars == <<sendVars, socket, read, managementSignaled, owned, peerVars>>

\* Lines of OpenVPN: ">HOLD:", ">PASSWORD:Need " and those that are not answered.
Answer == [hold |-> <<"release">>, password |-> <<"password">>, other |-> <<>>]

ProcessTypeOK ==
    /\ posted \in Seq(Commands)
    /\ socket \in {"closed", "listening", "accepted", "assigned", "refused", "open"}
    /\ commands \in Seq(Commands)
    /\ write \in {"none", "pending", "done", "failed"}
    /\ read \in {"none", "pending", "failed"} \cup DOMAIN Answer
    /\ managementSignaled \in BOOLEAN
    /\ owned \in BOOLEAN
    /\ openvpn \in {"starting", "connected", "leaving", "exited"}
    /\ received \in Seq(Commands)
    /\ asks \in 0..MaxReplies

\* What DoConnect leaves: StartManagementInterface, Run and the first command.
ProcessInit ==
    /\ posted = <<"newlines", "launch">>
    /\ socket = "closed"
    /\ commands = <<>>
    /\ write = "none"
    /\ read = "none"
    /\ managementSignaled = FALSE
    /\ owned = TRUE
    /\ openvpn = "starting"
    /\ received = <<>>
    /\ asks = 0

\* Somebody holds the object: Connection, or a handler of the socket.
Alive == owned \/ read # "none" \/ write # "none"

\* _management_socket.is_open().  Versions of asio differ in when the socket is assigned:
\* when the connection is accepted ("assigned"), or when the handler of async_accept runs.
SocketOpen == socket \in {"assigned", "open"}

LineBroken == openvpn \in {"leaving", "exited"}

-----------------------------------------------------------------------------
(* Handlers.                                                               *)

\* A weak handler whose object is gone.
Dropped ==
    /\ ~Alive
    /\ posted # <<>>
    /\ posted' = Tail(posted)
    /\ UNCHANGED <<socket, commands, write, read, managementSignaled, owned, peerVars>>

\* The handler that StartManagementInterface posts.
StartManagementInterface ==
    /\ Alive
    /\ posted # <<>> /\ Head(posted) = "newlines"
    /\ posted' = Tail(posted)
    /\ commands' = Append(commands, "newlines")
    /\ socket' = "listening"
    /\ UNCHANGED <<write, read, managementSignaled, owned, peerVars>>

\* The handler of async_accept; with an error it only logs.
OnAccept ==
    /\ Alive
    /\ \/ /\ socket \in {"accepted", "assigned"}
          /\ socket' = "open" /\ read' = "pending" /\ write' = "pending"
       \/ socket = "refused" /\ socket' = "closed" /\ UNCHANGED <<read, write>>
    /\ UNCHANGED <<posted, commands, managementSignaled, owned, peerVars>>

\* Mutant: each command is written at once.
WriteAtOnce == SocketOpen

\* "first && _management_socket.is_open()"
MayWrite == commands = <<>> /\ SocketOpen

\* The handler that SendManagementCommand posts.
SendCommand ==
    /\ Alive
    /\ posted # <<>> /\ Head(posted) # "newlines"
    /\ posted' = Tail(posted)
    /\ commands' = Append(commands, Head(posted))
    /\ write' = IF MayWrite THEN "pending" ELSE write
    /\ UNCHANGED <<socket, read, managementSignaled, owned, peerVars>>

\* After an error the queue stays as it is, and nothing is written any more.
HandleManagementWrite ==
    /\ \/ /\ write = "done"
          /\ commands' = Tail(commands)
          /\ write' = IF commands' # <<>> /\ SocketOpen THEN "pending" ELSE "none"
       \/ /\ write = "failed"
          /\ write' = "none"
          /\ UNCHANGED commands
    /\ UNCHANGED <<posted, socket, read, managementSignaled, owned, peerVars>>

\* HandleManagementReadLine, with what Connection::OnOpenVPNManagement sends back to
\* the process the line came from, the current one or not.
HandleManagementReadLine ==
    /\ \/ /\ read \in DOMAIN Answer
          /\ posted' = posted \o Answer[read]
          /\ read' = IF SocketOpen THEN "pending" ELSE "none"
       \/ /\ read = "failed"
          /\ read' = "none"
          /\ UNCHANGED posted
    /\ UNCHANGED <<socket, commands, write, managementSignaled, owned, peerVars>>

\* Shutdown, called by Connection in any of its handlers.  Kill asks OpenVPN to exit,
\* which it may do at any time.
ShutdownProcess ==
    /\ owned
    /\ managementSignaled' = TRUE
    /\ posted' = IF ~managementSignaled /\ SocketOpen
                 THEN Append(posted, "SIGTERM") ELSE posted
    /\ UNCHANGED <<socket, commands, write, read, owned, peerVars>>

\* OnOpenVPNExited: Connection lets go of the process.
OnExited ==
    /\ owned /\ openvpn = "exited"
    /\ owned' = FALSE
    /\ UNCHANGED <<sendVars, socket, read, managementSignaled, peerVars>>

RunHandler ==
    \/ Dropped
    \/ StartManagementInterface
    \/ OnAccept
    \/ SendCommand
    \/ HandleManagementWrite
    \/ HandleManagementReadLine
    \/ OnExited

-----------------------------------------------------------------------------
(* OpenVPN and the sockets.                                                *)

OpenVPNConnects ==
    /\ openvpn = "starting" /\ socket = "listening"
    /\ openvpn' = "connected"
    /\ socket' \in {"accepted", "assigned", "refused"}
    /\ UNCHANGED <<sendVars, read, managementSignaled, owned, received, asks>>

\* The front of the queue was written.  On a broken line it is lost, noticed or not.
WriteCompletes ==
    /\ write = "pending"
    /\ \/ ~LineBroken /\ write' = "done" /\ received' = Append(received, Head(commands))
       \/ LineBroken /\ write' \in {"done", "failed"} /\ UNCHANGED received
    /\ UNCHANGED <<posted, commands, socket, read, managementSignaled, owned, openvpn, asks>>

\* A line arrives, perhaps the last one that OpenVPN wrote before it left.
ReadCompletes ==
    /\ read = "pending"
    /\ \/ read' = "other" /\ UNCHANGED asks
       \/ read' \in {"hold", "password"} /\ asks < MaxReplies /\ asks' = asks + 1
       \/ LineBroken /\ read' = "failed" /\ UNCHANGED asks
    /\ UNCHANGED <<sendVars, socket, managementSignaled, owned, openvpn, received>>

\* OpenVPN closes its end of the line.
OpenVPNLeaves ==
    /\ openvpn \in {"starting", "connected"}
    /\ openvpn' = "leaving"
    /\ UNCHANGED <<sendVars, socket, read, managementSignaled, owned, received, asks>>

OpenVPNExits ==
    /\ openvpn # "exited"
    /\ openvpn' = "exited"
    /\ UNCHANGED <<sendVars, socket, read, managementSignaled, owned, received, asks>>

ProcessGone == ~Alive /\ posted = <<>> /\ UNCHANGED processVars

ProcessNext ==
    \/ RunHandler
    \/ ShutdownProcess
    \/ OpenVPNConnects
    \/ WriteCompletes
    \/ ReadCompletes
    \/ OpenVPNLeaves
    \/ OpenVPNExits
    \/ ProcessGone

ProcessSpec == ProcessInit /\ [][ProcessNext]_processVars

\* What was posted or is ready runs, and a write to a peer that reads ends.
ProcessFairness ==
    /\ WF_processVars(StartManagementInterface)
    /\ WF_processVars(SendCommand)
    /\ WF_processVars(HandleManagementWrite)
    /\ WF_processVars(WriteCompletes)

FairProcessSpec == ProcessSpec /\ ProcessFairness

-----------------------------------------------------------------------------
(* Properties.                                                             *)

\* The inductive invariant of OpenVPNProofs: the interface is started once; until the first
\* write and during each one the queue is not empty, so that async_write has a front to
\* send; and Connection holds a process that has not exited.
ProcessInv ==
    /\ ProcessTypeOK
    /\ \A i \in 1..Len(posted) : posted[i] = "newlines" => i = 1 /\ socket = "closed"
    /\ socket \in {"listening", "accepted", "assigned"} => commands # <<>>
    /\ write # "none" => socket = "open"
    /\ write \in {"pending", "done"} => commands # <<>>
    /\ ~owned => openvpn = "exited"

\* What was given and not yet delivered; the front of the queue was, once it is written.
Undelivered == (IF write = "done" THEN Tail(commands) ELSE commands) \o posted

\* The management interface is a channel for its commands: none is lost, repeated or
\* overtaken, and all are delivered, whenever OpenVPN connects and whoever calls
\* SendManagementCommand meanwhile (SendManagementCommand, HandleManagementWrite).
\* Connection counts on it when it takes a "signal SIGTERM" that was sent for one on
\* its way.
Channel == INSTANCE CommandChannel WITH
    line <- IF LineBroken THEN "broken" ELSE IF socket = "open" THEN "open" ELSE "waiting",
    pending <- IF LineBroken THEN <<>> ELSE Undelivered,
    delivered <- received
CommandsDelivered == Channel!ChannelSpec
=============================================================================
