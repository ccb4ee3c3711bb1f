---------------------------- MODULE OpenVPNProofs ----------------------------
(***************************************************************************)
(* Proofs about OpenVPNProcess, for every number of requests by OpenVPN.   *)
(***************************************************************************)
EXTENDS OpenVPNProcess, SequenceTheorems, TLAPS

-----------------------------------------------------------------------------
(* Sequences of commands.                                                  *)

\* A command that moves from the front of one queue to the end of the other stays in place.
LEMMA MovedCommand ==
    ASSUME NEW S, NEW front \in Seq(S), NEW back \in Seq(S), back # <<>>
    PROVE  Append(front, Head(back)) \o Tail(back) = front \o back
  OBVIOUS

\* Appending to the second of two queues appends to both.
LEMMA AppendedCommand ==
    ASSUME NEW S, NEW front \in Seq(S), NEW back \in Seq(S), NEW c \in S
    PROVE  front \o Append(back, c) = Append(front \o back, c)
  OBVIOUS

\* The front of two queues is that of the first one, if there is one.
LEMMA FrontOfBoth ==
    ASSUME NEW S, NEW front \in Seq(S), NEW back \in Seq(S), front # <<>>
    PROVE  /\ front \o back # <<>>
           /\ Head(front \o back) = Head(front)
           /\ Tail(front \o back) = Tail(front) \o back
  OBVIOUS

\* The rest of a queue that got one more command.
LEMMA RestOfAppended ==
    ASSUME NEW S, NEW q \in Seq(S), q # <<>>, NEW c \in S
    PROVE  Tail(Append(q, c)) = Append(Tail(q), c)
  OBVIOUS

-----------------------------------------------------------------------------
(* The invariant.                                                          *)

\* The interface is started by the first posted handler at most.
StartsFirst(q, state) == \A i \in 1..Len(q) : q[i] = "newlines" => i = 1 /\ state = "closed"

\* Once its first handler has run, nothing posted starts the interface.
LEMMA StartsFirstTail ==
    ASSUME NEW q \in Seq(Commands), NEW old, NEW new, q # <<>>, StartsFirst(q, old)
    PROVE  StartsFirst(Tail(q), new)
  BY HeadTailProperties DEF StartsFirst

\* Posting any other command leaves that alone.
LEMMA StartsFirstAppend ==
    ASSUME NEW q \in Seq(Commands), NEW state, NEW c \in Commands \ {"newlines"},
           StartsFirst(q, state)
    PROVE  StartsFirst(Append(q, c), state)
  BY DEF StartsFirst

\* A socket that is no longer closed was started by nothing that is still posted.
LEMMA StartsFirstOpens ==
    ASSUME NEW q \in Seq(Commands), NEW old, NEW new, old # "closed", StartsFirst(q, old)
    PROVE  StartsFirst(q, new)
  BY DEF StartsFirst

\* What Connection may post at any time.
LEMMA PostedMore ==
    ASSUME ProcessInv
    PROVE  /\ posted \in Seq(Commands) /\ StartsFirst(posted, socket)
           /\ \A c \in {"release", "password", "SIGTERM"} :
                 Append(posted, c) \in Seq(Commands) /\ StartsFirst(Append(posted, c), socket)
<1>1. posted \in Seq(Commands) /\ StartsFirst(posted, socket)
  BY DEF ProcessInv, ProcessTypeOK, StartsFirst
<1>2. {"release", "password", "SIGTERM"} \subseteq Commands \ {"newlines"}
  BY DEF Commands
<1>3. \A c \in Commands \ {"newlines"} :
         Append(posted, c) \in Seq(Commands) /\ StartsFirst(Append(posted, c), socket)
  BY <1>1, StartsFirstAppend
<1>. QED
  BY <1>1, <1>2, <1>3

LEMMA ProcessInitInv == ASSUME ProcessInit PROVE ProcessInv
<1>1. posted \in Seq(Commands) /\ commands \in Seq(Commands) /\ received \in Seq(Commands)
  BY DEF ProcessInit, Commands
<1>2. 0 \in 0..MaxReplies
  BY RepliesAssumption
<1>3. \A i \in 1..Len(posted) : posted[i] = "newlines" => i = 1 /\ socket = "closed"
  BY DEF ProcessInit
<1>. QED
  BY <1>1, <1>2, <1>3 DEF ProcessInit, ProcessInv, ProcessTypeOK

\* What the answer to a line posts.
LEMMA ReadPosts ==
    ASSUME ProcessInv, HandleManagementReadLine
    PROVE  \/ posted' = posted
           \/ posted' = Append(posted, "release")
           \/ posted' = Append(posted, "password")
<1>1. posted' = posted \/ (read \in DOMAIN Answer /\ posted' = posted \o Answer[read])
  BY DEF HandleManagementReadLine
<1>2. /\ posted \o <<"release">> = Append(posted, "release")
      /\ posted \o <<"password">> = Append(posted, "password")
      /\ posted \o <<>> = posted
  BY DEF ProcessInv, ProcessTypeOK
<1>3. \A line \in DOMAIN Answer : Answer[line] \in {<<"release">>, <<"password">>, <<>>}
  BY DEF Answer
<1>. QED
  BY <1>1, <1>2, <1>3, Zenon

\* SendManagementCommand's handler appends to the queue, StartManagementInterface's, too.
LEMMA PostedHandlerInv ==
    ASSUME ProcessInv, Dropped \/ StartManagementInterface \/ SendCommand
    PROVE  ProcessInv'
<1>. USE DEF ProcessInv, ProcessTypeOK
<1>1. /\ posted # <<>> /\ posted' = Tail(posted)
      /\ UNCHANGED <<read, managementSignaled, owned, peerVars>>
  BY DEF Dropped, StartManagementInterface, SendCommand
<1>2. posted' \in Seq(Commands) /\ Head(posted) \in Commands
  BY <1>1, HeadTailProperties
<1>3. StartsFirst(posted', socket')
  BY <1>1, StartsFirstTail DEF StartsFirst
<1>4. CASE Dropped
  BY <1>1, <1>2, <1>3, <1>4 DEF Dropped, StartsFirst, peerVars
<1>5. CASE StartManagementInterface
  <2>1. commands' \in Seq(Commands) /\ commands' # <<>>
    BY <1>2, <1>5 DEF StartManagementInterface
  <2>2. socket = "closed"
    BY <1>1, <1>5 DEF StartManagementInterface
  <2>3. write = "none" /\ write' = "none" /\ socket' = "listening"
    BY <1>5, <2>2 DEF StartManagementInterface
  <2>. QED
    BY <1>1, <1>2, <1>3, <2>1, <2>3 DEF StartsFirst, peerVars
<1>6. CASE SendCommand
  <2>1. commands' \in Seq(Commands) /\ commands' # <<>>
    BY <1>2, <1>6 DEF SendCommand
  <2>2. MayWrite => socket = "open"
    BY DEF MayWrite, SocketOpen
  <2>3. socket' = socket /\ write' \in {write, "pending"}
        /\ (write' # "none" => socket' = "open")
    BY <1>6, <2>2 DEF SendCommand
  <2>. QED
    BY <1>1, <1>2, <1>3, <2>1, <2>3 DEF StartsFirst, peerVars
<1>. QED
  BY <1>4, <1>5, <1>6

\* The handlers of the socket.
LEMMA SocketHandlerInv ==
    ASSUME ProcessInv, OnAccept \/ HandleManagementWrite \/ HandleManagementReadLine
    PROVE  ProcessInv'
<1>. USE DEF ProcessInv, ProcessTypeOK
<1>1. CASE OnAccept
  <2>1. socket # "closed" /\ posted' = posted /\ commands' = commands
    BY <1>1 DEF OnAccept
  <2>2. StartsFirst(posted', socket')
    BY <2>1, StartsFirstOpens DEF StartsFirst
  <2>3. CASE socket \in {"accepted", "assigned"}
    BY <1>1, <2>1, <2>2, <2>3 DEF OnAccept, StartsFirst, peerVars
  <2>4. CASE socket = "refused"
    BY <1>1, <2>1, <2>2, <2>4 DEF OnAccept, StartsFirst, peerVars
  <2>. QED
    BY <1>1, <2>3, <2>4 DEF OnAccept
<1>2. CASE HandleManagementWrite
  <2>1. socket = "open" /\ UNCHANGED <<posted, socket, read, managementSignaled, owned, peerVars>>
    BY <1>2 DEF HandleManagementWrite
  <2>2. commands' \in Seq(Commands)
    BY <1>2, HeadTailProperties DEF HandleManagementWrite
  <2>3. write' = "none" \/ (write' = "pending" /\ commands' # <<>>)
    BY <1>2 DEF HandleManagementWrite
  <2>. QED
    BY <2>1, <2>2, <2>3 DEF peerVars
<1>3. CASE HandleManagementReadLine
  <2>1. /\ UNCHANGED <<socket, commands, write, managementSignaled, owned, peerVars>>
        /\ read' \in {"none", "pending"}
    BY <1>3 DEF HandleManagementReadLine
  <2>2. posted' = posted \/ posted' = Append(posted, "release")
        \/ posted' = Append(posted, "password")
    BY <1>3, ReadPosts
  <2>3. posted' \in Seq(Commands) /\ StartsFirst(posted', socket)
    BY <2>2, PostedMore
  <2>. QED
    BY <2>1, <2>3 DEF StartsFirst, peerVars
<1>. QED
  BY <1>1, <1>2, <1>3

\* What Connection does to its process.
LEMMA ConnectionInv == ASSUME ProcessInv, ShutdownProcess \/ OnExited PROVE ProcessInv'
<1>. USE DEF ProcessInv, ProcessTypeOK
<1>1. CASE ShutdownProcess
  <2>1. posted' = posted \/ posted' = Append(posted, "SIGTERM")
    BY <1>1 DEF ShutdownProcess
  <2>2. posted' \in Seq(Commands) /\ StartsFirst(posted', socket)
    BY <2>1, PostedMore
  <2>. QED
    BY <1>1, <2>2 DEF ShutdownProcess, StartsFirst, peerVars
<1>2. CASE OnExited
  BY <1>2 DEF OnExited, sendVars, peerVars
<1>. QED
  BY <1>1, <1>2

\* What OpenVPN and the socket do.
LEMMA EnvironmentInv ==
    ASSUME ProcessInv,
           OpenVPNConnects \/ WriteCompletes \/ ReadCompletes \/ OpenVPNLeaves \/ OpenVPNExits
    PROVE  ProcessInv'
<1>. USE DEF ProcessInv, ProcessTypeOK
<1>1. CASE OpenVPNConnects
  <2>1. StartsFirst(posted, socket')
    BY <1>1, StartsFirstOpens DEF OpenVPNConnects, StartsFirst
  <2>. QED
    BY <1>1, <2>1 DEF OpenVPNConnects, StartsFirst, sendVars
<1>2. CASE WriteCompletes
  <2>1. Head(commands) \in Commands
    BY <1>2, HeadTailProperties DEF WriteCompletes
  <2>2. received' \in Seq(Commands)
    <3>1. received \in Seq(Commands)
      OBVIOUS
    <3>2. received' \in {received, Append(received, Head(commands))}
      BY <1>2 DEF WriteCompletes
    <3>. HIDE DEF ProcessInv, ProcessTypeOK
    <3>. QED
      BY <3>1, <3>2, <2>1, AppendProperties
  <2>3. write' \in {"done", "failed"} /\ socket = "open"
    BY <1>2 DEF WriteCompletes
  <2>. QED
    BY <1>2, <2>2, <2>3 DEF WriteCompletes
<1>3. CASE ReadCompletes
  <2>1. read' \in {"failed"} \cup DOMAIN Answer
    BY <1>3 DEF ReadCompletes, Answer
  <2>2. asks' \in 0..MaxReplies
    BY <1>3, RepliesAssumption DEF ReadCompletes
  <2>. QED
    BY <1>3, <2>1, <2>2 DEF ReadCompletes, sendVars
<1>4. CASE OpenVPNLeaves
  BY <1>4 DEF OpenVPNLeaves, sendVars
<1>5. CASE OpenVPNExits
  BY <1>5 DEF OpenVPNExits, sendVars
<1>. QED
  BY <1>1, <1>2, <1>3, <1>4, <1>5

LEMMA ProcessStepInv == ASSUME ProcessInv, [ProcessNext]_processVars PROVE ProcessInv'
<1>1. CASE ProcessGone \/ UNCHANGED processVars
  BY <1>1 DEF ProcessGone, processVars, sendVars, peerVars, ProcessInv, ProcessTypeOK
<1>. QED
  BY <1>1, PostedHandlerInv, SocketHandlerInv, ConnectionInv, EnvironmentInv
     DEF ProcessNext, RunHandler

-----------------------------------------------------------------------------
(* The refinement of CommandChannel.                                       *)

\* Nothing that the channel shows changes.
LEMMA Unseen ==
    ASSUME UNCHANGED <<received, openvpn>>, LineBroken \/ Undelivered' = Undelivered,
           (socket' = "open") <=> (socket = "open")
    PROVE  UNCHANGED Channel!channelVars
  BY DEF Channel!channelVars, LineBroken

\* What is behind the front of the queue and posted.
LEMMA UndeliveredType ==
    ASSUME ProcessInv
    PROVE  /\ Undelivered \in Seq(Commands)
           /\ write = "done" => Tail(commands) \in Seq(Commands)
           /\ posted \in Seq(Commands) /\ commands \in Seq(Commands)
<1>1. posted \in Seq(Commands) /\ commands \in Seq(Commands)
  BY DEF ProcessInv, ProcessTypeOK
<1>2. write = "done" => Tail(commands) \in Seq(Commands)
  BY <1>1, HeadTailProperties DEF ProcessInv
<1>. QED
  BY <1>1, <1>2, ConcatProperties DEF Undelivered

\* A posted handler moves a command from one queue to the other.
LEMMA SendUnseen ==
    ASSUME ProcessInv, StartManagementInterface \/ SendCommand
    PROVE  UNCHANGED Channel!channelVars
<1>1. /\ posted # <<>> /\ posted' = Tail(posted)
      /\ commands' = Append(commands, Head(posted))
      /\ UNCHANGED <<received, openvpn>>
  BY DEF StartManagementInterface, SendCommand, peerVars
<1>2. (socket' = "open") <=> (socket = "open")
  <2>1. CASE StartManagementInterface
    <3>1. 1 \in 1..Len(posted) /\ posted[1] = "newlines"
      BY <1>1, <2>1, UndeliveredType DEF StartManagementInterface
    <3>. QED
      BY <2>1, <3>1 DEF StartManagementInterface, ProcessInv
  <2>2. CASE SendCommand
    BY <2>2 DEF SendCommand
  <2>. QED
    BY <2>1, <2>2
<1>3. Head(posted) \in Commands
  BY <1>1, UndeliveredType, HeadTailProperties
<1>4. CASE write = "done"
  <2>1. commands # <<>> /\ write' = "done"
    BY <1>4 DEF ProcessInv, StartManagementInterface, SendCommand, MayWrite
  <2>2. Tail(commands') = Append(Tail(commands), Head(posted))
    BY <1>1, <1>3, <2>1, UndeliveredType, RestOfAppended
  <2>3. Tail(commands') \o posted' = Tail(commands) \o posted
    BY <1>1, <1>4, <2>2, UndeliveredType, MovedCommand
  <2>. QED
    BY <1>1, <1>2, <1>4, <2>1, <2>3, Unseen DEF Undelivered
<1>5. CASE write # "done"
  <2>1. write' # "done"
    BY <1>5 DEF StartManagementInterface, SendCommand
  <2>2. commands' \o posted' = commands \o posted
    BY <1>1, UndeliveredType, MovedCommand
  <2>. QED
    BY <1>1, <1>2, <1>5, <2>1, <2>2, Unseen DEF Undelivered
<1>. QED
  BY <1>4, <1>5

\* Posting a command gives it to the channel.
LEMMA PostGives ==
    ASSUME ProcessInv, NEW c \in Commands, posted' = Append(posted, c),
           UNCHANGED <<commands, write, socket, openvpn, received>>
    PROVE  Channel!Give(c) \/ UNCHANGED Channel!channelVars
<1>1. CASE LineBroken
  BY <1>1, Unseen
<1>2. CASE ~LineBroken
  <2>1. Undelivered' = Append(Undelivered, c)
    <3>1. CASE write = "done"
      <4>1. Tail(commands) \o Append(posted, c) = Append(Tail(commands) \o posted, c)
        BY <3>1, UndeliveredType, AppendedCommand
      <4>. QED
        BY <3>1, <4>1 DEF Undelivered
    <3>2. CASE write # "done"
      <4>1. commands \o Append(posted, c) = Append(commands \o posted, c)
        BY UndeliveredType, AppendedCommand
      <4>. QED
        BY <3>2, <4>1 DEF Undelivered
    <3>. QED
      BY <3>1, <3>2
  <2>. QED
    BY <1>2, <2>1 DEF Channel!Give, LineBroken
<1>. QED
  BY <1>1, <1>2

LEMMA WriteDelivers ==
    ASSUME ProcessInv, WriteCompletes
    PROVE  Channel!Deliver \/ UNCHANGED Channel!channelVars
<1>1. /\ write = "pending" /\ commands # <<>> /\ socket = "open"
      /\ UNCHANGED <<posted, commands, socket, openvpn>>
  BY DEF ProcessInv, WriteCompletes
<1>2. CASE LineBroken
  BY <1>1, <1>2, Unseen DEF WriteCompletes
<1>3. CASE ~LineBroken
  <2>1. write' = "done" /\ received' = Append(received, Head(commands))
    BY <1>3 DEF WriteCompletes
  <2>2. /\ Undelivered = commands \o posted
        /\ Undelivered' = Tail(commands) \o posted
    BY <1>1, <2>1 DEF Undelivered
  <2>3. /\ Undelivered # <<>>
        /\ Head(Undelivered) = Head(commands)
        /\ Tail(Undelivered) = Undelivered'
    BY <1>1, <2>2, UndeliveredType, FrontOfBoth
  <2>. QED
    BY <1>1, <1>3, <2>1, <2>3 DEF Channel!Deliver, LineBroken
<1>. QED
  BY <1>2, <1>3

\* OpenVPN leaves or exits.
LEMMA EndBreaks ==
    ASSUME OpenVPNLeaves \/ OpenVPNExits
    PROVE  Channel!Break \/ UNCHANGED Channel!channelVars
<1>1. LineBroken' /\ UNCHANGED <<posted, commands, write, socket, received>>
  BY DEF OpenVPNLeaves, OpenVPNExits, LineBroken, sendVars
<1>. QED
  BY <1>1 DEF Channel!Break, Channel!channelVars

\* Every step is one of the channel's, or nothing to it.
LEMMA ChannelStep ==
    ASSUME ProcessInv, [ProcessNext]_processVars
    PROVE  [Channel!ChannelNext]_(Channel!channelVars)
<1>1. CASE Dropped
  <2>1. LineBroken
    BY <1>1 DEF Dropped, Alive, ProcessInv, LineBroken
  <2>. QED
    BY <1>1, <2>1, Unseen DEF Dropped, peerVars
<1>2. CASE OnAccept
  <2>1. UNCHANGED <<posted, commands, openvpn, received>> /\ write # "done" /\ write' # "done"
    BY <1>2 DEF OnAccept, peerVars, ProcessInv, ProcessTypeOK
  <2>2. Undelivered' = Undelivered
    BY <2>1 DEF Undelivered
  <2>3. CASE socket = "refused"
    BY <1>2, <2>1, <2>2, <2>3, Unseen DEF OnAccept
  <2>4. CASE socket # "refused"
    <3>1. socket \in {"accepted", "assigned"} /\ socket' = "open"
      BY <1>2, <2>4 DEF OnAccept
    <3>2. Channel!Connect \/ UNCHANGED Channel!channelVars
      BY <2>1, <2>2, <3>1 DEF Channel!Connect, Channel!channelVars, LineBroken
    <3>. QED
      BY <3>2 DEF Channel!ChannelNext
  <2>. QED
    BY <2>3, <2>4
<1>3. CASE HandleManagementWrite
  <2>1. Undelivered' = Undelivered
    BY <1>3 DEF HandleManagementWrite, Undelivered
  <2>. QED
    BY <1>3, <2>1, Unseen DEF HandleManagementWrite, peerVars
<1>4. CASE HandleManagementReadLine
  <2>1. UNCHANGED <<commands, write, socket, openvpn, received>>
    BY <1>4 DEF HandleManagementReadLine, peerVars
  <2>2. posted' = posted \/ \E c \in Commands : posted' = Append(posted, c)
    BY <1>4, ReadPosts DEF Commands
  <2>3. CASE posted' = posted
    BY <2>1, <2>3, Unseen DEF Undelivered
  <2>. QED
    BY <2>1, <2>2, <2>3, PostGives DEF Channel!ChannelNext
<1>5. CASE ShutdownProcess
  <2>1. UNCHANGED <<commands, write, socket, openvpn, received>>
    BY <1>5 DEF ShutdownProcess, peerVars
  <2>2. posted' = posted \/ posted' = Append(posted, "SIGTERM")
    BY <1>5 DEF ShutdownProcess
  <2>3. CASE posted' = posted
    BY <2>1, <2>3, Unseen DEF Undelivered
  <2>4. "SIGTERM" \in Commands
    BY DEF Commands
  <2>. QED
    BY <2>1, <2>2, <2>3, <2>4, PostGives DEF Channel!ChannelNext
<1>6. CASE OnExited \/ OpenVPNConnects \/ ReadCompletes
  <2>1. UNCHANGED <<posted, commands, write, received>>
    BY <1>6 DEF OnExited, OpenVPNConnects, ReadCompletes, sendVars, peerVars
  <2>2. CASE OpenVPNConnects
    BY <2>1, <2>2
       DEF OpenVPNConnects, Channel!channelVars, LineBroken, Undelivered
  <2>3. CASE OnExited \/ ReadCompletes
    BY <2>1, <2>3, Unseen DEF OnExited, ReadCompletes, Undelivered, peerVars
  <2>. QED
    BY <1>6, <2>2, <2>3
<1>7. CASE ProcessGone \/ UNCHANGED processVars
  BY <1>7, Unseen DEF ProcessGone, processVars, sendVars, peerVars, Undelivered
<1>. QED
  BY <1>1, <1>2, <1>3, <1>4, <1>5, <1>6, <1>7, SendUnseen, WriteDelivers, EndBreaks
     DEF ProcessNext, RunHandler, Channel!ChannelNext

-----------------------------------------------------------------------------
(* Theorems.                                                               *)

\* Whenever OpenVPN connects and Connection sends, the interface is started once, and a
\* write always has a command to write (StartManagementInterface, HandleManagementWrite).
THEOREM ProcessInvariance == ProcessSpec => []ProcessInv
<1>. QED
  BY ProcessInitInv, ProcessStepInv, PTL DEF ProcessSpec

\* The safety half of CommandsDelivered: no command is lost, repeated or overtaken as long
\* as the line is not broken (SendManagementCommand, HandleManagementWrite).  That all are
\* delivered needs fairness, and is left to the run.
THEOREM CommandsInOrder ==
    ProcessSpec => Channel!ChannelInit /\ [][Channel!ChannelNext]_(Channel!channelVars)
<1>1. ASSUME ProcessInit PROVE Channel!ChannelInit
  <2>1. Undelivered \in Seq(Commands)
    BY <1>1 DEF ProcessInit, Undelivered, Commands
  <2>. QED
    BY <1>1, <2>1 DEF ProcessInit, Channel!ChannelInit, LineBroken
<1>2. ASSUME ProcessInv, ProcessInv', [ProcessNext]_processVars
      PROVE  [Channel!ChannelNext]_(Channel!channelVars)
  BY <1>2, ChannelStep
<1>. QED
  BY <1>1, <1>2, ProcessInvariance, PTL DEF ProcessSpec
=============================================================================
