--------------------------- MODULE CommandChannel ---------------------------
(***************************************************************************)
(* What Connection takes the management interface of one OpenVPN process   *)
(* for: a channel that delivers the commands it is given, each once and in *)
(* the order they were given in, from the moment OpenVPN has connected     *)
(* until the line breaks.  OpenVPNProcess implements it.                   *)
(***************************************************************************)
EXTENDS Sequences

CONSTANT Commands

VARIABLES
    line,       \* "waiting" for OpenVPN to connect, "open" or "broken"
    pending,    \* commands still to be delivered
    delivered   \* what OpenVPN got

channelVars == <<line, pending, delivered>>

ChannelInit ==
    /\ line = "waiting"
    /\ pending \in Seq(Commands)
    /\ delivered = <<>>

\* Commands may be given before OpenVPN has connected.
Give(c) ==
    /\ line # "broken"
    /\ pending' = Append(pending, c)
    /\ UNCHANGED <<line, delivered>>

Connect ==
    /\ line = "waiting"
    /\ line' = "open"
    /\ UNCHANGED <<pending, delivered>>

Deliver ==
    /\ line = "open"
    /\ pending # <<>>
    /\ delivered' = Append(delivered, Head(pending))
    /\ pending' = Tail(pending)
    /\ UNCHANGED line

\* OpenVPN closes the line or ends; what was not delivered never is.
Break ==
    /\ line # "broken"
    /\ line' = "broken"
    /\ pending' = <<>>
    /\ UNCHANGED delivered

ChannelNext == (\E c \in Commands : Give(c)) \/ Connect \/ Deliver \/ Break

\* As long as the line is open, everything that was given is delivered.
ChannelSpec == ChannelInit /\ [][ChannelNext]_channelVars /\ WF_channelVars(Deliver)
=============================================================================
