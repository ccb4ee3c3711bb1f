---------------------------- MODULE DaemonComments ----------------------------
(***************************************************************************)
(* What the daemon's comments and the client's texts say of the daemon, and *)
(* the code does not keep.  Each property is refuted by a run of its own.   *)
(***************************************************************************)
EXTENDS Daemon

\* daemon.cpp, "1. Shut down any existing OpenVPN process": none is left when the message
\* loop is stopped (DoShutdown, Connection::Disconnect).
ShutdownLeavesNoProcess == loop = "stopped" => phase = "none"

\* FirewallScreen.jsx, "Enable the killswitch while connecting, protecting you in case of
\* accidental disconnections": in mode "auto" OpenVPN is not launched or kept running
\* without it (ApplyFirewallSettings, OnConnectionStateChanged).
ProtectedWhileConnecting ==
    (firewall = "auto" /\ clients # {} /\ state \in Retrying \cup {"CONNECTED", "INTERRUPTED"})
        => killswitch \/ notify \cap FirewallFlags # {}
=============================================================================
