-------------------------- MODULE ConnectionComments --------------------------
(***************************************************************************)
(* What a comment in the source says of the connection, and the code does   *)
(* not keep.  The property is refuted by a run of its own; the README walks *)
(* through the counterexample.                                              *)
(***************************************************************************)
EXTENDS Connection

\* openvpn.h, "Request clean shutdown (first via management interface, calls Kill if that
\* fails)": the process that Connect shut down to replace it exits, so
\* DISCONNECTING_TO_RECONNECT ends (OpenVPNProcess::Shutdown).
ReconnectEnds ==
    state = "DISCONNECTING_TO_RECONNECT"
        ~> (state # "DISCONNECTING_TO_RECONNECT" \/ loop = "threw")
=============================================================================
