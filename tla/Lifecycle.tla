------------------------------ MODULE Lifecycle ------------------------------
(***************************************************************************)
(* What a client, and the daemon itself, may take Connection for: a switch *)
(* with at most one OpenVPN process behind it.  A process is launched with *)
(* the settings of that moment and keeps them; the connection is up only   *)
(* with a process that has spoken, and one that was up is not called idle  *)
(* before its process is gone.  Connection implements it.                  *)
(***************************************************************************)
CONSTANTS
    Copies, \* what a process is launched with
    None    \* no process, no settings

VARIABLES
    mode,    \* what clients are shown: "idle", "trying", "up" or "stopping"
    process, \* "none", "launched", "calling" while its management connects, then "heard"
    with,    \* the settings the process was launched with
    chosen   \* the settings the next one would be launched with

lifeVars == <<mode, process, with, chosen>>

LifeInit ==
    /\ mode = "idle"
    /\ process = "none"
    /\ with = None
    /\ chosen \in Copies

Choose == chosen' \in Copies /\ UNCHANGED <<mode, process, with>>

\* A request, a connection that was lost, or a change that needs a new one.
Try == mode' = "trying" /\ UNCHANGED <<process, with, chosen>>

Launch ==
    /\ mode \in {"idle", "trying"}
    /\ process = "none"
    /\ mode' = "trying"
    /\ process' = "launched"
    /\ with' = chosen
    /\ UNCHANGED chosen

Call == process = "launched" /\ process' = "calling" /\ UNCHANGED <<mode, with, chosen>>

Speak ==
    /\ process \in {"launched", "calling"}
    /\ process' = "heard"
    /\ UNCHANGED <<mode, with, chosen>>

Succeed ==
    /\ mode = "trying"
    /\ process = "heard"
    /\ mode' = "up"
    /\ UNCHANGED <<process, with, chosen>>

\* Only a process that was heard of is waited for; one that is up always is.
Stop ==
    /\ \/ mode \in {"trying", "up"} /\ process = "heard" /\ mode' = "stopping"
       \/ mode = "trying" /\ mode' = "idle"
    /\ UNCHANGED <<process, with, chosen>>

Exit ==
    /\ process # "none"
    /\ process' = "none"
    /\ with' = None
    /\ mode' = CASE mode = "up" -> "trying"
                 [] mode = "stopping" -> "idle"
                 [] OTHER -> mode
    /\ UNCHANGED chosen

LifeNext == Choose \/ Try \/ Launch \/ Call \/ Speak \/ Succeed \/ Stop \/ Exit

LifeSpec == LifeInit /\ [][LifeNext]_lifeVars
=============================================================================
