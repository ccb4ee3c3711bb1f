---------------------------- MODULE MCDaemonParts -----------------------------
(***************************************************************************)
(* Parts of the daemon that the module Daemon only knows by their results, *)
(* in one instance: a round of pings in detail, the rounds of the daemon,  *)
(* the firewall of either platform, and the management of one OpenVPN      *)
(* process.  A behaviour is one of one part, and the others rest.          *)
(***************************************************************************)
EXTENDS Pinger, PingRounds, PosixFirewall, WinFirewall, OpenVPNProcess

VARIABLE part  \* "round", "rounds", "posix", "windows" or "openvpn"

partsVars == <<pingerVars, roundsVars, posixVars, winVars, processVars, part>>

\* A round that had nothing to resolve.
PingerOver ==
    /\ resolving = 1
    /\ writeQueue = <<>>
    /\ inFlight = 0
    /\ sent = [d \in Destinations |-> 0]
    /\ waiting = [d \in Destinations |-> {}]
    /\ timer = [d \in Destinations |-> "none"]
    /\ expired = [d \in Destinations |-> {}]
    /\ resend = [d \in Destinations |-> 0]
    /\ replies = [d \in Destinations |-> 0]
    /\ timeouts = [d \in Destinations |-> 0]
    /\ globalTimer = FALSE
    /\ called = TRUE

PartsInit ==
    /\ part \in {"round", "rounds", "posix", "windows", "openvpn"}
    /\ RoundsInit
    /\ PosixInit
    /\ WinInit
    /\ ProcessInit
    /\ IF part = "round" THEN PingerInit ELSE PingerOver
    /\ part # "windows" => adapters = Adapters /\ firewall

PartsNext ==
    /\ UNCHANGED part
    /\ \/ /\ part = "round" /\ PingerNext
          /\ UNCHANGED <<roundsVars, posixVars, winVars, processVars>>
       \/ /\ part = "rounds" /\ RoundsNext
          /\ UNCHANGED <<pingerVars, posixVars, winVars, processVars>>
       \/ /\ part = "posix" /\ PosixNext
          /\ UNCHANGED <<pingerVars, roundsVars, winVars, processVars>>
       \/ /\ part = "windows" /\ WinNext
          /\ UNCHANGED <<pingerVars, roundsVars, posixVars, processVars>>
       \/ /\ part = "openvpn" /\ ProcessNext
          /\ UNCHANGED <<pingerVars, roundsVars, posixVars, winVars>>

PartsSpec ==
    /\ PartsInit /\ [][PartsNext]_partsVars
    /\ part = "round" => WF_pingerVars(HandleGlobalTimeout)
    /\ part = "openvpn" => ProcessFairness

\* Every variable has its type.
PartsTypeOK == PingerTypeOK /\ RoundsTypeOK /\ PosixTypeOK /\ WinTypeOK /\ ProcessTypeOK
=============================================================================
