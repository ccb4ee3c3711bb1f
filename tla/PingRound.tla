------------------------------ MODULE PingRound ------------------------------
(***************************************************************************)
(* What a round of pings promises to CypherDaemon::PingServers             *)
(* (daemon/daemon.cpp): the callback given to Start is called, and only    *)
(* once, possibly from within Start.                                       *)
(***************************************************************************)
VARIABLE answered  \* the callback was called

RoundInit == answered \in BOOLEAN

Answer == ~answered /\ answered' = TRUE

RoundSpec == RoundInit /\ [][Answer]_answered /\ WF_answered(Answer)
=============================================================================
