----------------------------- MODULE PingRounds -----------------------------
(***************************************************************************)
(* When the daemon pings (CypherDaemon::PingServers and                    *)
(* ScheduleNextPingServers, daemon/daemon.cpp): rounds are started by the  *)
(* first client, by notifications and by a timer, and may overlap, since   *)
(* nothing stops a round that runs.  A round is one PingRound.             *)
(*                                                                         *)
(* The rest of the daemon is here as far as it matters for that: whether   *)
(* there are clients, whether the connection is DISCONNECTED, whether the  *)
(* daemon is exiting, and the NotifyChanges that each change of state or   *)
(* of the locations has pending (module Daemon, NotificationPending).      *)
(***************************************************************************)
EXTENDS Naturals

CONSTANT MaxRounds  \* bound: rounds and due timer handlers at a time

ASSUME RoundsAssumption == MaxRounds \in Nat \ {0}

VARIABLES
    attached,     \* _connections is not empty
    disconnected, \* the connection's state is DISCONNECTED
    leaving,      \* _state is EXITING
    changed,      \* NotifyChanges is queued for STATE or "locations"
    rounds,       \* pingers that have not called back
    updating,     \* _ping_stats["updating"]
    scheduled,    \* _next_ping_scheduled
    pingTimer,    \* a wait is pending on _ping_timer
    due           \* handlers of _ping_timer that are ready, with no error

hostVars == <<attached, disconnected, leaving>>
pingVars == <<rounds, updating, scheduled, pingTimer>>
roundsVars == <<hostVars, changed, pingVars, due>>

RoundsTypeOK ==
    /\ attached \in BOOLEAN
    /\ disconnected \in BOOLEAN
    /\ leaving \in BOOLEAN
    /\ changed \in BOOLEAN
    /\ rounds \in 0..MaxRounds
    /\ updating \in BOOLEAN
    /\ scheduled \in BOOLEAN
    /\ pingTimer \in BOOLEAN
    /\ due \in 0..MaxRounds

RoundsInit ==
    /\ attached = FALSE
    /\ disconnected = TRUE
    /\ leaving = FALSE
    /\ changed = FALSE
    /\ rounds = 0
    /\ updating = FALSE
    /\ scheduled = FALSE
    /\ pingTimer = FALSE
    /\ due = 0

-----------------------------------------------------------------------------
\* Mutant: a started round leaves the last timer's flag alone.
StillScheduled == scheduled

\* "_next_ping_scheduled = false" in PingServers.
NotScheduled == FALSE

\* "_ping_stats["updating"] = false" in the callback.
Updated == FALSE

\* ScheduleNextPingServers, with the flag and the timer so far.
ScheduleNext(flag, wait) ==
    /\ scheduled' = TRUE
    /\ pingTimer' = IF flag THEN wait ELSE TRUE

\* PingServers; a round in which no location is due calls back from within Start.
PingServers ==
    IF leaving \/ ~disconnected
    THEN UNCHANGED pingVars
    ELSE \/ /\ rounds < MaxRounds
            /\ rounds' = rounds + 1
            /\ updating' = TRUE
            /\ scheduled' = NotScheduled
            /\ pingTimer' = FALSE
         \/ /\ updating' = Updated
            /\ ScheduleNext(NotScheduled, FALSE)
            /\ UNCHANGED rounds

\* The callback of a round.
RoundAnswers ==
    /\ rounds # 0
    /\ rounds' = rounds - 1
    /\ updating' = Updated
    /\ ScheduleNext(scheduled, pingTimer)
    /\ UNCHANGED <<hostVars, changed, due>>

\* OnFirstClientConnected
FirstClientConnects ==
    /\ ~attached
    /\ attached' = TRUE
    /\ PingServers
    /\ UNCHANGED <<disconnected, leaving, changed, due>>

\* Mutant: the last client leaves the timer armed.
LeaveTimer == UNCHANGED pingTimer

\* "_ping_timer.cancel()" in OnLastClientDisconnected.
CancelTimer == pingTimer' = FALSE

\* OnLastClientDisconnected: the timer is cancelled, a running round is not.  The
\* Disconnect it calls is a ConnectionChanges of its own.
LastClientLeaves ==
    /\ attached
    /\ attached' = FALSE
    /\ CancelTimer
    /\ scheduled' = FALSE
    /\ UNCHANGED <<disconnected, leaving, changed, rounds, updating, due>>

\* OnConnectionStateChanged, and RPC_applyConfig with new locations.
ConnectionChanges ==
    /\ disconnected' = ~disconnected
    /\ changed' = (changed \/ ~leaving)
    /\ UNCHANGED <<attached, leaving, pingVars, due>>

LocationsChange ==
    /\ attached
    /\ changed' = TRUE
    /\ UNCHANGED <<hostVars, pingVars, due>>

\* NotifyChanges with STATE or "locations" flagged.
NotifyOfChange ==
    /\ changed
    /\ changed' = FALSE
    /\ PingServers
    /\ UNCHANGED <<hostVars, due>>

\* The wait on _ping_timer ends; cancelling it later does not recall the handler.
PingTimerExpires ==
    /\ pingTimer
    /\ due < MaxRounds
    /\ pingTimer' = FALSE
    /\ due' = due + 1
    /\ UNCHANGED <<hostVars, changed, rounds, updating, scheduled>>

PingTimerHandler ==
    /\ due # 0
    /\ due' = due - 1
    /\ PingServers
    /\ UNCHANGED <<hostVars, changed>>

\* RequestShutdown
ShutdownRequested ==
    /\ ~leaving
    /\ leaving' = TRUE
    /\ changed' = TRUE
    /\ UNCHANGED <<attached, disconnected, pingVars, due>>

RoundsNext ==
    \/ RoundAnswers \/ FirstClientConnects \/ LastClientLeaves
    \/ ConnectionChanges \/ LocationsChange \/ NotifyOfChange
    \/ PingTimerExpires \/ PingTimerHandler \/ ShutdownRequested

RoundsSpec == RoundsInit /\ [][RoundsNext]_roundsVars

-----------------------------------------------------------------------------
(* Properties.                                                             *)

\* With a client and no connection the servers are pinged again and again: a round runs,
\* the timer will start one, or a notification will (PingServers,
\* ScheduleNextPingServers, OnFirstClientConnected, NotifyChanges).
PingingGoesOn ==
    attached /\ disconnected /\ ~leaving
        => rounds # 0 \/ pingTimer \/ due # 0 \/ changed

\* The client is told that results are being updated only while a round runs, however
\* the rounds overlap (the callback of PingServers).
UpdatingEnds == updating => rounds # 0

\* A timer that is armed is one that ScheduleNextPingServers knows of, so that no round
\* that ends arms a second one or postpones it (ScheduleNextPingServers).
TimerIsScheduled == pingTimer => scheduled

\* Both flags that overlapping rounds share tell the truth.
RoundFlagsAgree == UpdatingEnds /\ TimerIsScheduled

\* What the flag stands for: a timer that is armed or about to start a round, or one that
\* a connection has made pointless until NotifyChanges tells of its end.
ScheduledIsPending ==
    scheduled /\ disconnected /\ ~leaving => pingTimer \/ due # 0 \/ changed

\* The inductive invariant of PingerProofs.
RoundsInv ==
    /\ RoundsTypeOK
    /\ PingingGoesOn
    /\ UpdatingEnds
    /\ TimerIsScheduled
    /\ ScheduledIsPending
=============================================================================
