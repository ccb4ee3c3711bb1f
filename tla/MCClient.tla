------------------------------- MODULE MCClient -------------------------------
(***************************************************************************)
(* The client's parts that share no state, all in one instance.  Their     *)
(* product would multiply the states and say nothing more, so that a       *)
(* behaviour is one of one part, and the others keep their initial states. *)
(***************************************************************************)
EXTENDS Login, Transition, Analytics, AppLifecycle, Install

VARIABLE part

clientVars == <<vars, groupVars, analyticsVars, appVars, installVars, part>>

Parts == {"login", "transition", "analytics", "app", "install"}

\* The other parts rest in one of their initial states.
Rests(p) == part # p
AtRest ==
    /\ Rests("login") => token /\ confirmed
    /\ Rests("transition") => target = <<>>
    /\ Rests("install") => group = "none"

ClientInit ==
    /\ part \in Parts
    /\ LoginInit /\ TransitionInit /\ AnalyticsInit /\ AppInit /\ InstallInit
    /\ AtRest

loginRests == UNCHANGED vars
transitionRests == UNCHANGED groupVars
analyticsRests == UNCHANGED analyticsVars
appRests == UNCHANGED appVars
installRests == UNCHANGED installVars

ClientNext ==
    /\ UNCHANGED part
    /\ \/ /\ part = "login" /\ LoginNext
          /\ transitionRests /\ analyticsRests /\ appRests /\ installRests
       \/ /\ part = "transition" /\ TransitionNext
          /\ loginRests /\ analyticsRests /\ appRests /\ installRests
       \/ /\ part = "analytics" /\ AnalyticsNext
          /\ loginRests /\ transitionRests /\ appRests /\ installRests
       \/ /\ part = "app" /\ AppNext
          /\ loginRests /\ transitionRests /\ analyticsRests /\ installRests
       \/ /\ part = "install" /\ InstallNext
          /\ loginRests /\ transitionRests /\ analyticsRests /\ appRests

\* Each part's fairness, for the behaviours that are of this part.
ClientFairness ==
    /\ part = "login" => LoginFairness
    /\ part = "app" => AppFairness

ClientSpec == ClientInit /\ [][ClientNext]_clientVars /\ ClientFairness

-----------------------------------------------------------------------------
\* The type invariants of the parts.
ClientTypeOK ==
    /\ LoginTypeOK
    /\ TransitionTypeOK
    /\ AnalyticsTypeOK
    /\ AppTypeOK
    /\ InstallTypeOK
=============================================================================
