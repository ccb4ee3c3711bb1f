------------------------------- MODULE Login --------------------------------
(***************************************************************************)
(* The login screens and the flows that lead from one to the next          *)
(* (client/src/web/components/LoginScreen.js, Application.js).  A flow is  *)
(* a chain of promises: a request of Session, calls of the daemon, and a   *)
(* History.push at its end, whatever screen is there by then.              *)
(***************************************************************************)
EXTENDS Session

CONSTANT LogoutFlow  \* the flow of the Logout screen, one at a time

ASSUME LoginAssumption == LogoutFlow \in Flows

VARIABLES
    screen,    \* History.location: a login step, or "main" for all others
    flow,      \* flow -> what it does, "idle" when the slot is free
    answer,    \* flow -> the account of the answer it received
    confirmed, \* the server's account is confirmed
    stored,    \* daemon.account: "none", "unconfirmed" or "confirmed"
    calls      \* calls of the daemon on their way, answered in order

loginVars == <<screen, flow, answer, confirmed, stored, calls>>
vars == <<sessionVars, loginVars>>

LoginScreens == {"check", "email", "password", "register", "confirm", "pending",
                 "analytics", "logout"}
Screens == LoginScreens \union {"main"}

\* What a flow waits for: a request, or the answer of the daemon to a call.
RequestKinds == {"check", "recheck", "background", "password", "register", "identify", "locations",
                 "firstLocations", "logout"}
CallKinds == {"setAccount", "firstSetAccount", "clearAccount", "clearSettings", "allow"}

LoginTypeOK ==
    /\ SessionTypeOK
    /\ screen \in Screens
    /\ flow \in [Flows -> {"idle"} \union RequestKinds \union CallKinds]
    /\ stored \in {"none", "unconfirmed", "confirmed"}
    /\ answer \in [Flows -> {"unconfirmed", "confirmed"}]
    /\ confirmed \in BOOLEAN
    /\ calls \in Seq(Flows)
    /\ \A f \in Flows : Waits(f) <=> flow[f] \in RequestKinds

LoginInit ==
    /\ SessionInit
    /\ screen = "check"
    /\ flow = [f \in Flows |-> "idle"]
    /\ answer = [f \in Flows |-> "unconfirmed"]
    /\ confirmed \in BOOLEAN
    /\ stored = IF token THEN "confirmed" ELSE "none"
    /\ calls = <<>>

-----------------------------------------------------------------------------
Goes(f, what) == flow' = [flow EXCEPT ![f] = what]

\* Starts a flow in a free slot with a request.
Starts(f, what) ==
    /\ flow[f] = "idle"
    /\ Goes(f, what)
    /\ frames' = [frames EXCEPT ![f] = MakeRequest]

CallDaemon(f, what) ==
    /\ Goes(f, what)
    /\ calls' = Append(calls, f)

\* The daemon answers calls in the order they were made.
DaemonAnswers(f) == calls # <<>> /\ Head(calls) = f /\ calls' = Tail(calls)

\* Check.run: with all data there, the main screen comes up at once, and the
\* check goes on in the background.
Check(f) ==
    /\ screen = "check"
    /\ \A g \in Flows : flow[g] = "idle"
    /\ IF stored = "confirmed"
       THEN screen' = "main" /\ Starts(f, "background")
       ELSE UNCHANGED screen /\ Starts(f, "check")
    /\ UNCHANGED <<session, acts, token, logoutDue, answer, confirmed, stored, calls>>

\* refreshAccount from ConfirmationStep's timer, or on the main screen when the
\* state becomes DISCONNECTED, on AUTHENTICATION_FAILED and from AccountScreen.
RefreshAccount(f) ==
    /\ screen \in {"confirm", "main"}
    /\ Acts
    /\ Starts(f, "background")
    /\ UNCHANGED <<session, token, logoutDue, screen, answer, confirmed, stored, calls>>

\* EmailStep, PasswordStep and RegisterStep.onSubmit
Submit(f) ==
    /\ \/ screen = "email" /\ Starts(f, "identify")
       \/ screen = "password" /\ Starts(f, "password")
       \/ screen = "register" /\ Starts(f, "register")
    /\ \A g \in Flows : flow[g] \notin {"identify", "password", "register"}
    /\ Acts
    /\ UNCHANGED <<session, token, logoutDue, screen, answer, confirmed, stored, calls>>

\* Links back to the first step.
FollowLink ==
    /\ screen \in {"password", "register", "confirm", "pending"}
    /\ screen' = "email"
    /\ UNCHANGED <<sessionVars, flow, answer, confirmed, stored, calls>>

\* Logout.componentDidMount: a screen that is there already is not mounted again.
MountLogout ==
    /\ screen' = "logout"
    /\ IF screen # "logout" /\ flow[LogoutFlow] = "idle"
       THEN Starts(LogoutFlow, "logout")
       ELSE UNCHANGED <<flow, frames>>

\* The Sign Out link
SignOut ==
    /\ screen = "main"
    /\ Acts
    /\ MountLogout
    /\ UNCHANGED <<session, token, logoutDue, answer, confirmed, stored, calls>>

\* setImmediate of onAuthFailure
AuthFailure ==
    /\ logoutDue
    /\ logoutDue' = FALSE
    /\ MountLogout
    /\ UNCHANGED <<session, acts, token, answer, confirmed, stored, calls>>

UserConfirms ==
    /\ ~confirmed
    /\ confirmed' = TRUE
    /\ UNCHANGED <<sessionVars, screen, flow, answer, stored, calls>>

-----------------------------------------------------------------------------
ServerAccount == IF confirmed THEN "confirmed" ELSE "unconfirmed"

\* The answer of account/status, or of an authentication: setAccount.
AccountArrives(f) ==
    /\ \/ flow[f] \in {"check", "recheck", "background"} /\ Resolved(f)
       \/ /\ flow[f] \in {"password", "register"}
          /\ Waits(f)
          /\ session' = TRUE
          /\ frames' = [frames EXCEPT ![f] = <<>>]
          /\ UNCHANGED <<acts, token, logoutDue>>
    /\ CallDaemon(f, IF flow[f] = "check" THEN "firstSetAccount" ELSE "setAccount")
    /\ answer' = [answer EXCEPT ![f] = ServerAccount]
    /\ UNCHANGED <<screen, confirmed, stored>>

\* EmailStep: 200, 401 and 402.
Identified(f) ==
    /\ flow[f] = "identify"
    /\ frames' = [frames EXCEPT ![f] = <<>>]
    /\ Goes(f, "idle")
    /\ screen' \in {"password", "register", "pending"}
    /\ UNCHANGED <<session, acts, token, logoutDue, answer, confirmed, stored, calls>>

\* setAccount's promise: an unconfirmed account has to be confirmed, one that is an
\* invitation or pending has to wait, and any other one has the locations fetched.
AccountStored(f) ==
    /\ flow[f] \in {"setAccount", "firstSetAccount"}
    /\ DaemonAnswers(f)
    /\ stored' = answer[f]
    /\ token' = TRUE
    /\ \/ /\ screen' = IF answer[f] = "unconfirmed" THEN "confirm" ELSE "pending"
          /\ Goes(f, "idle")
          /\ UNCHANGED frames
       \/ /\ answer[f] = "confirmed"
          /\ Goes(f, IF flow[f] = "setAccount" THEN "locations" ELSE "firstLocations")
          /\ frames' = [frames EXCEPT ![f] = MakeRequest]
          /\ UNCHANGED screen
    /\ UNCHANGED <<session, acts, logoutDue, answer, confirmed>>

\* refreshRegionsAndLocations is done: on from the login screens.
LocationsArrive(f) ==
    /\ flow[f] \in {"locations", "firstLocations"}
    /\ Resolved(f)
    /\ Goes(f, "idle")
    /\ screen' = IF screen \in LoginScreens THEN "analytics" ELSE screen
    /\ UNCHANGED <<answer, confirmed, stored, calls>>

\* A request that is refused for good, or fails: Check shows the error and the
\* first step unless it was handled by onAuthFailure.
RequestFails(f) ==
    /\ flow[f] # "logout"
    /\ \/ Failed(f) /\ screen' = IF flow[f] \in {"check", "firstLocations"} /\ ~FailsRefresh(f)
                                 THEN "email" ELSE screen
       \/ Unauthorized(f) /\ UNCHANGED screen
    /\ Goes(f, "idle")
    /\ UNCHANGED <<answer, confirmed, stored, calls>>

RequestRetried(f) ==
    /\ flow[f] \notin {"logout", "identify", "password", "register"}
    /\ Forbidden(f) \/ Refreshed(f)
    /\ UNCHANGED loginVars

Expires == SessionExpires /\ UNCHANGED loginVars

\* Mutant: Logout stops at an error of the server.
StopsAtError(f) == Goes(f, "idle") /\ UNCHANGED calls

\* Logout goes on whether the server answered or not: the account is cleared.
GoesOnAnyway(f) == CallDaemon(f, "clearAccount")

LogoutPosted(f) ==
    /\ flow[f] = "logout"
    /\ frames' = [frames EXCEPT ![f] = <<>>]
    /\ \/ session' = FALSE /\ CallDaemon(f, "clearAccount")
       \/ UNCHANGED session /\ GoesOnAnyway(f)
    /\ UNCHANGED <<acts, token, logoutDue, screen, answer, confirmed, stored>>

\* All but the email is cleared, then analytics are switched off.
AccountCleared(f) ==
    /\ flow[f] = "clearAccount"
    /\ Head(calls) = f
    /\ stored' = "none"
    /\ token' = FALSE
    /\ Goes(f, "clearSettings")
    /\ calls' = Append(Tail(calls), f)
    /\ UNCHANGED <<frames, session, acts, logoutDue, screen, answer, confirmed>>

\* Cookies are removed, then the first step comes up.
LoggedOut(f) ==
    /\ flow[f] = "clearSettings"
    /\ DaemonAnswers(f)
    /\ session' = FALSE
    /\ Goes(f, "idle")
    /\ screen' = "email"
    /\ UNCHANGED <<frames, acts, token, logoutDue, answer, confirmed, stored>>

\* AnalyticsStep: a setting is applied, then the main screen comes up.
Decide(f) ==
    /\ screen = "analytics"
    /\ flow[f] = "idle"
    /\ Acts
    /\ CallDaemon(f, "allow")
    /\ UNCHANGED <<frames, session, token, logoutDue, screen, answer, confirmed, stored>>

Decided(f) ==
    /\ flow[f] = "allow"
    /\ DaemonAnswers(f)
    /\ Goes(f, "idle")
    /\ screen' = "main"
    /\ UNCHANGED <<sessionVars, answer, confirmed, stored>>

\* What the server's answers and the daemon's cause.
Answered(f) ==
    \/ AccountArrives(f) \/ Identified(f) \/ AccountStored(f) \/ LocationsArrive(f)
    \/ RequestRetried(f) \/ RequestFails(f)
    \/ LogoutPosted(f) \/ AccountCleared(f) \/ LoggedOut(f) \/ Decided(f)

Begins(f) == Check(f) \/ RefreshAccount(f) \/ Submit(f) \/ Decide(f)

LoginNext ==
    \/ \E f \in Flows \ {LogoutFlow} : Begins(f)
    \/ \E f \in Flows : Answered(f)
    \/ FollowLink \/ SignOut \/ AuthFailure \/ UserConfirms \/ Expires

\* Every request is answered or fails, every call of the daemon is answered, and
\* setImmediate runs.
LoginFairness ==
    /\ \A f \in Flows : WF_vars(Answered(f))
    /\ WF_vars(AuthFailure)

LoginSpec == LoginInit /\ [][LoginNext]_vars /\ LoginFairness

-----------------------------------------------------------------------------
\* Every request settles, and with it what the user waits for, through a session
\* that expires under several requests at once and is refreshed by each.
RequestsSettle == \A f \in Flows : Waits(f) ~> ~Waits(f)

\* Whoever cannot be authenticated gets to enter an email again: neither another
\* flow that pushes its screen meanwhile nor a server that cannot be reached for
\* the logout keeps the old account's screens up for good.
FailureLeadsToLogin == logoutDue ~> screen = "email"

\* Doc comment of onNavigation and isLoggedIn: a path outside /login means that
\* somebody is logged in.
MainHasAccount == screen = "main" => stored # "none"
=============================================================================
