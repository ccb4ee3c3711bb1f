------------------------------ MODULE Session -------------------------------
(***************************************************************************)
(* Requests to the account server (client/src/web/server.js).  A request   *)
(* that is refused with 403 refreshes the session with the stored token,   *)
(* which is a request of its own, and is then made again.                  *)
(*                                                                         *)
(* frames[f] is the chain of requests that flow f waits for, innermost     *)
(* last: "call" is the one it made, "refresh" the authentication by token  *)
(* that its predecessor asked for, "retry" the repetition of its           *)
(* predecessor.  A retry settles its predecessor's promise the way its own *)
(* is settled, so that a retry of a retry need not be told apart from it.  *)
(*                                                                         *)
(* retry() names the option attemptLoginRefreshOnForbidden, which xhr()    *)
(* does not know, so that a repeated request is refreshed again, and so is *)
(* a refused refresh.                                                      *)
(***************************************************************************)
EXTENDS Naturals, Sequences

CONSTANTS
    Flows,       \* pieces of client code that make one request at a time
    MaxNesting,  \* bound on refused refreshes inside one another
    MaxActs,     \* bound on what the user does and on how often a session expires
    Refusing     \* the server may refuse requests of a valid session

ASSUME SessionAssumption ==
    /\ MaxNesting \in Nat \ {0}
    /\ MaxActs \in Nat
    /\ Refusing \in BOOLEAN

VARIABLES
    frames,    \* see above; <<>> when the flow waits for no request
    session,   \* the server knows the session of the client's cookie
    acts,      \* how much of that there was
    token,     \* daemon.account.account has an email and a token
    logoutDue  \* a call of onAuthFailure, setImmediate pending

sessionVars == <<frames, session, acts, token, logoutDue>>

FrameKinds == {"call", "retry", "refresh"}
Refreshes(s) == {i \in DOMAIN s : s[i] = "refresh"}

SessionTypeOK ==
    /\ frames \in [Flows -> Seq(FrameKinds)]
    /\ \A f \in Flows : frames[f] # <<>> => frames[f][1] = "call"
    /\ session \in BOOLEAN /\ token \in BOOLEAN /\ logoutDue \in BOOLEAN
    /\ acts \in 0..MaxActs

SessionInit ==
    /\ frames = [f \in Flows |-> <<>>]
    /\ session = TRUE
    /\ acts = 0
    /\ token \in BOOLEAN
    /\ logoutDue = FALSE

-----------------------------------------------------------------------------
Waits(f) == frames[f] # <<>>
Inner(f) == frames[f][Len(frames[f])]

\* The innermost request that is not the repetition of another.
Base(s) == CHOOSE i \in DOMAIN s :
               s[i] # "retry" /\ \A j \in i + 1..Len(s) : s[j] = "retry"

\* xhr(): request is the value of frames[f] afterwards.
MakeRequest == <<"call">>

\* After a refresh that succeeded: its predecessor is made again.
Repeated(s) ==
    LET before == SubSeq(s, 1, Base(s) - 1) IN
    IF before[Len(before)] = "retry" THEN before ELSE Append(before, "retry")

Acts == acts < MaxActs /\ acts' = acts + 1

\* The session expires; the next request is refused.
SessionExpires ==
    /\ session
    /\ Acts
    /\ session' = FALSE
    /\ UNCHANGED <<frames, token, logoutDue>>

\* The request is answered well, and it was the flow's own or repeats it.
Resolved(f) ==
    /\ Waits(f)
    /\ Refreshes(frames[f]) = {}
    /\ session
    /\ frames' = [frames EXCEPT ![f] = <<>>]
    /\ UNCHANGED <<session, acts, token, logoutDue>>

\* Mutant: the repeated request forgets whose promise it has to settle.
Unchained(f) == frames' = [frames EXCEPT ![f] = <<"retry">>]

\* "Successfully refreshed, retrying original request..."
RetriesRequest(f) == frames' = [frames EXCEPT ![f] = Repeated(@)]

\* Mutant: the answer to the authentication does not renew the session.
StillExpired == UNCHANGED session

\* The authentication by token sets the cookie of a session.
SessionRenewed == session' = TRUE

Refreshed(f) ==
    /\ Waits(f)
    /\ Refreshes(frames[f]) # {}
    /\ SessionRenewed
    /\ RetriesRequest(f)
    /\ UNCHANGED <<acts, token, logoutDue>>

\* May the request be refused with 403?
Refusable(f) ==
    \/ Refusing
    \/ ~session /\ Inner(f) # "refresh"

\* 403 with credentials: refreshSession.
Forbidden(f) ==
    /\ Waits(f)
    /\ Refusable(f)
    /\ token
    /\ Inner(f) = "refresh" => Len(frames[f]) <= MaxNesting
    /\ frames' = [frames EXCEPT ![f] = Append(@, "refresh")]
    /\ UNCHANGED <<session, acts, token, logoutDue>>

\* 403 without credentials: refreshSession throws, onAuthFailure is called and
\* every predecessor is rejected, the flow's request with handled = true.
Unauthorized(f) ==
    /\ Waits(f)
    /\ Refusable(f)
    /\ ~token
    /\ frames' = [frames EXCEPT ![f] = <<>>]
    /\ logoutDue' = TRUE
    /\ UNCHANGED <<session, acts, token>>

\* onAuthFailure is called for every refresh that is rejected.
FailsRefresh(f) == Refreshes(frames[f]) # {}

\* A connection error or a status other than 403 rejects the innermost request
\* and with it all its predecessors.
Failed(f) ==
    /\ Waits(f)
    /\ frames' = [frames EXCEPT ![f] = <<>>]
    /\ logoutDue' = (logoutDue \/ FailsRefresh(f))
    /\ UNCHANGED <<session, acts, token>>
=============================================================================
