------------------------------- MODULE Pinger -------------------------------
(***************************************************************************)
(* One round of ServerPingerThinger (daemon/ping.h): every destination is  *)
(* resolved, then pinged MaxPings times over one raw socket, with one      *)
(* write at a time, a map of the replies to wait for and one timer per     *)
(* destination, which serves as its timeout and as the pause before its    *)
(* next ping.                                                              *)
(*                                                                         *)
(* Handlers that are ready may run in any order: they come from the        *)
(* resolver, the socket and the timers, which do not wait for each other.  *)
(* Cancelling a timer does not recall a handler that is ready already, and *)
(* makes the one that was waiting ready with an error: HandleTimeout looks *)
(* at that error, QueueSend does not get to see it.                        *)
(*                                                                         *)
(* Sequence numbers are counted per destination here.  In the code they    *)
(* are global and 16 bits wide; a round uses far fewer, so that a number   *)
(* names a destination and one of its pings.                               *)
(***************************************************************************)
EXTENDS Naturals, Sequences, FiniteSets

CONSTANTS
    N,        \* the number of destinations added
    MaxPings  \* MAXIMUM_PING_COUNT

ASSUME PingerAssumption == N \in Nat /\ MaxPings \in Nat \ {0}

VARIABLES
    resolving,   \* _resolve_iterator; N + 1 is end()
    writeQueue,  \* _write_queue
    inFlight,    \* async_send_to calls whose HandleWrite has not run
    sent,        \* pings started; the last one has dest.sequence_number
    waiting,     \* the pings in _wait_map
    timer,       \* what dest.timeout_timer waits for
    expired,     \* pings whose HandleTimeout is ready, with no error
    resend,      \* QueueSend handlers that are ready
    replies,     \* dest.stats.replies
    timeouts,    \* dest.stats.timeouts
    globalTimer, \* a wait is pending on _global_timeout_timer
    called       \* _callback_called

queueVars == <<writeQueue, inFlight>>
destVars  == <<sent, waiting, timer, expired, resend>>
statVars  == <<replies, timeouts>>
pingerVars == <<resolving, queueVars, destVars, statVars, globalTimer, called>>

Destinations == 1..N

PingerTypeOK ==
    /\ resolving \in 1..(N + 1)
    /\ writeQueue \in Seq(Destinations)
    /\ inFlight \in Nat
    /\ sent \in [Destinations -> Nat]
    /\ waiting \in [Destinations -> SUBSET Nat]
    /\ timer \in [Destinations -> {"none", "timeout", "send"}]
    /\ expired \in [Destinations -> SUBSET Nat]
    /\ resend \in [Destinations -> Nat]
    /\ replies \in [Destinations -> Nat]
    /\ timeouts \in [Destinations -> Nat]
    /\ globalTimer \in BOOLEAN
    /\ called \in BOOLEAN

\* Start: without destinations the round is done at once.
PingerInit ==
    /\ resolving = 1
    /\ writeQueue = <<>>
    /\ inFlight = 0
    /\ sent = [d \in Destinations |-> 0]
    /\ waiting = [d \in Destinations |-> {}]
    /\ timer = [d \in Destinations |-> "none"]
    /\ expired = [d \in Destinations |-> {}]
    /\ resend = [d \in Destinations |-> 0]
    /\ replies = [d \in Destinations |-> 0]
    /\ timeouts = [d \in Destinations |-> 0]
    /\ globalTimer = (N > 0)
    /\ called = (N = 0)

-----------------------------------------------------------------------------
\* Cancelling a pause runs the QueueSend that was waiting for it.
Aborted(d) == IF timer[d] = "send" THEN 1 ELSE 0

\* StartNextSend for the destination at the front; "ready" are the QueueSend handlers
\* that the caller leaves.
StartNextSend(d, ready) ==
    /\ sent' = [sent EXCEPT ![d] = @ + 1]
    /\ waiting' = [waiting EXCEPT ![d] = @ \cup {sent[d] + 1}]
    /\ timer' = [timer EXCEPT ![d] = "timeout"]
    /\ resend' = [ready EXCEPT ![d] = @ + Aborted(d)]
    /\ UNCHANGED expired

\* Mutant: every QueueSend starts a write.
AlwaysFirst == TRUE

\* "bool first = _write_queue.empty()"
First == writeQueue = <<>>

QueueSend(d, ready) ==
    /\ writeQueue' = Append(writeQueue, d)
    /\ IF First
       THEN inFlight' = inFlight + 1 /\ StartNextSend(Head(writeQueue'), ready)
       ELSE resend' = ready /\ UNCHANGED <<inFlight, sent, waiting, timer, expired>>

\* "dest.stats.replies + dest.stats.timeouts < MAXIMUM_PING_COUNT"
More(results) == results < MaxPings

Results(d) == replies[d] + timeouts[d]

\* "_write_queue.empty() && _wait_map.empty()", with the entries that are left.
AllSettled(queue, entries) == queue = <<>> /\ \A d \in Destinations : entries[d] = {}

-----------------------------------------------------------------------------
(* Handlers.                                                               *)

\* Mutant: the end of the list is resolved, too.
PastTheEnd == TRUE

\* "_resolve_iterator != _destinations.end()"
ToResolve == resolving <= N

\* HandleResolve; after an error the same name is resolved again, and nothing changes.
HandleResolve ==
    /\ ~called
    /\ ToResolve
    /\ QueueSend(resolving, resend)
    /\ resolving' = resolving + 1
    /\ UNCHANGED <<statVars, globalTimer, called>>

HandleWrite ==
    /\ inFlight > 0
    /\ \/ /\ called
          /\ inFlight' = inFlight - 1
          /\ UNCHANGED <<writeQueue, destVars, called>>
       \/ /\ ~called
          /\ writeQueue' = Tail(writeQueue)
          /\ writeQueue' # <<>>
          /\ StartNextSend(Head(writeQueue'), resend)
          /\ UNCHANGED <<inFlight, called>>
       \/ /\ ~called
          /\ writeQueue' = Tail(writeQueue)
          /\ writeQueue' = <<>>
          /\ inFlight' = inFlight - 1
          /\ called' = AllSettled(<<>>, waiting)
          /\ UNCHANGED destVars
    /\ UNCHANGED <<resolving, statVars, globalTimer>>

\* Mutant: the reply to a ping is counted each time it arrives.
NotErased(d, n) == waiting

\* "_wait_map.erase(it->first)"
Erased(d, n) == [waiting EXCEPT ![d] = @ \ {n}]

\* HandleReceive for the reply to ping n of d, duplicated or late as it may be; packets
\* that answer nothing change nothing.
HandleReceive(d, n) ==
    /\ ~called
    /\ n \in waiting[d]
    /\ waiting' = Erased(d, n)
    /\ replies' = [replies EXCEPT ![d] = @ + 1]
    /\ resend' = [resend EXCEPT ![d] = @ + Aborted(d)]
    /\ timer' = [timer EXCEPT ![d] = IF More(Results(d) + 1) THEN "send" ELSE "none"]
    /\ called' = (~More(Results(d) + 1) /\ AllSettled(writeQueue, waiting'))
    /\ UNCHANGED <<resolving, queueVars, sent, expired, timeouts, globalTimer>>

\* Mutant: after a timeout the destination is given up.
NoPause(d) == "none"

\* What the timer of d waits for after a timeout.
AfterTimeout(d) == IF More(Results(d) + 1) THEN "send" ELSE timer[d]

\* HandleTimeout for ping n of d; it leaves the ping in _wait_map.
HandleTimeout(d, n) ==
    /\ n \in expired[d]
    /\ expired' = [expired EXCEPT ![d] = @ \ {n}]
    /\ \/ /\ called \/ n # sent[d]
          /\ UNCHANGED <<timeouts, timer, resend, called>>
       \/ /\ ~called /\ n = sent[d]
          /\ timeouts' = [timeouts EXCEPT ![d] = @ + 1]
          /\ timer' = [timer EXCEPT ![d] = AfterTimeout(d)]
          /\ resend' = [resend EXCEPT ![d] = @ + IF More(Results(d) + 1) THEN Aborted(d) ELSE 0]
          /\ called' = (~More(Results(d) + 1) /\ AllSettled(writeQueue, waiting))
    /\ UNCHANGED <<resolving, queueVars, sent, waiting, replies, globalTimer>>

\* The QueueSend of a pause that ended or was cancelled, before or after the round.
HandleResend(d) ==
    /\ resend[d] > 0
    /\ QueueSend(d, [resend EXCEPT ![d] = @ - 1])
    /\ UNCHANGED <<resolving, statVars, globalTimer, called>>

\* Mutant: the global timeout closes the socket and forgets the callback.
CalledAlready == called

\* Done(), at the end of HandleGlobalTimeout.
CalledByTimeout == TRUE

HandleGlobalTimeout ==
    /\ globalTimer
    /\ globalTimer' = FALSE
    /\ \/ /\ called
          /\ UNCHANGED <<timer, resend, called>>
       \/ /\ ~called
          /\ timer' = [d \in Destinations |-> "none"]
          /\ resend' = [d \in Destinations |-> resend[d] + Aborted(d)]
          /\ called' = CalledByTimeout
    /\ UNCHANGED <<resolving, queueVars, sent, waiting, expired, statVars>>

\* The timer of d expires.
TimerExpires(d) ==
    /\ timer[d] # "none"
    /\ timer' = [timer EXCEPT ![d] = "none"]
    /\ expired' = [expired EXCEPT ![d] = IF timer[d] = "timeout" THEN @ \cup {sent[d]} ELSE @]
    /\ resend' = [resend EXCEPT ![d] = @ + Aborted(d)]
    /\ UNCHANGED <<resolving, queueVars, sent, waiting, statVars, globalTimer, called>>

\* Nothing is left but the receive that waits for one more packet.
Idle ==
    /\ ~globalTimer
    /\ inFlight = 0
    /\ \A d \in Destinations : timer[d] = "none" /\ expired[d] = {} /\ resend[d] = 0

PingerRests == called /\ Idle /\ UNCHANGED pingerVars

PingerNext ==
    \/ HandleResolve
    \/ HandleWrite
    \/ \E d \in Destinations : \E n \in waiting[d] : HandleReceive(d, n)
    \/ \E d \in Destinations : \E n \in expired[d] : HandleTimeout(d, n)
    \/ \E d \in Destinations : HandleResend(d)
    \/ HandleGlobalTimeout
    \/ \E d \in Destinations : TimerExpires(d)
    \/ PingerRests

PingerSpec == PingerInit /\ [][PingerNext]_pingerVars

\* The global timer expires.  Names need not resolve and nobody has to answer.
FairPingerSpec == PingerSpec /\ WF_pingerVars(HandleGlobalTimeout)

-----------------------------------------------------------------------------
(* Properties.                                                             *)

\* Entries of the write queue that have not been started: all but the front one, as long
\* as the queue is worked on.
Unsent(d) ==
    Cardinality({i \in DOMAIN writeQueue : writeQueue[i] = d /\ i > 1})

\* Every result but the last leads to exactly one more ping.
ResultsLeadOn ==
    \A d \in Destinations :
        sent[d] + Unsent(d) + resend[d] + Aborted(d)
            = IF d >= resolving THEN 0
              ELSE IF Results(d) < MaxPings THEN Results(d) + 1 ELSE MaxPings

\* Every ping that has no reply is still in the map, timed out or not.
RepliesMatch ==
    \A d \in Destinations :
        waiting[d] \subseteq 1..sent[d] /\ replies[d] + Cardinality(waiting[d]) = sent[d]

\* Pings are neither lost nor made up, and a reply counts for one of them, whichever of
\* the reply, the timeout and a cancelled pause come first and however often a destination
\* is queued (HandleReceive, HandleTimeout, StartNextSend, QueueSend).
PingsAccounted == ResultsLeadOn /\ RepliesMatch

\* One write at a time, and the queue is worked on while the round lasts: HandleWrite
\* pops what StartNextSend sent (QueueSend, HandleWrite).
OneWrite ==
    /\ inFlight <= 1
    /\ ~called => (inFlight = 1 <=> writeQueue # <<>>)

\* A destination that was resolved and has results to come has a step of its own ahead:
\* in the queue, on its timer or in a ready handler (HandleTimeout, HandleReceive).
NoDestinationStalls ==
    \A d \in Destinations :
        ~called /\ d < resolving /\ Results(d) < MaxPings =>
            \/ \E i \in DOMAIN writeQueue : writeQueue[i] = d
            \/ timer[d] # "none"
            \/ sent[d] \in expired[d]
            \/ resend[d] > 0

\* Timeouts are those of pings that were sent (StartNextSend arms them), and what is
\* not resolved has no results (HandleResolve).
TimeoutsOfSent ==
    \A d \in Destinations :
        /\ expired[d] \subseteq 1..sent[d]
        /\ timer[d] = "timeout" => sent[d] > 0
        /\ d >= resolving => Results(d) = 0

\* NoDestinationStalls, where the front of the queue does not count: it was sent already.
StepAhead(d) == Unsent(d) > 0 \/ timer[d] # "none" \/ sent[d] \in expired[d] \/ resend[d] > 0
StepsAhead ==
    \A d \in Destinations :
        ~called /\ d < resolving /\ Results(d) < MaxPings => StepAhead(d)

\* The inductive invariant of PingerProofs.
PingerInv ==
    /\ PingerTypeOK
    /\ OneWrite
    /\ inFlight = 1 => writeQueue # <<>>
    /\ PingsAccounted
    /\ TimeoutsOfSent
    /\ StepsAhead

\* Whatever is resolved, sent or answered, a round is what PingServers takes it for: its
\* callback is called once, at the latest by the global timeout (Done).
Round == INSTANCE PingRound WITH answered <- called
RoundImplemented == Round!RoundSpec
=============================================================================
