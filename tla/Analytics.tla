------------------------------ MODULE Analytics -------------------------------
(***************************************************************************)
(* The queue of analytics hits (client/src/web/analytics.js).  Hits are    *)
(* posted in batches: a minute after the first one, or a second after a    *)
(* batch is full.  Each kind of timer has a variable of its own, so that   *)
(* the queue must never be left with both armed, or with none.             *)
(***************************************************************************)
EXTENDS Naturals, Sequences

CONSTANTS
    BatchSize,  \* hits in a batch, 20 in the code
    MaxHits     \* bound on the hits of a behaviour

ASSUME AnalyticsAssumption ==
    /\ BatchSize \in Nat \ {0, 1}
    /\ MaxHits \in Nat

VARIABLES
    enabled,           \* the user allows analytics
    hits,              \* queue: the numbers of the hits in it
    queueTimeout,      \* the timer of a minute is armed
    queueShortTimeout, \* the timer of a second is armed
    recorded,          \* how many hits there were
    posted             \* hit -> "waiting", "posted" or "terminated"

analyticsVars == <<enabled, hits, queueTimeout, queueShortTimeout, recorded, posted>>

Hits == 1..MaxHits

AnalyticsTypeOK ==
    /\ enabled \in BOOLEAN
    /\ hits \in Seq(Hits)
    /\ queueTimeout \in BOOLEAN /\ queueShortTimeout \in BOOLEAN
    /\ recorded \in 0..MaxHits
    /\ posted \in [Hits -> {"waiting", "posted", "terminated"}]

AnalyticsInit ==
    /\ enabled = FALSE
    /\ hits = <<>>
    /\ queueTimeout = FALSE /\ queueShortTimeout = FALSE
    /\ recorded = 0
    /\ posted = [h \in Hits |-> "waiting"]

-----------------------------------------------------------------------------
\* activate(): hits that are queued would be dropped without an answer.
Activate ==
    /\ ~enabled
    /\ enabled' = TRUE
    /\ hits' = <<>>
    /\ UNCHANGED <<queueTimeout, queueShortTimeout, recorded, posted>>

\* deactivate() and cancelQueue(): both timers are cleared, and the promises of
\* queued hits are rejected.
Deactivate ==
    /\ enabled
    /\ enabled' = FALSE
    /\ queueTimeout' = FALSE /\ queueShortTimeout' = FALSE
    /\ hits' = <<>>
    /\ posted' = [h \in Hits |-> IF \E i \in DOMAIN hits : hits[i] = h
                                 THEN "terminated" ELSE posted[h]]
    /\ UNCHANGED recorded

\* Timers after a hit made the queue n long: the hit that fills a batch
\* replaces the timer of a minute, and any other one is served by what is armed.
Armed(n) ==
    IF n = BatchSize
    THEN queueTimeout' = FALSE /\ queueShortTimeout' = TRUE
    ELSE /\ queueTimeout' = (queueTimeout \/ ~queueShortTimeout)
         /\ UNCHANGED queueShortTimeout

\* sendInternal, for a hit that is recorded while analytics are enabled.
Record ==
    /\ enabled
    /\ recorded < MaxHits
    /\ recorded' = recorded + 1
    /\ hits' = Append(hits, recorded')
    /\ Armed(Len(hits'))
    /\ UNCHANGED <<enabled, posted>>

-----------------------------------------------------------------------------
\* Mutant: what is left of a queue waits for the next hit.
NotRearmed(n) == queueTimeout' = FALSE /\ queueShortTimeout' = FALSE

\* Timers after processQueue left n hits: both were forgotten, one may be set.
Rearmed(n) ==
    /\ queueShortTimeout' = (n >= BatchSize)
    /\ queueTimeout' = (n \in 1..BatchSize - 1)

Batch == {hits[i] : i \in DOMAIN hits \intersect 1..BatchSize}

\* processQueue, when either timer fires.
ProcessQueue ==
    /\ queueTimeout \/ queueShortTimeout
    /\ hits' = SubSeq(hits, BatchSize + 1, Len(hits))
    /\ posted' = [h \in Hits |-> IF h \in Batch THEN "posted" ELSE posted[h]]
    /\ Rearmed(Len(hits'))
    /\ UNCHANGED <<enabled, recorded>>

AnalyticsNext == Activate \/ Deactivate \/ Record \/ ProcessQueue

\* Timers fire.
AnalyticsFairness == WF_analyticsVars(ProcessQueue)

AnalyticsSpec == AnalyticsInit /\ [][AnalyticsNext]_analyticsVars /\ AnalyticsFairness

-----------------------------------------------------------------------------
\* Hits that wait are served by one timer, the short one if they fill a batch,
\* and a timer is armed for nothing else: processQueue forgets both timers when
\* one fires, and a second one would later find an empty queue or post early.
OneTimer ==
    /\ hits # <<>> <=> queueTimeout \/ queueShortTimeout
    /\ ~(queueTimeout /\ queueShortTimeout)
    /\ Len(hits) >= BatchSize => queueShortTimeout

\* Every hit is in the queue once and in order, or was posted or terminated, and
\* none is posted after the user disabled analytics.
HitsAccounted ==
    /\ \A i, j \in DOMAIN hits : i < j => hits[i] < hits[j]
    /\ \A h \in 1..recorded : posted[h] = "waiting" <=> \E i \in DOMAIN hits : hits[i] = h
    /\ ~enabled => hits = <<>>

\* What is recorded is posted or terminated by a single armed timer, through any
\* order of hits, timers and changes of the user's mind.
QueueDrains == OneTimer /\ HitsAccounted

\* Numbers are given out in order, and what has none yet was not dealt with.
HitsNumbered ==
    /\ \A i \in DOMAIN hits : hits[i] <= recorded
    /\ \A h \in Hits : h > recorded => posted[h] = "waiting"

\* The inductive invariant of ClientProofs.
AnalyticsInv == AnalyticsTypeOK /\ QueueDrains /\ HitsNumbered
=============================================================================
