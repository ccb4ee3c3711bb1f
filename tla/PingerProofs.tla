---------------------------- MODULE PingerProofs ----------------------------
(***************************************************************************)
(* Proofs about Pinger, for any number of destinations and of pings, and   *)
(* about PingRounds, for every bound on the rounds that overlap.           *)
(***************************************************************************)
EXTENDS Pinger, PingRounds, FiniteSetTheorems, SequenceTheorems, TLAPS

\* Unsent, of any queue.
Behind(q, d) == {i \in DOMAIN q : q[i] = d /\ i > 1}

\* What is behind the front is counted.
LEMMA BehindFinite ==
    ASSUME NEW q \in Seq(Destinations), NEW d
    PROVE  IsFiniteSet(Behind(q, d)) /\ Cardinality(Behind(q, d)) \in Nat
<1>1. Len(q) \in Nat /\ DOMAIN q = 1..Len(q)
  BY LenProperties
<1>2. IsFiniteSet(1..Len(q))
  BY <1>1, FS_Interval
<1>3. Behind(q, d) \in SUBSET (1..Len(q))
  BY <1>1 DEF Behind
<1>. QED
  BY <1>2, <1>3, FS_Subset, FS_CardinalityType

\* Nothing is behind the front of an empty queue, or of one with a single entry.
LEMMA BehindNone ==
    ASSUME NEW d
    PROVE  /\ Cardinality(Behind(<<>>, d)) = 0
           /\ \A e : Cardinality(Behind(Append(<<>>, e), d)) = 0
<1>1. Behind(<<>>, d) = {}
  BY DEF Behind
<1>2. ASSUME NEW e PROVE Behind(Append(<<>>, e), d) = {}
  <2>1. DOMAIN Append(<<>>, e) = 1..1
    OBVIOUS
  <2>. QED
    BY <2>1 DEF Behind
<1>. QED
  BY <1>1, <1>2, FS_EmptySet

\* push_back, behind something.
LEMMA BehindAppend ==
    ASSUME NEW q \in Seq(Destinations), q # <<>>, NEW e \in Destinations, NEW d
    PROVE  Cardinality(Behind(Append(q, e), d))
               = Cardinality(Behind(q, d)) + (IF e = d THEN 1 ELSE 0)
<1>1. /\ Append(q, e) \in Seq(Destinations)
      /\ Len(Append(q, e)) = Len(q) + 1
      /\ \A i \in 1..Len(q) : Append(q, e)[i] = q[i]
      /\ Append(q, e)[Len(q) + 1] = e
  BY AppendProperties
<1>2. /\ Len(q) \in Nat \ {0} /\ DOMAIN q = 1..Len(q)
      /\ DOMAIN Append(q, e) = 1..(Len(q) + 1)
  BY <1>1, LenProperties, EmptySeq
<1>3. CASE e = d
  <2>1. Behind(Append(q, e), d) = Behind(q, d) \cup {Len(q) + 1}
    BY <1>1, <1>2, <1>3 DEF Behind
  <2>2. Len(q) + 1 \notin Behind(q, d)
    BY <1>2 DEF Behind
  <2>. QED
    BY <2>1, <2>2, <1>3, BehindFinite, FS_AddElement
<1>4. CASE e # d
  <2>1. Behind(Append(q, e), d) = Behind(q, d)
    BY <1>1, <1>2, <1>4 DEF Behind
  <2>. QED
    BY <2>1, <1>4, BehindFinite
<1>. QED
  BY <1>3, <1>4

\* pop_front: the second entry comes to the front.
LEMMA BehindTail ==
    ASSUME NEW q \in Seq(Destinations), q # <<>>, NEW d
    PROVE  /\ Tail(q) = <<>> => Cardinality(Behind(q, d)) = 0
           /\ Tail(q) # <<>> =>
                  Cardinality(Behind(q, d))
                      = Cardinality(Behind(Tail(q), d)) + (IF Head(Tail(q)) = d THEN 1 ELSE 0)
<1>1. /\ Tail(q) \in Seq(Destinations)
      /\ Len(Tail(q)) = Len(q) - 1
      /\ \A i \in 1..Len(Tail(q)) : Tail(q)[i] = q[i + 1]
  BY HeadTailProperties
<1>2. /\ Len(q) \in Nat \ {0} /\ DOMAIN q = 1..Len(q)
      /\ DOMAIN Tail(q) = 1..(Len(q) - 1)
  BY <1>1, LenProperties, EmptySeq
<1>3. ASSUME Tail(q) = <<>> PROVE Cardinality(Behind(q, d)) = 0
  <2>1. Len(Tail(q)) = 0
    BY <1>1, <1>3, EmptySeq, Zenon
  <2>2. Behind(q, d) = {}
    BY <2>1, <1>1, <1>2 DEF Behind
  <2>. QED
    BY <2>2, FS_EmptySet
<1>4. ASSUME Tail(q) # <<>>
      PROVE  Cardinality(Behind(q, d))
                 = Cardinality(Behind(Tail(q), d)) + (IF Head(Tail(q)) = d THEN 1 ELSE 0)
  <2>. DEFINE S == Behind(q, d) \ {2}
              T == Behind(Tail(q), d)
              f == [i \in T |-> i + 1]
  <2>1. Len(q) > 1 /\ Head(Tail(q)) = q[2]
    BY <1>1, <1>2, <1>4, LenProperties, EmptySeq, HeadTailProperties
  <2>2. f \in [T -> S]
    <3>1. ASSUME NEW i \in T PROVE i + 1 \in S
      BY <1>1, <1>2, <2>1 DEF Behind
    <3>. QED
      BY <3>1
  <2>3. \A i, j \in T : f[i] = f[j] => i = j
    BY <1>2 DEF Behind
  <2>4. \A i \in S : \E j \in T : f[j] = i
    <3>. SUFFICES ASSUME NEW i \in S PROVE i - 1 \in T /\ f[i - 1] = i
      OBVIOUS
    <3>1. i \in 1..Len(q) /\ q[i] = d /\ i > 2
      BY <1>2 DEF Behind
    <3>2. i - 1 \in 1..(Len(q) - 1) /\ Tail(q)[i - 1] = q[i]
      BY <3>1, <1>1, <1>2
    <3>. QED
      BY <3>1, <3>2, <1>2 DEF Behind
  <2>5. ExistsBijection(T, S)
    BY <2>2, <2>3, <2>4
       DEF ExistsBijection, Bijection, Injection, Surjection, IsInjective
  <2>. DEFINE all == Cardinality(Behind(q, d))
              rest == Cardinality(T)
  <2>6. Cardinality(S) = rest
    BY <2>5, <1>1, BehindFinite, FS_Bijection
  <2>7. 2 \in Behind(q, d) <=> Head(Tail(q)) = d
    BY <2>1, <1>2 DEF Behind
  <2>8. /\ 2 \in Behind(q, d) => Cardinality(S) = all - 1
        /\ 2 \notin Behind(q, d) => Cardinality(S) = all
    BY BehindFinite, FS_RemoveElement
  <2>9. all \in Nat /\ rest \in Nat
    BY <1>1, BehindFinite
  <2>10. /\ Head(Tail(q)) = d => rest = all - 1
         /\ Head(Tail(q)) # d => rest = all
    BY <2>6, <2>7, <2>8
  <2>. HIDE DEF all, rest, S, T, f
  <2>11. CASE Head(Tail(q)) = d
    <3>1. rest = all - 1
      BY <2>10, <2>11
    <3>2. all = rest + 1
      BY <3>1, <2>9
    <3>. QED
      BY <3>2, <2>11 DEF all, rest, T
  <2>12. CASE Head(Tail(q)) # d
    <3>1. rest = all
      BY <2>10, <2>12
    <3>2. all = rest + 0
      BY <3>1, <2>9
    <3>. QED
      BY <3>2, <2>12 DEF all, rest, T
  <2>. QED
    BY <2>11, <2>12
<1>. QED
  BY <1>3, <1>4

-----------------------------------------------------------------------------
(* Operations.                                                             *)

\* What a destination was asked to do and did.
Asked(d) == sent[d] + Unsent(d) + resend[d] + Aborted(d)

\* The map holds what was sent and not answered.
Matching(d) == waiting[d] \subseteq 1..sent[d] /\ replies[d] + Cardinality(waiting[d]) = sent[d]

\* A map of that kind is finite.
LEMMA WaitingFinite ==
    ASSUME NEW n \in Nat, NEW S, S \subseteq 1..n
    PROVE  IsFiniteSet(S) /\ Cardinality(S) \in Nat
<1>1. IsFiniteSet(1..n) /\ S \in SUBSET (1..n)
  BY FS_Interval
<1>. QED
  BY <1>1, FS_Subset, FS_CardinalityType

\* StartNextSend puts one more ping into the map and arms the timeout.
LEMMA SendStarted ==
    ASSUME PingerTypeOK, RepliesMatch, NEW h \in Destinations,
           NEW ready \in [Destinations -> Nat], StartNextSend(h, ready), UNCHANGED replies
    PROVE  /\ sent' \in [Destinations -> Nat] /\ waiting' \in [Destinations -> SUBSET Nat]
           /\ timer' \in [Destinations -> {"none", "timeout", "send"}]
           /\ resend' \in [Destinations -> Nat] /\ expired' = expired
           /\ RepliesMatch'
           /\ sent'[h] = sent[h] + 1 /\ timer'[h] = "timeout"
           /\ resend'[h] = ready[h] + Aborted(h)
           /\ \A d \in Destinations :
                 d # h => sent'[d] = sent[d] /\ timer'[d] = timer[d] /\ resend'[d] = ready[d]
<1>1. /\ sent' \in [Destinations -> Nat] /\ waiting' \in [Destinations -> SUBSET Nat]
      /\ timer' \in [Destinations -> {"none", "timeout", "send"}]
      /\ resend' \in [Destinations -> Nat] /\ expired' = expired
  BY DEF StartNextSend, PingerTypeOK, Aborted
<1>2. /\ sent'[h] = sent[h] + 1 /\ timer'[h] = "timeout"
      /\ resend'[h] = ready[h] + Aborted(h)
      /\ \A d \in Destinations :
            d # h => sent'[d] = sent[d] /\ timer'[d] = timer[d] /\ resend'[d] = ready[d]
  BY DEF StartNextSend, PingerTypeOK
<1>3. ASSUME NEW d \in Destinations PROVE Matching(d)'
  <2>1. Matching(d) /\ sent[d] \in Nat /\ replies[d] \in Nat
    BY DEF RepliesMatch, Matching, PingerTypeOK
  <2>2. IsFiniteSet(waiting[d]) /\ Cardinality(waiting[d]) \in Nat
    BY <2>1, WaitingFinite DEF Matching
  <2>3. CASE d = h
    <3>1. waiting'[d] = waiting[d] \cup {sent[d] + 1}
      BY <2>3 DEF StartNextSend, PingerTypeOK
    <3>2. sent[d] + 1 \notin waiting[d]
      BY <2>1 DEF Matching
    <3>3. Cardinality(waiting'[d]) = Cardinality(waiting[d]) + 1
      BY <3>1, <3>2, <2>2, FS_AddElement
    <3>4. waiting'[d] \subseteq 1..(sent[d] + 1)
      BY <3>1, <2>1 DEF Matching
    <3>. QED
      BY <3>3, <3>4, <2>1, <2>2, <2>3, <1>2 DEF Matching
  <2>4. CASE d # h
    <3>1. waiting'[d] = waiting[d]
      BY <2>4 DEF StartNextSend, PingerTypeOK
    <3>. QED
      BY <3>1, <2>1, <2>4, <1>2 DEF Matching
  <2>. QED
    BY <2>3, <2>4
<1>. QED
  BY <1>1, <1>2, <1>3 DEF RepliesMatch, Matching

\* QueueSend asks one thing more of its destination, starts the writing if nothing is
\* being written, and leaves the destination with a step ahead.
LEMMA QueueSent ==
    ASSUME PingerInv, NEW d \in Destinations, NEW ready \in [Destinations -> Nat],
           QueueSend(d, ready), UNCHANGED replies
    PROVE  /\ writeQueue' \in Seq(Destinations) /\ writeQueue' # <<>>
           /\ inFlight' \in 0..1 /\ (~called => inFlight' = 1)
           /\ sent' \in [Destinations -> Nat] /\ waiting' \in [Destinations -> SUBSET Nat]
           /\ timer' \in [Destinations -> {"none", "timeout", "send"}]
           /\ resend' \in [Destinations -> Nat] /\ expired' = expired
           /\ RepliesMatch'
           /\ Asked(d)' = sent[d] + Unsent(d) + ready[d] + Aborted(d) + 1
           /\ StepAhead(d)'
           /\ sent'[d] >= sent[d] /\ (timer'[d] = "timeout" => sent'[d] > 0)
           /\ \A e \in Destinations : e # d =>
                 /\ sent'[e] = sent[e] /\ timer'[e] = timer[e] /\ Unsent(e)' = Unsent(e)
                 /\ resend'[e] = ready[e]
<1>1. PingerTypeOK /\ RepliesMatch /\ TimeoutsOfSent
  BY DEF PingerInv, PingsAccounted
<1>2. writeQueue' = Append(writeQueue, d)
  BY DEF QueueSend
<1>3. writeQueue' \in Seq(Destinations) /\ writeQueue' # <<>>
  <2>1. writeQueue \in Seq(Destinations)
    BY <1>1 DEF PingerTypeOK
  <2>. QED
    BY <1>2, <2>1, AppendProperties
<1>4. \A e \in Destinations : /\ Unsent(e) = Cardinality(Behind(writeQueue, e))
                              /\ Unsent(e)' = Cardinality(Behind(writeQueue', e))
                              /\ Unsent(e) \in Nat
  BY <1>1, BehindFinite DEF Unsent, Behind, PingerTypeOK
<1>5. CASE First
  <2>1. writeQueue = <<>> /\ inFlight = 0
    BY <1>5, <1>1 DEF First, PingerInv, OneWrite, PingerTypeOK
  <2>2. Head(writeQueue') = d
    BY <2>1, <1>2
  <2>3. StartNextSend(d, ready) /\ inFlight' = 1
    BY <2>1, <2>2, <1>5 DEF QueueSend
  <2>4. /\ sent' \in [Destinations -> Nat] /\ waiting' \in [Destinations -> SUBSET Nat]
        /\ timer' \in [Destinations -> {"none", "timeout", "send"}]
        /\ resend' \in [Destinations -> Nat] /\ expired' = expired
        /\ RepliesMatch'
        /\ sent'[d] = sent[d] + 1 /\ timer'[d] = "timeout"
        /\ resend'[d] = ready[d] + Aborted(d)
        /\ \A e \in Destinations :
              e # d => sent'[e] = sent[e] /\ timer'[e] = timer[e] /\ resend'[e] = ready[e]
    BY <2>3, <1>1, SendStarted
  <2>5. \A e \in Destinations : Unsent(e) = 0 /\ Unsent(e)' = 0
    BY <2>1, <1>2, <1>4, BehindNone
  <2>6. Aborted(d)' = 0 /\ Aborted(d) \in {0, 1} /\ sent[d] \in Nat /\ ready[d] \in Nat
    BY <2>4, <1>1 DEF Aborted, PingerTypeOK
  <2>7. Asked(d)' = sent[d] + Unsent(d) + ready[d] + Aborted(d) + 1
    BY <2>4, <2>5, <2>6 DEF Asked
  <2>8. StepAhead(d)'
    BY <2>4 DEF StepAhead
  <2>9. sent'[d] >= sent[d] /\ sent'[d] > 0
    BY <2>4, <2>6
  <2>. QED
    BY <1>3, <2>3, <2>4, <2>5, <2>7, <2>8, <2>9
<1>6. CASE ~First
  <2>1. /\ resend' = ready
        /\ UNCHANGED <<inFlight, sent, waiting, timer, expired>>
    BY <1>6 DEF QueueSend
  <2>2. writeQueue # <<>> /\ inFlight \in 0..1 /\ (~called => inFlight = 1)
    BY <1>6, <1>1 DEF First, PingerInv, OneWrite, PingerTypeOK
  <2>3. /\ Unsent(d)' = Unsent(d) + 1
        /\ \A e \in Destinations : e # d => Unsent(e)' = Unsent(e)
    <3>1. \A e \in Destinations :
             Cardinality(Behind(Append(writeQueue, d), e))
                 = Cardinality(Behind(writeQueue, e)) + (IF d = e THEN 1 ELSE 0)
      BY <2>2, <1>1, BehindAppend DEF PingerTypeOK
    <3>2. \A e \in Destinations : Unsent(e)' = Unsent(e) + (IF d = e THEN 1 ELSE 0)
      BY <3>1, <1>2, <1>4
    <3>3. \A e \in Destinations : Unsent(e) \in Nat
      BY <1>4
    <3>. QED
      BY <3>2, <3>3
  <2>4. RepliesMatch'
    BY <2>1, <1>1 DEF RepliesMatch
  <2>5. Aborted(d)' = Aborted(d) /\ Aborted(d) \in {0, 1} /\ sent[d] \in Nat /\ ready[d] \in Nat
    BY <2>1, <1>1 DEF Aborted, PingerTypeOK
  <2>6. Asked(d)' = sent[d] + Unsent(d) + ready[d] + Aborted(d) + 1
    BY <2>1, <2>3, <2>5, <1>4 DEF Asked
  <2>7. StepAhead(d)'
    BY <2>3, <1>4 DEF StepAhead
  <2>8. timer[d] = "timeout" => sent[d] > 0
    BY <1>1 DEF TimeoutsOfSent
  <2>9. /\ sent' \in [Destinations -> Nat] /\ waiting' \in [Destinations -> SUBSET Nat]
        /\ timer' \in [Destinations -> {"none", "timeout", "send"}]
        /\ resend' \in [Destinations -> Nat]
    BY <1>1, <2>1 DEF PingerTypeOK
  <2>. QED
    BY <1>3, <2>1, <2>2, <2>3, <2>4, <2>5, <2>6, <2>7, <2>8, <2>9
<1>. QED
  BY <1>5, <1>6

-----------------------------------------------------------------------------
(* Handlers.                                                               *)

\* What a destination is owed by its results, once it is resolved.
Owed(d) == IF d >= resolving THEN 0 ELSE IF Results(d) < MaxPings THEN Results(d) + 1 ELSE MaxPings

\* Who was asked nothing has nothing.
LEMMA NothingAsked ==
    ASSUME NEW a \in Nat, NEW b \in Nat, NEW c \in Nat, NEW e \in Nat, a + b + c + e = 0
    PROVE  a = 0 /\ b = 0 /\ c = 0 /\ e = 0
OBVIOUS

\* The invariant, of one destination.
LEMMA OneDestination ==
    ASSUME PingerInv, NEW d \in Destinations
    PROVE  /\ sent[d] \in Nat /\ resend[d] \in Nat /\ Unsent(d) \in Nat /\ Aborted(d) \in {0, 1}
           /\ replies[d] \in Nat /\ timeouts[d] \in Nat /\ Results(d) \in Nat
           /\ Asked(d) = Owed(d) /\ Matching(d)
           /\ d >= resolving => sent[d] = 0 /\ Results(d) = 0 /\ resend[d] = 0 /\ Aborted(d) = 0
           /\ d \in Nat /\ resolving \in Nat /\ MaxPings \in Nat \ {0}
<1>1. PingerTypeOK /\ PingsAccounted /\ TimeoutsOfSent
  BY DEF PingerInv
<1>2. /\ sent[d] \in Nat /\ resend[d] \in Nat /\ Aborted(d) \in {0, 1}
      /\ replies[d] \in Nat /\ timeouts[d] \in Nat /\ Results(d) \in Nat
  BY <1>1 DEF PingerTypeOK, Aborted, Results
<1>3. Unsent(d) \in Nat
  BY <1>1, BehindFinite DEF Unsent, Behind, PingerTypeOK
<1>4. d \in Nat /\ resolving \in Nat /\ MaxPings \in Nat \ {0}
  BY <1>1, PingerAssumption DEF PingerTypeOK, Destinations
<1>5. Asked(d) = Owed(d) /\ Matching(d)
  BY <1>1 DEF PingsAccounted, ResultsLeadOn, RepliesMatch, Asked, Owed, Matching
<1>6. d >= resolving => Results(d) = 0
  BY <1>1 DEF TimeoutsOfSent
<1>7. ASSUME d >= resolving PROVE sent[d] = 0 /\ resend[d] = 0 /\ Aborted(d) = 0
  <2>1. sent[d] + Unsent(d) + resend[d] + Aborted(d) = 0
    BY <1>5, <1>7 DEF Asked, Owed
  <2>2. Aborted(d) \in Nat /\ sent[d] \in Nat /\ resend[d] \in Nat /\ Unsent(d) \in Nat
    BY <1>2, <1>3
  <2>. QED
    BY <2>1, <2>2, NothingAsked
<1>. QED
  BY <1>2, <1>3, <1>4, <1>5, <1>6, <1>7

LEMMA PingerInitInv == ASSUME PingerInit PROVE PingerInv
<1>. USE PingerAssumption
<1>1. PingerTypeOK
  BY EmptySeq DEF PingerInit, PingerTypeOK
<1>2. \A d \in Destinations : d \in Nat /\ d >= 1 /\ Unsent(d) = 0 /\ Cardinality({}) = 0
  BY BehindNone, FS_EmptySet DEF PingerInit, Unsent, Behind, Destinations
<1>3. OneWrite /\ (inFlight = 1 => writeQueue # <<>>)
  BY DEF PingerInit, OneWrite
<1>4. PingsAccounted
  BY <1>2 DEF PingerInit, PingsAccounted, ResultsLeadOn, RepliesMatch, Aborted
<1>5. TimeoutsOfSent
  BY DEF PingerInit, TimeoutsOfSent, Results
<1>6. StepsAhead
  BY <1>2 DEF PingerInit, StepsAhead
<1>. QED
  BY <1>1, <1>3, <1>4, <1>5, <1>6 DEF PingerInv

\* HandleResolve: the new destination has its first ping, and only that.
LEMMA HandleResolveInv == ASSUME PingerInv, HandleResolve PROVE PingerInv'
<1>1. PingerTypeOK /\ TimeoutsOfSent /\ StepsAhead /\ ~called
  BY DEF PingerInv, HandleResolve
<1>2. PICK d \in Destinations : d = resolving /\ QueueSend(d, resend)
  BY <1>1, PingerAssumption DEF HandleResolve, ToResolve, PingerTypeOK, Destinations
<1>3. /\ resolving' = d + 1 /\ d + 1 \in 1..(N + 1) /\ resend \in [Destinations -> Nat]
      /\ UNCHANGED <<replies, timeouts, globalTimer, called>>
  BY <1>1, <1>2, PingerAssumption DEF HandleResolve, statVars, PingerTypeOK, Destinations
<1>4. /\ writeQueue' \in Seq(Destinations) /\ writeQueue' # <<>> /\ inFlight' = 1
      /\ sent' \in [Destinations -> Nat] /\ waiting' \in [Destinations -> SUBSET Nat]
      /\ timer' \in [Destinations -> {"none", "timeout", "send"}]
      /\ resend' \in [Destinations -> Nat] /\ expired' = expired
      /\ RepliesMatch' /\ Asked(d)' = Asked(d) + 1 /\ StepAhead(d)'
      /\ sent'[d] >= sent[d] /\ (timer'[d] = "timeout" => sent'[d] > 0)
      /\ \A e \in Destinations : e # d =>
            /\ sent'[e] = sent[e] /\ timer'[e] = timer[e] /\ Unsent(e)' = Unsent(e)
            /\ resend'[e] = resend[e]
  BY <1>1, <1>2, <1>3, QueueSent DEF Asked
<1>5. PingerTypeOK'
  BY <1>1, <1>3, <1>4 DEF PingerTypeOK
<1>6. OneWrite' /\ (inFlight' = 1 => writeQueue' # <<>>)
  BY <1>4 DEF OneWrite
<1>7. ASSUME NEW e \in Destinations PROVE (Asked(e) = Owed(e))'
  <2>1. Results(e)' = Results(e) /\ Asked(e) = Owed(e) /\ Results(e) \in Nat
    BY <1>3, OneDestination DEF Results
  <2>2. e \in Nat /\ resolving \in Nat /\ MaxPings \in Nat \ {0}
    BY OneDestination
  <2>3. CASE e = d
    <3>1. Asked(e) = 0 /\ Results(e) = 0
      BY <2>1, <2>2, <2>3, <1>2, OneDestination DEF Owed
    <3>. QED
      BY <3>1, <2>1, <2>2, <2>3, <1>2, <1>3, <1>4 DEF Owed
  <2>4. CASE e # d
    <3>1. Asked(e)' = Asked(e)
      BY <2>4, <1>4 DEF Asked, Aborted
    <3>2. e >= resolving' <=> e >= resolving
      BY <2>2, <2>4, <1>2, <1>3
    <3>. QED
      BY <3>1, <3>2, <2>1 DEF Owed
  <2>. QED
    BY <2>3, <2>4
<1>8. TimeoutsOfSent'
  <2>. SUFFICES ASSUME NEW e \in Destinations
                PROVE  /\ expired'[e] \subseteq 1..sent'[e]
                       /\ timer'[e] = "timeout" => sent'[e] > 0
                       /\ e >= resolving' => Results(e)' = 0
    BY DEF TimeoutsOfSent
  <2>1. /\ expired[e] \subseteq 1..sent[e] /\ (timer[e] = "timeout" => sent[e] > 0)
        /\ sent[e] \in Nat /\ sent'[e] \in Nat
    BY <1>1, <1>4 DEF TimeoutsOfSent, PingerTypeOK
  <2>2. e >= resolving' => Results(e)' = 0
    <3>1. Results(e)' = Results(e) /\ (e >= resolving => Results(e) = 0)
      BY <1>3, OneDestination DEF Results
    <3>2. e >= resolving' => e >= resolving
      BY <1>2, <1>3, OneDestination
    <3>. QED
      BY <3>1, <3>2
  <2>3. expired'[e] = expired[e]
    BY <1>4
  <2>4. CASE e = d
    BY <2>1, <2>2, <2>3, <2>4, <1>4
  <2>5. CASE e # d
    BY <2>1, <2>2, <2>3, <2>5, <1>4
  <2>. QED
    BY <2>4, <2>5
<1>9. StepsAhead'
  <2>. SUFFICES ASSUME NEW e \in Destinations, e < resolving', Results(e)' < MaxPings
                PROVE  StepAhead(e)'
    BY DEF StepsAhead
  <2>1. CASE e = d
    BY <2>1, <1>4
  <2>2. CASE e # d
    <3>1. e < resolving /\ Results(e) < MaxPings
      BY <2>2, <1>2, <1>3, OneDestination DEF Results
    <3>2. StepAhead(e)
      BY <3>1, <1>1 DEF StepsAhead
    <3>. QED
      BY <3>2, <2>2, <1>4 DEF StepAhead
  <2>. QED
    BY <2>1, <2>2
<1>. QED
  BY <1>4, <1>5, <1>6, <1>7, <1>8, <1>9
     DEF PingerInv, PingsAccounted, ResultsLeadOn, Asked, Owed

\* HandleResend: a ready handler becomes an entry of the queue, or a ping.
LEMMA HandleResendInv ==
    ASSUME PingerInv, NEW d \in Destinations, HandleResend(d) PROVE PingerInv'
<1>. DEFINE ready == [resend EXCEPT ![d] = @ - 1]
<1>1. PingerTypeOK /\ TimeoutsOfSent /\ StepsAhead
  BY DEF PingerInv
<1>2. /\ QueueSend(d, ready) /\ resend[d] > 0
      /\ UNCHANGED <<resolving, replies, timeouts, globalTimer, called>>
  BY DEF HandleResend, statVars
<1>3. /\ ready \in [Destinations -> Nat] /\ ready[d] = resend[d] - 1
      /\ \A e \in Destinations : e # d => ready[e] = resend[e]
  BY <1>1, <1>2 DEF PingerTypeOK
<1>. HIDE DEF ready
<1>4. /\ writeQueue' \in Seq(Destinations) /\ writeQueue' # <<>>
      /\ inFlight' \in 0..1 /\ (~called => inFlight' = 1)
      /\ sent' \in [Destinations -> Nat] /\ waiting' \in [Destinations -> SUBSET Nat]
      /\ timer' \in [Destinations -> {"none", "timeout", "send"}]
      /\ resend' \in [Destinations -> Nat] /\ expired' = expired
      /\ RepliesMatch'
      /\ Asked(d)' = sent[d] + Unsent(d) + ready[d] + Aborted(d) + 1
      /\ StepAhead(d)'
      /\ sent'[d] >= sent[d] /\ (timer'[d] = "timeout" => sent'[d] > 0)
      /\ \A e \in Destinations : e # d =>
            /\ sent'[e] = sent[e] /\ timer'[e] = timer[e] /\ Unsent(e)' = Unsent(e)
            /\ resend'[e] = resend[e]
  BY <1>2, <1>3, QueueSent
<1>5. PingerTypeOK'
  <2>1. inFlight' \in Nat
    BY <1>4
  <2>2. expired' \in [Destinations -> SUBSET Nat]
    BY <1>1, <1>4 DEF PingerTypeOK
  <2>. QED
    BY <2>1, <2>2, <1>1, <1>2, <1>4 DEF PingerTypeOK
<1>6. OneWrite' /\ (inFlight' = 1 => writeQueue' # <<>>)
  BY <1>2, <1>4 DEF OneWrite
<1>7. ASSUME NEW e \in Destinations PROVE (Asked(e) = Owed(e))'
  <2>1. Owed(e)' = Owed(e) /\ Asked(e) = Owed(e)
    BY <1>2, OneDestination DEF Owed, Results
  <2>2. CASE e = d
    <3>1. /\ sent[d] \in Nat /\ resend[d] \in Nat /\ Unsent(d) \in Nat /\ Aborted(d) \in Nat
      BY OneDestination
    <3>2. sent[d] + Unsent(d) + (resend[d] - 1) + Aborted(d) + 1
              = sent[d] + Unsent(d) + resend[d] + Aborted(d)
      BY <3>1
    <3>. QED
      BY <3>2, <2>1, <2>2, <1>3, <1>4 DEF Asked
  <2>3. CASE e # d
    <3>1. Asked(e)' = Asked(e)
      BY <2>3, <1>4 DEF Asked, Aborted
    <3>. QED
      BY <3>1, <2>1
  <2>. QED
    BY <2>2, <2>3
<1>8. TimeoutsOfSent'
  <2>. SUFFICES ASSUME NEW e \in Destinations
                PROVE  /\ expired'[e] \subseteq 1..sent'[e]
                       /\ timer'[e] = "timeout" => sent'[e] > 0
                       /\ e >= resolving' => Results(e)' = 0
    BY DEF TimeoutsOfSent
  <2>1. /\ expired[e] \subseteq 1..sent[e] /\ (timer[e] = "timeout" => sent[e] > 0)
        /\ sent[e] \in Nat /\ sent'[e] \in Nat
    BY <1>1, <1>4 DEF TimeoutsOfSent, PingerTypeOK
  <2>2. e >= resolving' => Results(e)' = 0
    BY <1>1, <1>2 DEF TimeoutsOfSent, Results
  <2>3. expired'[e] = expired[e]
    BY <1>4
  <2>4. CASE e = d
    BY <2>1, <2>2, <2>3, <2>4, <1>4
  <2>5. CASE e # d
    BY <2>1, <2>2, <2>3, <2>5, <1>4
  <2>. QED
    BY <2>4, <2>5
<1>9. StepsAhead'
  <2>. SUFFICES ASSUME NEW e \in Destinations, ~called', e < resolving', Results(e)' < MaxPings
                PROVE  StepAhead(e)'
    BY DEF StepsAhead
  <2>1. CASE e = d
    BY <2>1, <1>4
  <2>2. CASE e # d
    <3>1. StepAhead(e)
      BY <1>1, <1>2 DEF StepsAhead, Results
    <3>. QED
      BY <3>1, <2>2, <1>4 DEF StepAhead
  <2>. QED
    BY <2>1, <2>2
<1>. QED
  BY <1>4, <1>5, <1>6, <1>7, <1>8, <1>9
     DEF PingerInv, PingsAccounted, ResultsLeadOn, Asked, Owed

\* HandleWrite: what was sent is popped, and what is behind it is sent.
LEMMA HandleWriteInv == ASSUME PingerInv, HandleWrite PROVE PingerInv'
<1>1. PingerTypeOK /\ RepliesMatch /\ TimeoutsOfSent /\ StepsAhead /\ OneWrite
  BY DEF PingerInv, PingsAccounted
<1>2. UNCHANGED <<resolving, replies, timeouts, globalTimer>> /\ inFlight = 1 /\ writeQueue # <<>>
  BY <1>1 DEF HandleWrite, statVars, PingerInv, PingerTypeOK, OneWrite
<1>3. \A e \in Destinations : Owed(e)' = Owed(e) /\ Results(e)' = Results(e)
  BY <1>2 DEF Owed, Results
<1>4. ASSUME called, inFlight' = inFlight - 1, UNCHANGED <<writeQueue, destVars, called>>
      PROVE  PingerInv'
  <2>1. inFlight' = 0
    BY <1>2, <1>4
  <2>2. PingerTypeOK' /\ OneWrite'
    BY <2>1, <1>1, <1>2, <1>4 DEF PingerTypeOK, OneWrite, destVars
  <2>3. PingsAccounted' /\ TimeoutsOfSent' /\ StepsAhead'
    BY <1>2, <1>4
       DEF PingerInv, PingsAccounted, ResultsLeadOn, RepliesMatch, TimeoutsOfSent, StepsAhead,
           StepAhead, Unsent, Aborted, Results, destVars
  <2>. QED
    BY <2>1, <2>2, <2>3 DEF PingerInv
<1>5. ASSUME ~called, writeQueue' = Tail(writeQueue), writeQueue' # <<>>,
             StartNextSend(Head(writeQueue'), resend), UNCHANGED <<inFlight, called>>
      PROVE  PingerInv'
  <2>1. writeQueue' \in Seq(Destinations)
    BY <1>1, <1>2, <1>5, HeadTailProperties DEF PingerTypeOK
  <2>2. PICK h \in Destinations : h = Head(writeQueue')
    BY <2>1, <1>5, HeadTailProperties
  <2>3. StartNextSend(h, resend) /\ resend \in [Destinations -> Nat]
    BY <2>2, <1>1, <1>5 DEF PingerTypeOK
  <2>4. /\ sent' \in [Destinations -> Nat] /\ waiting' \in [Destinations -> SUBSET Nat]
        /\ timer' \in [Destinations -> {"none", "timeout", "send"}]
        /\ resend' \in [Destinations -> Nat] /\ expired' = expired
        /\ RepliesMatch'
        /\ sent'[h] = sent[h] + 1 /\ timer'[h] = "timeout"
        /\ resend'[h] = resend[h] + Aborted(h)
        /\ \A e \in Destinations :
              e # h => sent'[e] = sent[e] /\ timer'[e] = timer[e] /\ resend'[e] = resend[e]
    BY <2>3, <1>1, <1>2, SendStarted
  <2>5. PingerTypeOK' /\ OneWrite'
    BY <2>1, <2>4, <1>1, <1>2, <1>5 DEF PingerTypeOK, OneWrite
  <2>6. ASSUME NEW e \in Destinations
        PROVE  /\ Unsent(e) \in Nat /\ Unsent(e)' \in Nat
               /\ e = h => Unsent(e) = Unsent(e)' + 1
               /\ e # h => Unsent(e)' = Unsent(e)
    <3>1. /\ Unsent(e) = Cardinality(Behind(writeQueue, e))
          /\ Unsent(e)' = Cardinality(Behind(writeQueue', e))
      BY DEF Unsent, Behind
    <3>2. Unsent(e) \in Nat /\ Unsent(e)' \in Nat
      BY <3>1, <2>1, <1>1, BehindFinite DEF PingerTypeOK
    <3>3. Cardinality(Behind(writeQueue, e))
              = Cardinality(Behind(writeQueue', e)) + (IF h = e THEN 1 ELSE 0)
      BY <2>2, <1>1, <1>2, <1>5, BehindTail DEF PingerTypeOK
    <3>. QED
      BY <3>1, <3>2, <3>3
  <2>7. ASSUME NEW e \in Destinations PROVE (Asked(e) = Owed(e))'
    <3>1. Asked(e) = Owed(e)
      BY OneDestination
    <3>2. CASE e = h
      <4>1. /\ sent[e] \in Nat /\ resend[e] \in Nat /\ Unsent(e)' \in Nat /\ Aborted(e) \in Nat
        BY <2>6, OneDestination
      <4>2. Aborted(e)' = 0
        BY <3>2, <2>4 DEF Aborted
      <4>3. (sent[e] + 1) + Unsent(e)' + (resend[e] + Aborted(e)) + 0
                = sent[e] + (Unsent(e)' + 1) + resend[e] + Aborted(e)
        BY <4>1
      <4>. QED
        BY <3>1, <3>2, <4>2, <4>3, <2>4, <2>6, <1>3 DEF Asked
    <3>3. CASE e # h
      BY <3>1, <3>3, <2>4, <2>6, <1>3 DEF Asked, Aborted
    <3>. QED
      BY <3>2, <3>3
  <2>8. TimeoutsOfSent'
    <3>. SUFFICES ASSUME NEW e \in Destinations
                  PROVE  /\ expired'[e] \subseteq 1..sent'[e]
                         /\ timer'[e] = "timeout" => sent'[e] > 0
                         /\ e >= resolving' => Results(e)' = 0
      BY DEF TimeoutsOfSent
    <3>1. /\ expired[e] \subseteq 1..sent[e] /\ (timer[e] = "timeout" => sent[e] > 0)
          /\ sent[e] \in Nat /\ sent'[e] \in Nat
      BY <1>1, <2>4 DEF TimeoutsOfSent, PingerTypeOK
    <3>2. e >= resolving' => Results(e)' = 0
      BY <1>1, <1>2, <1>3 DEF TimeoutsOfSent
    <3>3. sent'[e] >= sent[e] /\ expired'[e] = expired[e]
      BY <3>1, <2>4
    <3>. QED
      BY <3>1, <3>2, <3>3, <2>4
  <2>9. StepsAhead'
    <3>. SUFFICES ASSUME NEW e \in Destinations, e < resolving', Results(e)' < MaxPings
                  PROVE  StepAhead(e)'
      BY DEF StepsAhead
    <3>1. CASE e = h
      BY <3>1, <2>4 DEF StepAhead
    <3>2. CASE e # h
      <4>1. StepAhead(e)
        BY <1>1, <1>2, <1>3, <1>5 DEF StepsAhead
      <4>. QED
        BY <4>1, <3>2, <2>4, <2>6 DEF StepAhead
    <3>. QED
      BY <3>1, <3>2
  <2>. QED
    BY <2>4, <2>5, <2>7, <2>8, <2>9, <1>2, <1>5
       DEF PingerInv, PingsAccounted, ResultsLeadOn, Asked, Owed
<1>6. ASSUME ~called, writeQueue' = Tail(writeQueue), writeQueue' = <<>>,
             inFlight' = inFlight - 1, called' \in BOOLEAN, UNCHANGED destVars
      PROVE  PingerInv'
  <2>1. inFlight' = 0
    BY <1>2, <1>6
  <2>2. PingerTypeOK'
    <3>1. writeQueue' \in Seq(Destinations)
      BY <1>6, EmptySeq
    <3>. QED
      BY <3>1, <2>1, <1>1, <1>2, <1>6 DEF PingerTypeOK, destVars
  <2>3. OneWrite'
    BY <2>1, <1>6 DEF OneWrite
  <2>4. \A e \in Destinations : Unsent(e) = 0 /\ Unsent(e)' = 0
    <3>1. \A e \in Destinations : /\ Unsent(e) = Cardinality(Behind(writeQueue, e))
                                  /\ Unsent(e)' = Cardinality(Behind(writeQueue', e))
      BY DEF Unsent, Behind
    <3>2. \A e \in Destinations : Cardinality(Behind(writeQueue, e)) = 0
      BY <1>1, <1>2, <1>6, BehindTail DEF PingerTypeOK
    <3>. QED
      BY <3>1, <3>2, <1>6, BehindNone
  <2>5. PingsAccounted'
    <3>1. RepliesMatch'
      BY <1>1, <1>2, <1>6 DEF RepliesMatch, destVars
    <3>2. ASSUME NEW e \in Destinations PROVE (Asked(e) = Owed(e))'
      <4>1. Asked(e) = Owed(e)
        BY OneDestination
      <4>. QED
        BY <4>1, <2>4, <1>3, <1>6 DEF Asked, Aborted, destVars
    <3>. QED
      BY <3>1, <3>2 DEF PingsAccounted, ResultsLeadOn, Asked, Owed
  <2>6. TimeoutsOfSent'
    BY <1>1, <1>2, <1>3, <1>6 DEF TimeoutsOfSent, destVars
  <2>7. StepsAhead'
    BY <2>4, <1>1, <1>2, <1>3, <1>6 DEF StepsAhead, StepAhead, destVars
  <2>. QED
    BY <2>1, <2>2, <2>3, <2>5, <2>6, <2>7 DEF PingerInv
<1>7. AllSettled(<<>>, waiting) \in BOOLEAN
  BY DEF AllSettled
<1>. QED
  BY <1>4, <1>5, <1>6, <1>7 DEF HandleWrite

\* One more result of a destination that was resolved.
LEMMA ResultCounted ==
    ASSUME PingerInv, NEW d \in Destinations, UNCHANGED resolving,
           d < resolving, Results(d)' = Results(d) + 1,
           Asked(d)' = Asked(d) + (IF More(Results(d) + 1) THEN 1 ELSE 0)
    PROVE  (Asked(d) = Owed(d))'
<1>1. /\ Asked(d) = Owed(d) /\ Results(d) \in Nat /\ MaxPings \in Nat \ {0}
      /\ ~(d >= resolving) /\ ~(d >= resolving')
  BY OneDestination
<1>2. CASE Results(d) + 1 < MaxPings
  <2>1. Owed(d) = Results(d) + 1 /\ Owed(d)' = Results(d) + 1 + 1
    BY <1>1, <1>2 DEF Owed
  <2>. QED
    BY <2>1, <1>1, <1>2 DEF More
<1>3. CASE ~(Results(d) + 1 < MaxPings)
  <2>1. Owed(d) = MaxPings /\ Owed(d)' = MaxPings
    BY <1>1, <1>3 DEF Owed
  <2>. QED
    BY <2>1, <1>1, <1>3 DEF More
<1>. QED
  BY <1>2, <1>3

\* HandleReceive: the ping leaves the map and counts as a reply; a pause that was running
\* becomes a handler, and another begins if there is more to do.
LEMMA HandleReceiveInv ==
    ASSUME PingerInv, NEW d \in Destinations, NEW n \in waiting[d], HandleReceive(d, n)
    PROVE  PingerInv'
<1>1. PingerTypeOK /\ RepliesMatch /\ TimeoutsOfSent /\ StepsAhead /\ OneWrite /\ ~called
  BY DEF PingerInv, PingsAccounted, HandleReceive
<1>2. /\ UNCHANGED <<resolving, writeQueue, inFlight, sent, expired, timeouts, globalTimer>>
      /\ replies' = [replies EXCEPT ![d] = @ + 1]
      /\ waiting' = [waiting EXCEPT ![d] = @ \ {n}]
      /\ resend' = [resend EXCEPT ![d] = @ + Aborted(d)]
      /\ timer' = [timer EXCEPT ![d] = IF More(Results(d) + 1) THEN "send" ELSE "none"]
      /\ called' \in BOOLEAN
  BY DEF HandleReceive, Erased, queueVars, AllSettled
<1>3. PingerTypeOK' /\ OneWrite' /\ (inFlight' = 1 => writeQueue' # <<>>)
  <2>1. resend' \in [Destinations -> Nat]
    BY <1>1, <1>2 DEF PingerTypeOK, Aborted
  <2>2. PingerTypeOK'
    BY <2>1, <1>1, <1>2 DEF PingerTypeOK
  <2>. QED
    BY <2>2, <1>1, <1>2 DEF OneWrite, PingerInv
<1>4. d < resolving /\ sent[d] > 0
  <2>1. sent[d] > 0
    BY <1>1, OneDestination DEF RepliesMatch, PingerTypeOK
  <2>. QED
    BY <2>1, OneDestination
<1>5. \A e \in Destinations : Unsent(e)' = Unsent(e)
  BY <1>2 DEF Unsent
<1>6. Results(d)' = Results(d) + 1
  BY <1>1, <1>2 DEF Results, PingerTypeOK
<1>7. \A e \in Destinations : e # d =>
         /\ Results(e)' = Results(e) /\ waiting'[e] = waiting[e] /\ replies'[e] = replies[e]
         /\ resend'[e] = resend[e] /\ timer'[e] = timer[e]
  BY <1>1, <1>2 DEF Results, PingerTypeOK
<1>8. ASSUME NEW e \in Destinations PROVE (Asked(e) = Owed(e))'
  <2>1. CASE e = d
    <3>1. /\ sent[d] \in Nat /\ resend[d] \in Nat /\ Unsent(d) \in Nat /\ Aborted(d) \in Nat
      BY OneDestination
    <3>2. resend'[d] = resend[d] + Aborted(d)
      BY <1>1, <1>2 DEF PingerTypeOK
    <3>3. Aborted(d)' = IF More(Results(d) + 1) THEN 1 ELSE 0
      BY <1>1, <1>2 DEF Aborted, PingerTypeOK
    <3>4. Asked(d)' = sent[d] + Unsent(d) + (resend[d] + Aborted(d)) + Aborted(d)'
      BY <3>2, <1>2, <1>5 DEF Asked
    <3>5. Asked(d)' = Asked(d) + (IF More(Results(d) + 1) THEN 1 ELSE 0)
      BY <3>1, <3>3, <3>4 DEF Asked
    <3>. QED
      BY <3>5, <2>1, <1>2, <1>4, <1>6, ResultCounted
  <2>2. CASE e # d
    <3>1. Asked(e)' = Asked(e) /\ Owed(e)' = Owed(e)
      BY <2>2, <1>2, <1>5, <1>7 DEF Asked, Owed, Aborted
    <3>. QED
      BY <3>1, OneDestination
  <2>. QED
    BY <2>1, <2>2
<1>9. ASSUME NEW e \in Destinations PROVE Matching(e)'
  <2>1. Matching(e) /\ sent[e] \in Nat /\ replies[e] \in Nat
    BY OneDestination
  <2>2. CASE e = d
    <3>1. waiting'[d] = waiting[d] \ {n} /\ replies'[d] = replies[d] + 1
      BY <1>1, <1>2 DEF PingerTypeOK
    <3>2. IsFiniteSet(waiting[d]) /\ Cardinality(waiting[d]) \in Nat
      BY <2>1, <2>2, WaitingFinite DEF Matching
    <3>3. Cardinality(waiting'[d]) = Cardinality(waiting[d]) - 1
      BY <3>1, <3>2, FS_RemoveElement
    <3>4. replies'[d] + Cardinality(waiting'[d]) = sent'[d]
      BY <3>1, <3>2, <3>3, <2>1, <2>2, <1>2 DEF Matching
    <3>. QED
      BY <3>1, <3>4, <2>1, <2>2, <1>2 DEF Matching
  <2>3. CASE e # d
    BY <2>1, <2>3, <1>2, <1>7 DEF Matching
  <2>. QED
    BY <2>2, <2>3
<1>10. TimeoutsOfSent'
  <2>. SUFFICES ASSUME NEW e \in Destinations
                PROVE  /\ expired'[e] \subseteq 1..sent'[e]
                       /\ timer'[e] = "timeout" => sent'[e] > 0
                       /\ e >= resolving' => Results(e)' = 0
    BY DEF TimeoutsOfSent
  <2>1. CASE e = d
    BY <2>1, <1>1, <1>2, <1>4, OneDestination DEF TimeoutsOfSent
  <2>2. CASE e # d
    BY <2>2, <1>1, <1>2, <1>7 DEF TimeoutsOfSent
  <2>. QED
    BY <2>1, <2>2
<1>11. StepsAhead'
  <2>. SUFFICES ASSUME NEW e \in Destinations, e < resolving', Results(e)' < MaxPings
                PROVE  StepAhead(e)'
    BY DEF StepsAhead
  <2>1. CASE e = d
    <3>1. timer'[e] = "send"
      BY <2>1, <1>1, <1>2, <1>6 DEF More, PingerTypeOK
    <3>. QED
      BY <3>1 DEF StepAhead
  <2>2. CASE e # d
    <3>1. StepAhead(e)
      BY <2>2, <1>1, <1>2, <1>7 DEF StepsAhead
    <3>. QED
      BY <3>1, <2>2, <1>2, <1>5, <1>7 DEF StepAhead
  <2>. QED
    BY <2>1, <2>2
<1>. QED
  BY <1>3, <1>8, <1>9, <1>10, <1>11
     DEF PingerInv, PingsAccounted, ResultsLeadOn, RepliesMatch, Asked, Owed, Matching

\* HandleTimeout: a ping that was the last one counts as lost, and the pause begins; one
\* that was not leaves no trace.
LEMMA HandleTimeoutInv ==
    ASSUME PingerInv, NEW d \in Destinations, NEW n \in expired[d], HandleTimeout(d, n)
    PROVE  PingerInv'
<1>1. PingerTypeOK /\ RepliesMatch /\ TimeoutsOfSent /\ StepsAhead /\ OneWrite
  BY DEF PingerInv, PingsAccounted
<1>2. /\ UNCHANGED <<resolving, writeQueue, inFlight, sent, waiting, replies, globalTimer>>
      /\ expired' = [expired EXCEPT ![d] = @ \ {n}]
  BY DEF HandleTimeout, queueVars
<1>3. RepliesMatch' /\ \A e \in Destinations : Unsent(e)' = Unsent(e)
  BY <1>1, <1>2 DEF RepliesMatch, Unsent
<1>4. \A e \in Destinations : /\ expired'[e] \subseteq expired[e]
                              /\ e # d => expired'[e] = expired[e]
  BY <1>1, <1>2 DEF PingerTypeOK
<1>5. ASSUME called \/ n # sent[d], UNCHANGED <<timeouts, timer, resend, called>>
      PROVE  PingerInv'
  <2>1. PingerTypeOK' /\ OneWrite' /\ (inFlight' = 1 => writeQueue' # <<>>)
    BY <1>1, <1>2, <1>5 DEF PingerTypeOK, OneWrite, PingerInv
  <2>2. \A e \in Destinations : (Asked(e) = Owed(e))'
    <3>1. \A e \in Destinations : Asked(e)' = Asked(e) /\ Owed(e)' = Owed(e)
      BY <1>2, <1>3, <1>5 DEF Asked, Owed, Aborted, Results
    <3>. QED
      BY <3>1, OneDestination
  <2>3. TimeoutsOfSent'
    BY <1>1, <1>2, <1>4, <1>5 DEF TimeoutsOfSent, Results
  <2>4. StepsAhead'
    <3>. SUFFICES ASSUME NEW e \in Destinations, ~called', e < resolving',
                         Results(e)' < MaxPings
                  PROVE  StepAhead(e)'
      BY DEF StepsAhead
    <3>1. StepAhead(e)
      BY <1>1, <1>2, <1>5 DEF StepsAhead, Results
    <3>2. sent[e] \in expired[e] => sent[e] \in expired'[e]
      BY <1>1, <1>2, <1>4, <1>5 DEF PingerTypeOK
    <3>. QED
      BY <3>1, <3>2, <1>2, <1>3, <1>5 DEF StepAhead
  <2>. QED
    BY <2>1, <2>2, <2>3, <2>4, <1>3
       DEF PingerInv, PingsAccounted, ResultsLeadOn, Asked, Owed
<1>6. ASSUME ~called, n = sent[d],
             timeouts' = [timeouts EXCEPT ![d] = @ + 1],
             timer' = [timer EXCEPT ![d] = AfterTimeout(d)],
             resend' = [resend EXCEPT ![d] = @ + IF More(Results(d) + 1) THEN Aborted(d) ELSE 0],
             called' \in BOOLEAN
      PROVE  PingerInv'
  <2>1. AfterTimeout(d) = IF More(Results(d) + 1) THEN "send" ELSE timer[d]
    BY DEF AfterTimeout
  <2>2. PingerTypeOK' /\ OneWrite' /\ (inFlight' = 1 => writeQueue' # <<>>)
    <3>1. resend' \in [Destinations -> Nat]
      BY <1>1, <1>6 DEF PingerTypeOK, Aborted
    <3>2. /\ expired' \in [Destinations -> SUBSET Nat]
          /\ timeouts' \in [Destinations -> Nat]
      BY <1>1, <1>2, <1>6 DEF PingerTypeOK
    <3>3. timer' \in [Destinations -> {"none", "timeout", "send"}]
      BY <2>1, <1>1, <1>6 DEF PingerTypeOK
    <3>4. PingerTypeOK'
      BY <3>1, <3>2, <3>3, <1>1, <1>2, <1>6 DEF PingerTypeOK
    <3>. QED
      BY <3>4, <1>1, <1>2, <1>6 DEF OneWrite, PingerInv
  <2>3. d < resolving /\ sent[d] > 0
    <3>1. sent[d] > 0
      BY <1>1, OneDestination DEF TimeoutsOfSent, PingerTypeOK
    <3>. QED
      BY <3>1, OneDestination
  <2>4. Results(d)' = Results(d) + 1
    BY <1>1, <1>2, <1>6 DEF Results, PingerTypeOK
  <2>5. \A e \in Destinations : e # d =>
           Results(e)' = Results(e) /\ resend'[e] = resend[e] /\ timer'[e] = timer[e]
    BY <1>1, <1>2, <1>6 DEF Results, PingerTypeOK
  <2>6. ASSUME NEW e \in Destinations PROVE (Asked(e) = Owed(e))'
    <3>1. CASE e = d
      <4>1. /\ sent[d] \in Nat /\ resend[d] \in Nat /\ Unsent(d) \in Nat /\ Aborted(d) \in Nat
        BY OneDestination
      <4>2. Asked(d)' = sent[d] + Unsent(d) + resend'[d] + Aborted(d)'
        BY <1>2, <1>3 DEF Asked
      <4>3. CASE More(Results(d) + 1)
        <5>1. resend'[d] = resend[d] + Aborted(d) /\ Aborted(d)' = 1
          BY <4>3, <2>1, <1>1, <1>6 DEF Aborted, PingerTypeOK
        <5>2. Asked(d)' = Asked(d) + 1
          BY <5>1, <4>1, <4>2 DEF Asked
        <5>. QED
          BY <5>2, <4>3, <3>1, <2>3, <2>4, <1>2, ResultCounted
      <4>4. CASE ~More(Results(d) + 1)
        <5>1. resend'[d] = resend[d] + 0 /\ Aborted(d)' = Aborted(d)
          BY <4>4, <2>1, <1>1, <1>6 DEF Aborted, PingerTypeOK
        <5>2. Asked(d)' = Asked(d) + 0
          BY <5>1, <4>1, <4>2 DEF Asked
        <5>. QED
          BY <5>2, <4>4, <3>1, <2>3, <2>4, <1>2, ResultCounted
      <4>. QED
        BY <4>3, <4>4
    <3>2. CASE e # d
      <4>1. Asked(e)' = Asked(e) /\ Owed(e)' = Owed(e)
        BY <3>2, <2>5, <1>2, <1>3 DEF Asked, Owed, Aborted
      <4>. QED
        BY <4>1, OneDestination
    <3>. QED
      BY <3>1, <3>2
  <2>7. TimeoutsOfSent'
    <3>. SUFFICES ASSUME NEW e \in Destinations
                  PROVE  /\ expired'[e] \subseteq 1..sent'[e]
                         /\ timer'[e] = "timeout" => sent'[e] > 0
                         /\ e >= resolving' => Results(e)' = 0
      BY DEF TimeoutsOfSent
    <3>1. expired'[e] \subseteq 1..sent'[e]
      BY <1>1, <1>2, <1>4 DEF TimeoutsOfSent
    <3>2. CASE e = d
      BY <3>1, <3>2, <2>3, <1>2, OneDestination
    <3>3. CASE e # d
      BY <3>1, <3>3, <2>5, <1>1, <1>2 DEF TimeoutsOfSent
    <3>. QED
      BY <3>2, <3>3
  <2>8. StepsAhead'
    <3>. SUFFICES ASSUME NEW e \in Destinations, e < resolving', Results(e)' < MaxPings
                  PROVE  StepAhead(e)'
      BY DEF StepsAhead
    <3>1. CASE e = d
      <4>1. timer'[e] = "send"
        BY <3>1, <2>1, <2>4, <1>1, <1>6 DEF More, PingerTypeOK
      <4>. QED
        BY <4>1 DEF StepAhead
    <3>2. CASE e # d
      <4>1. StepAhead(e)
        BY <3>2, <2>5, <1>1, <1>2, <1>6 DEF StepsAhead
      <4>. QED
        BY <4>1, <3>2, <2>5, <1>2, <1>3, <1>4 DEF StepAhead
    <3>. QED
      BY <3>1, <3>2
  <2>. QED
    BY <2>2, <2>6, <2>7, <2>8, <1>3
       DEF PingerInv, PingsAccounted, ResultsLeadOn, Asked, Owed
<1>7. AllSettled(writeQueue, waiting) \in BOOLEAN
  BY DEF AllSettled
<1>. QED
  BY <1>5, <1>6, <1>7 DEF HandleTimeout

\* HandleGlobalTimeout: pauses become handlers, and the round is over.
LEMMA HandleGlobalTimeoutInv == ASSUME PingerInv, HandleGlobalTimeout PROVE PingerInv'
<1>1. PingerTypeOK /\ RepliesMatch /\ TimeoutsOfSent /\ StepsAhead /\ OneWrite
  BY DEF PingerInv, PingsAccounted
<1>2. /\ UNCHANGED <<resolving, writeQueue, inFlight, sent, waiting, expired, replies, timeouts>>
      /\ globalTimer' = FALSE /\ called' = TRUE
      /\ \/ called /\ UNCHANGED <<timer, resend>>
         \/ /\ timer' = [d \in Destinations |-> "none"]
            /\ resend' = [d \in Destinations |-> resend[d] + Aborted(d)]
  BY <1>1 DEF HandleGlobalTimeout, CalledByTimeout, queueVars, statVars, PingerTypeOK
<1>3. PingerTypeOK' /\ OneWrite' /\ (inFlight' = 1 => writeQueue' # <<>>)
  <2>1. resend' \in [Destinations -> Nat]
    <3>1. \A d \in Destinations : resend[d] + Aborted(d) \in Nat
      BY <1>1 DEF PingerTypeOK, Aborted
    <3>. QED
      BY <3>1, <1>1, <1>2 DEF PingerTypeOK
  <2>2. PingerTypeOK'
    BY <2>1, <1>1, <1>2 DEF PingerTypeOK
  <2>. QED
    BY <2>2, <1>1, <1>2 DEF OneWrite, PingerInv
<1>4. RepliesMatch' /\ TimeoutsOfSent' /\ StepsAhead'
  BY <1>1, <1>2 DEF RepliesMatch, TimeoutsOfSent, StepsAhead, Results
<1>5. ASSUME NEW d \in Destinations PROVE (Asked(d) = Owed(d))'
  <2>1. Owed(d)' = Owed(d) /\ Unsent(d)' = Unsent(d)
    BY <1>2 DEF Owed, Results, Unsent
  <2>2. sent[d] \in Nat /\ resend[d] \in Nat /\ Unsent(d) \in Nat /\ Aborted(d) \in Nat
    BY OneDestination
  <2>3. CASE UNCHANGED <<timer, resend>>
    BY <2>1, <2>3, <1>2, OneDestination DEF Asked, Aborted
  <2>4. CASE /\ timer' = [e \in Destinations |-> "none"]
             /\ resend' = [e \in Destinations |-> resend[e] + Aborted(e)]
    <3>1. resend'[d] = resend[d] + Aborted(d) /\ Aborted(d)' = 0
      BY <2>4 DEF Aborted
    <3>2. Asked(d)' = sent[d] + Unsent(d) + (resend[d] + Aborted(d)) + 0
      BY <3>1, <2>1, <1>2 DEF Asked
    <3>3. Asked(d)' = Asked(d)
      BY <3>2, <2>2 DEF Asked
    <3>. QED
      BY <3>3, <2>1, OneDestination
  <2>. QED
    BY <2>3, <2>4, <1>2
<1>. QED
  BY <1>3, <1>4, <1>5 DEF PingerInv, PingsAccounted, ResultsLeadOn, Asked, Owed

\* A timer that expires leaves a handler, with its ping or with its pause.
LEMMA TimerExpiresInv ==
    ASSUME PingerInv, NEW d \in Destinations, TimerExpires(d) PROVE PingerInv'
<1>1. PingerTypeOK /\ RepliesMatch /\ TimeoutsOfSent /\ StepsAhead /\ OneWrite
  BY DEF PingerInv, PingsAccounted
<1>2. /\ UNCHANGED <<resolving, writeQueue, inFlight, sent, waiting, replies, timeouts,
                     globalTimer, called>>
      /\ timer[d] # "none" /\ timer' = [timer EXCEPT ![d] = "none"]
      /\ expired' = [expired EXCEPT ![d] = IF timer[d] = "timeout" THEN @ \cup {sent[d]} ELSE @]
      /\ resend' = [resend EXCEPT ![d] = @ + Aborted(d)]
  BY DEF TimerExpires, queueVars, statVars
<1>3. PingerTypeOK' /\ OneWrite' /\ (inFlight' = 1 => writeQueue' # <<>>)
  <2>1. resend' \in [Destinations -> Nat] /\ expired' \in [Destinations -> SUBSET Nat]
    BY <1>1, <1>2 DEF PingerTypeOK, Aborted
  <2>2. PingerTypeOK'
    BY <2>1, <1>1, <1>2 DEF PingerTypeOK
  <2>. QED
    BY <2>2, <1>1, <1>2 DEF OneWrite, PingerInv
<1>4. \A e \in Destinations :
         /\ Unsent(e)' = Unsent(e) /\ Results(e)' = Results(e) /\ Owed(e)' = Owed(e)
         /\ e # d => resend'[e] = resend[e] /\ timer'[e] = timer[e] /\ expired'[e] = expired[e]
  BY <1>1, <1>2 DEF Unsent, Results, Owed, PingerTypeOK
<1>5. /\ resend'[d] = resend[d] + Aborted(d) /\ Aborted(d)' = 0 /\ timer'[d] = "none"
      /\ expired'[d] = IF timer[d] = "timeout" THEN expired[d] \cup {sent[d]} ELSE expired[d]
  BY <1>1, <1>2 DEF Aborted, PingerTypeOK
<1>6. ASSUME NEW e \in Destinations PROVE (Asked(e) = Owed(e))'
  <2>1. CASE e = d
    <3>1. sent[d] \in Nat /\ resend[d] \in Nat /\ Unsent(d) \in Nat /\ Aborted(d) \in Nat
      BY OneDestination
    <3>2. Asked(d)' = sent[d] + Unsent(d) + (resend[d] + Aborted(d)) + 0
      BY <1>2, <1>4, <1>5 DEF Asked
    <3>3. Asked(d)' = Asked(d)
      BY <3>1, <3>2 DEF Asked
    <3>. QED
      BY <3>3, <2>1, <1>4, OneDestination
  <2>2. CASE e # d
    <3>1. Asked(e)' = Asked(e)
      BY <2>2, <1>2, <1>4 DEF Asked, Aborted
    <3>. QED
      BY <3>1, <1>4, OneDestination
  <2>. QED
    BY <2>1, <2>2
<1>7. TimeoutsOfSent' /\ RepliesMatch'
  <2>1. sent[d] \in Nat /\ (timer[d] = "timeout" => sent[d] > 0)
    BY <1>1 DEF TimeoutsOfSent, PingerTypeOK
  <2>2. expired'[d] \subseteq 1..sent'[d]
    BY <2>1, <1>1, <1>2, <1>5 DEF TimeoutsOfSent
  <2>. QED
    BY <2>2, <1>1, <1>2, <1>4, <1>5 DEF TimeoutsOfSent, RepliesMatch
<1>8. StepsAhead'
  <2>. SUFFICES ASSUME NEW e \in Destinations, ~called', e < resolving', Results(e)' < MaxPings
                PROVE  StepAhead(e)'
    BY DEF StepsAhead
  <2>1. CASE e = d
    <3>1. CASE timer[d] = "timeout"
      BY <2>1, <3>1, <1>2, <1>5 DEF StepAhead
    <3>2. CASE timer[d] = "send"
      <4>1. resend[d] \in Nat /\ resend'[d] = resend[d] + 1
        BY <3>2, <1>1, <1>5 DEF Aborted, PingerTypeOK
      <4>. QED
        BY <4>1, <2>1 DEF StepAhead
    <3>. QED
      BY <3>1, <3>2, <1>1, <1>2 DEF PingerTypeOK
  <2>2. CASE e # d
    <3>1. StepAhead(e)
      BY <1>1, <1>2, <1>4 DEF StepsAhead
    <3>. QED
      BY <3>1, <2>2, <1>2, <1>4 DEF StepAhead
  <2>. QED
    BY <2>1, <2>2
<1>. QED
  BY <1>3, <1>6, <1>7, <1>8 DEF PingerInv, PingsAccounted, ResultsLeadOn, Asked, Owed

\* Every handler, and stuttering.
LEMMA PingerStepInv == ASSUME PingerInv, [PingerNext]_pingerVars PROVE PingerInv'
<1>1. CASE UNCHANGED pingerVars
  BY <1>1
     DEF pingerVars, queueVars, destVars, statVars, PingerInv, PingerTypeOK, OneWrite,
         PingsAccounted, ResultsLeadOn, RepliesMatch, TimeoutsOfSent, StepsAhead, StepAhead,
         Unsent, Aborted, Results
<1>. QED
  BY <1>1, HandleResolveInv, HandleWriteInv, HandleReceiveInv, HandleTimeoutInv,
     HandleResendInv, HandleGlobalTimeoutInv, TimerExpiresInv DEF PingerNext, PingerRests

-----------------------------------------------------------------------------
(* Theorems.                                                               *)

\* The invariant holds whatever order resolver, socket and timers come in.
THEOREM PingerInvariance == PingerSpec => []PingerInv
<1>. QED
  BY PingerInitInv, PingerStepInv, PTL DEF PingerSpec

\* Pings are neither lost nor made up, and a reply counts once (HandleReceive,
\* HandleTimeout, StartNextSend, QueueSend).
THEOREM PingsAreAccounted == PingerSpec => []PingsAccounted
<1>1. PingerInv => PingsAccounted
  BY DEF PingerInv
<1>. QED
  BY <1>1, PingerInvariance, PTL

\* The queue has one write at a time (QueueSend, HandleWrite).
THEOREM OneWriteAtATime == PingerSpec => []OneWrite
<1>1. PingerInv => OneWrite
  BY DEF PingerInv
<1>. QED
  BY <1>1, PingerInvariance, PTL

\* What is behind the front of the queue is in the queue.
LEMMA StepIsAhead == ASSUME PingerInv PROVE NoDestinationStalls
<1>. SUFFICES ASSUME NEW d \in Destinations, ~called, d < resolving, Results(d) < MaxPings,
                     Unsent(d) > 0
              PROVE  \E i \in DOMAIN writeQueue : writeQueue[i] = d
  BY DEF PingerInv, StepsAhead, StepAhead, NoDestinationStalls
<1>1. Behind(writeQueue, d) # {}
  BY FS_EmptySet DEF Unsent, Behind
<1>. QED
  BY <1>1 DEF Behind

\* No destination waits for nothing while the round lasts (HandleTimeout, HandleReceive).
THEOREM DestinationsGoOn == PingerSpec => []NoDestinationStalls
  BY StepIsAhead, PingerInvariance, PTL

\* A round is a step or a stutter of what PingServers takes it for: the callback is called
\* at most once (Done).  That it is called needs fairness, and is left to the run.
THEOREM CalledOnce == PingerSpec => Round!RoundInit /\ [][Round!Answer]_called
<1>1. PingerInit => Round!RoundInit
  BY DEF PingerInit, Round!RoundInit
<1>2. ASSUME PingerInv, PingerInv', [PingerNext]_pingerVars PROVE [Round!Answer]_called
  <2>. SUFFICES ASSUME called, ~called' PROVE FALSE
    BY <1>2 DEF PingerInv, PingerTypeOK, Round!Answer
  <2>. QED
    BY <1>2
       DEF PingerNext, HandleResolve, HandleWrite, HandleReceive, HandleTimeout, HandleResend,
           HandleGlobalTimeout, TimerExpires, PingerRests, pingerVars
<1>. QED
  BY <1>1, <1>2, PingerInvariance, PTL DEF PingerSpec

-----------------------------------------------------------------------------
(* The rounds of the daemon (PingRounds).                                  *)

\* What PingServers leaves, called by any handler that keeps the daemon's own state:
\* without a connection a round or a timer, otherwise everything as it was.
LEMMA PingServersEffect ==
    ASSUME RoundsTypeOK, PingServers
    PROVE  /\ rounds' \in 0..MaxRounds
           /\ leaving \/ ~disconnected => UNCHANGED pingVars
           /\ ~leaving /\ disconnected =>
                \/ rounds' # 0 /\ updating' = TRUE /\ scheduled' = FALSE /\ pingTimer' = FALSE
                \/ updating' = FALSE /\ scheduled' = TRUE /\ pingTimer' = TRUE
<1>1. CASE leaving \/ ~disconnected
  BY <1>1, Zenon DEF RoundsTypeOK, PingServers, pingVars
<1>2. CASE /\ ~leaving /\ disconnected
           /\ rounds < MaxRounds /\ rounds' = rounds + 1
           /\ updating' = TRUE /\ scheduled' = FALSE /\ pingTimer' = FALSE
  <2>1. rounds' \in 0..MaxRounds /\ rounds' # 0
    BY <1>2, RoundsAssumption DEF RoundsTypeOK
  <2>. QED
    BY <1>2, <2>1, Zenon
<1>3. CASE /\ ~leaving /\ disconnected
           /\ updating' = FALSE /\ scheduled' = TRUE /\ pingTimer' = TRUE
           /\ rounds' = rounds
  BY <1>3, Zenon DEF RoundsTypeOK
<1>. QED
  BY <1>1, <1>2, <1>3, Zenon DEF PingServers, ScheduleNext, NotScheduled, Updated

\* The handlers' view of the clients, the connection and the timers is right at first.
LEMMA RoundsInitInv == ASSUME RoundsInit PROVE RoundsInv
<1>1. 0 \in 0..MaxRounds
  BY RoundsAssumption
<1>. QED
  BY <1>1, Zenon
     DEF RoundsInit, RoundsInv, RoundsTypeOK, PingingGoesOn, UpdatingEnds, TimerIsScheduled,
         ScheduledIsPending

\* A handler that calls PingServers keeps the invariant, whatever it was called for.
LEMMA PingServersInv ==
    ASSUME RoundsInv, PingServers, leaving' = leaving, disconnected' = disconnected,
           attached' \in BOOLEAN, changed' \in BOOLEAN, due' \in 0..MaxRounds
    PROVE  RoundsInv'
<1>. USE Zenon
     DEF RoundsInv, RoundsTypeOK, PingingGoesOn, UpdatingEnds, TimerIsScheduled,
         ScheduledIsPending, pingVars
<1>1. RoundsTypeOK
  OBVIOUS
<1>2. CASE leaving \/ ~disconnected
  <2>1. UNCHANGED <<rounds, updating, scheduled, pingTimer>>
    BY <1>2 DEF PingServers
  <2>. QED
    BY <1>2, <2>1
<1>3. CASE ~leaving /\ disconnected
  <2>1. /\ rounds' \in 0..MaxRounds
        /\ \/ rounds' # 0 /\ updating' = TRUE /\ scheduled' = FALSE /\ pingTimer' = FALSE
           \/ updating' = FALSE /\ scheduled' = TRUE /\ pingTimer' = TRUE
    BY <1>1, <1>3, PingServersEffect
  <2>. QED
    BY <1>3, <2>1
<1>. QED
  BY <1>2, <1>3

\* Every handler and every event of the daemon keeps the invariant.
LEMMA RoundsNextInv == ASSUME RoundsInv, [RoundsNext]_roundsVars PROVE RoundsInv'
<1>. USE Zenon
     DEF RoundsInv, RoundsTypeOK, PingingGoesOn, UpdatingEnds, TimerIsScheduled,
         ScheduledIsPending, hostVars, pingVars
<1>1. CASE RoundAnswers
  <2>1. rounds' \in 0..MaxRounds
    BY <1>1, RoundsAssumption, SMT DEF RoundAnswers
  <2>. QED
    BY <1>1, <2>1 DEF RoundAnswers, ScheduleNext, Updated
<1>2. CASE FirstClientConnects
  BY <1>2, PingServersInv DEF FirstClientConnects
<1>3. CASE LastClientLeaves
  BY <1>3 DEF LastClientLeaves, CancelTimer
<1>4. CASE ConnectionChanges
  BY <1>4 DEF ConnectionChanges
<1>5. CASE LocationsChange
  BY <1>5 DEF LocationsChange
<1>6. CASE NotifyOfChange
  BY <1>6, PingServersInv DEF NotifyOfChange
<1>7. CASE PingTimerExpires
  <2>1. due' \in 0..MaxRounds /\ due' # 0
    BY <1>7, RoundsAssumption, SMT DEF PingTimerExpires
  <2>. QED
    BY <1>7, <2>1 DEF PingTimerExpires
<1>8. CASE PingTimerHandler
  <2>1. due' \in 0..MaxRounds
    BY <1>8, RoundsAssumption, SMT DEF PingTimerHandler
  <2>. QED
    BY <1>8, <2>1, PingServersInv DEF PingTimerHandler
<1>9. CASE ShutdownRequested
  BY <1>9 DEF ShutdownRequested
<1>10. CASE UNCHANGED roundsVars
  BY <1>10 DEF roundsVars
<1>. QED
  BY <1>1, <1>2, <1>3, <1>4, <1>5, <1>6, <1>7, <1>8, <1>9, <1>10 DEF RoundsNext

\* PingServers, its timer and the callback of a round keep each other going through every
\* change of clients and connection.
THEOREM RoundsInvariance == RoundsSpec => []RoundsInv
<1>1. RoundsInit => RoundsInv
  BY RoundsInitInv
<1>2. RoundsInv /\ [RoundsNext]_roundsVars => RoundsInv'
  BY RoundsNextInv
<1>. QED
  BY <1>1, <1>2, PTL DEF RoundsSpec

\* With a client and no connection the servers are pinged again and again
\* (PingServers, ScheduleNextPingServers, NotifyChanges).
THEOREM PingsGoOn == RoundsSpec => []PingingGoesOn
<1>1. RoundsInv => PingingGoesOn
  BY DEF RoundsInv
<1>. QED
  BY <1>1, RoundsInvariance, PTL

\* "updating" is never left set, since the callback of the last round clears it, and an
\* armed timer is a scheduled one (PingServers, ScheduleNextPingServers,
\* OnLastClientDisconnected).
THEOREM RoundFlagsTell == RoundsSpec => []RoundFlagsAgree
<1>1. RoundsInv => RoundFlagsAgree
  BY DEF RoundsInv, RoundFlagsAgree
<1>. QED
  BY <1>1, RoundsInvariance, PTL
=============================================================================
