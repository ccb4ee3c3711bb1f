----------------------------- MODULE ClientProofs -----------------------------
(***************************************************************************)
(* Proofs about parts of the client: Analytics, for every size of a batch  *)
(* and every bound on the hits, Install, Transition, for every finite set  *)
(* of children, Login, for any flows and any depth of a chain, the types   *)
(* of AppLifecycle, and what all of them keep where they are together.     *)
(***************************************************************************)
EXTENDS MCClient, Integers, SequenceTheorems, FiniteSetTheorems, TLAPS

-----------------------------------------------------------------------------
(* Analytics.                                                              *)

\* The timers of an empty queue that nobody has touched.
LEMMA AnalyticsInitInv == ASSUME AnalyticsInit PROVE AnalyticsInv
<1>. USE DEF Hits
<1>1. AnalyticsTypeOK
  <2>1. recorded \in 0..MaxHits /\ hits \in Seq(1..MaxHits)
    BY AnalyticsAssumption DEF AnalyticsInit
  <2>. QED
    BY <2>1 DEF AnalyticsInit, AnalyticsTypeOK
<1>2. OneTimer
  <2>1. ~(Len(hits) >= BatchSize)
    BY AnalyticsAssumption DEF AnalyticsInit
  <2>. QED
    BY <2>1 DEF AnalyticsInit, OneTimer
<1>3. HitsAccounted
  BY AnalyticsAssumption DEF AnalyticsInit, HitsAccounted
<1>4. HitsNumbered
  BY AnalyticsAssumption DEF AnalyticsInit, HitsNumbered
<1>. QED
  BY <1>1, <1>2, <1>3, <1>4 DEF AnalyticsInv, QueueDrains

\* activate(): the queue is empty already, since deactivate() emptied it.
LEMMA ActivateInv == ASSUME AnalyticsInv, Activate PROVE AnalyticsInv'
<1>1. hits = <<>>
  BY DEF AnalyticsInv, QueueDrains, HitsAccounted, Activate
<1>2. hits' = hits
  BY <1>1 DEF Activate
<1>. QED
  BY <1>1, <1>2
     DEF Activate, AnalyticsInv, AnalyticsTypeOK, QueueDrains, OneTimer, HitsAccounted,
         HitsNumbered, Hits

\* deactivate(): what was in the queue is terminated, and no timer is left.
LEMMA DeactivateInv == ASSUME AnalyticsInv, Deactivate PROVE AnalyticsInv'
<1>. USE DEF Hits
<1>1. AnalyticsTypeOK'
  <2>1. hits' \in Seq(1..MaxHits)
    BY DEF Deactivate
  <2>2. posted' \in [1..MaxHits -> {"waiting", "posted", "terminated"}]
    BY DEF Deactivate, AnalyticsInv, AnalyticsTypeOK
  <2>. QED
    BY <2>1, <2>2 DEF Deactivate, AnalyticsInv, AnalyticsTypeOK
<1>2. OneTimer'
  <2>1. hits' = <<>>
    BY DEF Deactivate
  <2>2. ~(Len(hits') >= BatchSize)
    BY <2>1, AnalyticsAssumption
  <2>. QED
    BY <2>1, <2>2 DEF Deactivate, OneTimer
<1>3. HitsAccounted'
  BY AnalyticsAssumption
     DEF Deactivate, AnalyticsInv, AnalyticsTypeOK, QueueDrains, HitsAccounted
<1>4. HitsNumbered'
  BY AnalyticsAssumption DEF Deactivate, AnalyticsInv, AnalyticsTypeOK, HitsNumbered
<1>. QED
  BY <1>1, <1>2, <1>3, <1>4 DEF AnalyticsInv, QueueDrains

\* sendInternal: the new hit is the last one and is served by the timer that is armed
\* afterwards.
LEMMA RecordInv == ASSUME AnalyticsInv, Record PROVE AnalyticsInv'
<1>. USE DEF Hits
<1>. DEFINE n == Len(hits)
<1>1. /\ hits \in Seq(1..MaxHits) /\ n \in Nat
      /\ recorded \in Nat /\ recorded' = recorded + 1 /\ recorded' \in 1..MaxHits
  BY AnalyticsAssumption DEF Record, AnalyticsInv, AnalyticsTypeOK
<1>2. /\ hits' \in Seq(1..MaxHits)
      /\ Len(hits') = n + 1
      /\ \A i \in 1..n : hits'[i] = hits[i]
      /\ hits'[n + 1] = recorded'
  BY <1>1 DEF Record
<1>3. /\ DOMAIN hits = 1..n
      /\ DOMAIN hits' = 1..(n + 1)
  BY <1>1, <1>2
<1>A. \A i \in 1..n : hits[i] \in Nat /\ hits[i] <= recorded
  <2>1. \A i \in 1..n : hits[i] \in 1..MaxHits
    BY <1>1, ElementOfSeq
  <2>2. \A i \in 1..n : hits[i] <= recorded
    BY <1>3 DEF AnalyticsInv, HitsNumbered
  <2>. QED
    BY <2>1, <2>2
<1>4. AnalyticsTypeOK'
  <2>1. queueTimeout' \in BOOLEAN /\ queueShortTimeout' \in BOOLEAN
    BY DEF Record, Armed, AnalyticsInv, AnalyticsTypeOK
  <2>. QED
    BY <1>1, <1>2, <2>1 DEF Record, AnalyticsInv, AnalyticsTypeOK
<1>5. OneTimer'
  <2>1. hits' # <<>>
    BY <1>2, <1>1
  <2>2. CASE n + 1 = BatchSize
    <3>1. queueTimeout' = FALSE /\ queueShortTimeout' = TRUE
      BY <2>2, <1>2 DEF Record, Armed
    <3>. QED
      BY <2>1, <3>1 DEF OneTimer
  <2>3. CASE n + 1 # BatchSize /\ queueShortTimeout
    <3>1. queueShortTimeout' = TRUE /\ queueTimeout' = FALSE
      BY <2>3, <1>2 DEF Record, Armed, AnalyticsInv, AnalyticsTypeOK, QueueDrains, OneTimer
    <3>. QED
      BY <2>1, <3>1 DEF OneTimer
  <2>4. CASE n + 1 # BatchSize /\ ~queueShortTimeout
    <3>1. queueShortTimeout' = FALSE /\ queueTimeout' = TRUE
      BY <2>4, <1>2 DEF Record, Armed, AnalyticsInv, AnalyticsTypeOK
    <3>2. ~(n >= BatchSize)
      BY <2>4 DEF AnalyticsInv, QueueDrains, OneTimer
    <3>3. ~(Len(hits') >= BatchSize)
      BY <3>2, <2>4, <1>1, <1>2, AnalyticsAssumption
    <3>. QED
      BY <2>1, <3>1, <3>3 DEF OneTimer
  <2>. QED
    BY <2>2, <2>3, <2>4
<1>6. HitsAccounted'
  <2>1. \A i, j \in DOMAIN hits' : i < j => hits'[i] < hits'[j]
    <3>. SUFFICES ASSUME NEW i \in 1..(n + 1), NEW j \in 1..(n + 1), i < j
                  PROVE  hits'[i] < hits'[j]
      BY <1>3
    <3>1. i \in 1..n
      BY <1>1
    <3>2. CASE j = n + 1
      BY <3>1, <3>2, <1>1, <1>2, <1>A
    <3>3. CASE j \in 1..n
      BY <3>1, <3>3, <1>2, <1>3 DEF AnalyticsInv, QueueDrains, HitsAccounted
    <3>. QED
      BY <3>2, <3>3, <1>1
  <2>2. \A h \in 1..recorded' :
           posted'[h] = "waiting" <=> \E i \in DOMAIN hits' : hits'[i] = h
    <3>. SUFFICES ASSUME NEW h \in 1..recorded'
                  PROVE  posted'[h] = "waiting" <=> \E i \in DOMAIN hits' : hits'[i] = h
      OBVIOUS
    <3>1. CASE h = recorded'
      <4>1. posted[h] = "waiting"
        BY <3>1, <1>1 DEF AnalyticsInv, HitsNumbered
      <4>. QED
        BY <3>1, <4>1, <1>1, <1>2, <1>3 DEF Record
    <3>2. CASE h # recorded'
      <4>1. h \in 1..recorded
        BY <3>2, <1>1
      <4>2. posted[h] = "waiting" <=> \E i \in DOMAIN hits : hits[i] = h
        BY <4>1 DEF AnalyticsInv, QueueDrains, HitsAccounted
      <4>3. (\E i \in DOMAIN hits : hits[i] = h) <=> \E i \in DOMAIN hits' : hits'[i] = h
        BY <3>2, <1>1, <1>2, <1>3
      <4>. QED
        BY <4>2, <4>3 DEF Record
    <3>. QED
      BY <3>1, <3>2
  <2>. QED
    BY <2>1, <2>2 DEF Record, HitsAccounted
<1>7. HitsNumbered'
  <2>1. \A i \in 1..(n + 1) : hits'[i] <= recorded'
    BY <1>1, <1>2, <1>A
  <2>2. \A h \in 1..MaxHits : h > recorded' => posted'[h] = "waiting"
    BY <1>1 DEF Record, AnalyticsInv, HitsNumbered
  <2>. QED
    BY <2>1, <2>2, <1>3 DEF HitsNumbered
<1>. QED
  BY <1>4, <1>5, <1>6, <1>7 DEF AnalyticsInv, QueueDrains

\* processQueue: a batch is posted, and what is left gets a timer of its own.
LEMMA ProcessQueueInv == ASSUME AnalyticsInv, ProcessQueue PROVE AnalyticsInv'
<1>. USE DEF Hits
<1>. DEFINE n == Len(hits)
            m == IF n <= BatchSize THEN 0 ELSE n - BatchSize
<1>1. hits \in Seq(1..MaxHits) /\ n \in Nat /\ BatchSize \in Nat \ {0, 1} /\ m \in Nat
  BY AnalyticsAssumption DEF AnalyticsInv, AnalyticsTypeOK
<1>2. /\ hits' \in Seq(1..MaxHits)
      /\ Len(hits') = m
      /\ \A i \in 1..m : hits'[i] = hits[BatchSize + i]
  <2>1. hits' = SubSeq(hits, BatchSize + 1, n)
    BY DEF ProcessQueue
  <2>2. /\ BatchSize + 1 \in Int /\ n \in Int
        /\ \A i \in (BatchSize + 1)..n : hits[i] \in 1..MaxHits
    <3>1. \A i \in 1..n : hits[i] \in 1..MaxHits
      BY <1>1, ElementOfSeq
    <3>2. \A i \in (BatchSize + 1)..n : i \in 1..n
      BY <1>1
    <3>. QED
      BY <3>1, <3>2, <1>1
  <2>3. /\ hits' \in Seq(1..MaxHits)
        /\ Len(hits') = IF BatchSize + 1 <= n THEN n - (BatchSize + 1) + 1 ELSE 0
        /\ \A i \in 1..(n - (BatchSize + 1) + 1) : hits'[i] = hits[BatchSize + 1 + i - 1]
    BY <2>1, <2>2, SubSeqProperties
  <2>4. Len(hits') = m
    BY <2>3, <1>1
  <2>5. ASSUME NEW i \in 1..m PROVE hits'[i] = hits[BatchSize + i]
    <3>1. i \in 1..(n - (BatchSize + 1) + 1) /\ BatchSize + 1 + i - 1 = BatchSize + i
      BY <1>1
    <3>. QED
      BY <3>1, <2>3
  <2>. QED
    BY <2>3, <2>4, <2>5
<1>3. /\ DOMAIN hits = 1..n
      /\ DOMAIN hits' = 1..m
  BY <1>1, <1>2
<1>4. \A h \in 1..MaxHits :
         (\E i \in DOMAIN hits : hits[i] = h)
            <=> h \in Batch \/ \E i \in DOMAIN hits' : hits'[i] = h
  <2>. SUFFICES ASSUME NEW h \in 1..MaxHits
                PROVE  (\E i \in DOMAIN hits : hits[i] = h)
                         <=> h \in Batch \/ \E i \in DOMAIN hits' : hits'[i] = h
    OBVIOUS
  <2>1. ASSUME NEW i \in DOMAIN hits, hits[i] = h
        PROVE  h \in Batch \/ \E j \in DOMAIN hits' : hits'[j] = h
    <3>1. CASE i <= BatchSize
      BY <3>1, <2>1, <1>1, <1>3 DEF Batch
    <3>2. CASE ~(i <= BatchSize)
      <4>1. i - BatchSize \in 1..m /\ BatchSize + (i - BatchSize) = i
        BY <3>2, <1>1, <1>3
      <4>. QED
        BY <4>1, <2>1, <1>2, <1>3
    <3>. QED
      BY <3>1, <3>2
  <2>2. ASSUME h \in Batch PROVE \E i \in DOMAIN hits : hits[i] = h
    BY <2>2 DEF Batch
  <2>3. ASSUME NEW j \in DOMAIN hits', hits'[j] = h PROVE \E i \in DOMAIN hits : hits[i] = h
    <3>1. BatchSize + j \in DOMAIN hits
      BY <1>1, <1>3
    <3>. QED
      BY <3>1, <2>3, <1>2, <1>3
  <2>. QED
    BY <2>1, <2>2, <2>3
<1>5. \A h \in Batch : ~ \E i \in DOMAIN hits' : hits'[i] = h
  <2>. SUFFICES ASSUME NEW i \in DOMAIN hits, i \in 1..BatchSize,
                       NEW j \in DOMAIN hits', hits'[j] = hits[i]
                PROVE  FALSE
    BY DEF Batch
  <2>1. BatchSize + j \in DOMAIN hits /\ i < BatchSize + j
    BY <1>1, <1>3
  <2>2. hits[i] < hits[BatchSize + j] /\ hits[i] \in Nat
    <3>1. hits[i] < hits[BatchSize + j]
      BY <2>1 DEF AnalyticsInv, QueueDrains, HitsAccounted
    <3>2. hits[i] \in 1..MaxHits
      BY <1>1, <1>3, ElementOfSeq
    <3>. QED
      BY <3>1, <3>2
  <2>3. hits[BatchSize + j] = hits[i]
    BY <1>2, <1>3
  <2>. QED
    BY <2>2, <2>3
<1>6. AnalyticsTypeOK'
  <2>1. posted' \in [1..MaxHits -> {"waiting", "posted", "terminated"}]
    BY DEF ProcessQueue, AnalyticsInv, AnalyticsTypeOK
  <2>2. queueTimeout' \in BOOLEAN /\ queueShortTimeout' \in BOOLEAN
    BY DEF ProcessQueue, Rearmed
  <2>. QED
    BY <1>2, <2>1, <2>2 DEF ProcessQueue, AnalyticsInv, AnalyticsTypeOK
<1>7. OneTimer'
  <2>1. CASE m = 0
    <3>1. hits' = <<>>
      BY <2>1, <1>2
    <3>2. ~queueTimeout' /\ ~queueShortTimeout'
      <4>1. ~(m >= BatchSize) /\ ~(m \in 1..BatchSize - 1)
        BY <2>1, <1>1
      <4>2. /\ queueShortTimeout' = (m >= BatchSize)
            /\ queueTimeout' = (m \in 1..BatchSize - 1)
        BY <1>2 DEF ProcessQueue, Rearmed
      <4>. QED
        BY <4>1, <4>2, Zenon
    <3>. QED
      BY <3>1, <3>2, <1>1, <1>2, <2>1 DEF OneTimer
  <2>2. CASE m # 0 /\ m < BatchSize
    <3>1. hits' # <<>>
      BY <2>2, <1>2
    <3>2. queueTimeout' /\ ~queueShortTimeout'
      <4>1. ~(m >= BatchSize) /\ m \in 1..BatchSize - 1
        BY <2>2, <1>1
      <4>2. /\ queueShortTimeout' = (m >= BatchSize)
            /\ queueTimeout' = (m \in 1..BatchSize - 1)
        BY <1>2 DEF ProcessQueue, Rearmed
      <4>. QED
        BY <4>1, <4>2, Zenon
    <3>. QED
      BY <3>1, <3>2, <1>1, <1>2, <2>2 DEF OneTimer
  <2>3. CASE m >= BatchSize
    <3>1. hits' # <<>>
      BY <2>3, <1>1, <1>2
    <3>2. ~queueTimeout' /\ queueShortTimeout'
      <4>1. m >= BatchSize /\ ~(m \in 1..BatchSize - 1)
        BY <2>3, <1>1
      <4>2. /\ queueShortTimeout' = (m >= BatchSize)
            /\ queueTimeout' = (m \in 1..BatchSize - 1)
        BY <1>2 DEF ProcessQueue, Rearmed
      <4>. QED
        BY <4>1, <4>2, Zenon
    <3>. QED
      BY <3>1, <3>2 DEF OneTimer
  <2>. QED
    BY <2>1, <2>2, <2>3, <1>1
<1>8. HitsAccounted'
  <2>1. \A i, j \in DOMAIN hits' : i < j => hits'[i] < hits'[j]
    <3>. SUFFICES ASSUME NEW i \in DOMAIN hits', NEW j \in DOMAIN hits', i < j
                  PROVE  hits'[i] < hits'[j]
      OBVIOUS
    <3>1. BatchSize + i \in DOMAIN hits /\ BatchSize + j \in DOMAIN hits
      BY <1>1, <1>3
    <3>2. BatchSize + i < BatchSize + j
      BY <1>1, <1>3
    <3>. QED
      BY <3>1, <3>2, <1>2, <1>3 DEF AnalyticsInv, QueueDrains, HitsAccounted
  <2>2. \A h \in 1..recorded' :
           posted'[h] = "waiting" <=> \E i \in DOMAIN hits' : hits'[i] = h
    <3>. SUFFICES ASSUME NEW h \in 1..recorded
                  PROVE  posted'[h] = "waiting" <=> \E i \in DOMAIN hits' : hits'[i] = h
      BY DEF ProcessQueue
    <3>1. h \in 1..MaxHits
      BY AnalyticsAssumption DEF AnalyticsInv, AnalyticsTypeOK
    <3>2. posted[h] = "waiting" <=> \E i \in DOMAIN hits : hits[i] = h
      BY DEF AnalyticsInv, QueueDrains, HitsAccounted
    <3>3. posted'[h] = IF h \in Batch THEN "posted" ELSE posted[h]
      BY <3>1 DEF ProcessQueue
    <3>. QED
      BY <3>1, <3>2, <3>3, <1>4, <1>5
  <2>3. ~enabled' => hits' = <<>>
    <3>1. ~enabled => FALSE
      BY DEF ProcessQueue, AnalyticsInv, QueueDrains, OneTimer, HitsAccounted
    <3>. QED
      BY <3>1 DEF ProcessQueue
  <2>. QED
    BY <2>1, <2>2, <2>3 DEF HitsAccounted
<1>9. HitsNumbered'
  <2>1. \A i \in DOMAIN hits' : BatchSize + i \in DOMAIN hits
    BY <1>1, <1>3
  <2>2. \A h \in 1..MaxHits : h > recorded => h \notin Batch
    BY AnalyticsAssumption DEF Batch, AnalyticsInv, AnalyticsTypeOK, HitsNumbered
  <2>. QED
    BY <2>1, <2>2, <1>2, <1>3 DEF ProcessQueue, AnalyticsInv, HitsNumbered
<1>. QED
  BY <1>6, <1>7, <1>8, <1>9 DEF AnalyticsInv, QueueDrains

\* A hit, a timer or a change of the user's mind keeps the invariant.
LEMMA AnalyticsNextInv ==
    ASSUME AnalyticsInv, [AnalyticsNext]_analyticsVars PROVE AnalyticsInv'
<1>1. ASSUME UNCHANGED analyticsVars PROVE AnalyticsInv'
  BY <1>1
     DEF analyticsVars, AnalyticsInv, AnalyticsTypeOK, QueueDrains, OneTimer, HitsAccounted,
         HitsNumbered
<1>. QED
  BY <1>1, ActivateInv, DeactivateInv, RecordInv, ProcessQueueInv DEF AnalyticsNext

\* Any order of hits, timers and changes of the user's mind keeps the invariant.
THEOREM AnalyticsInvariance == AnalyticsSpec => []AnalyticsInv
  BY AnalyticsInitInv, AnalyticsNextInv, PTL DEF AnalyticsSpec

\* Every hit is posted or terminated, by one timer (sendInternal, processQueue, cancelQueue).
THEOREM QueueIsServed == AnalyticsSpec => []QueueDrains
<1>1. AnalyticsInv => QueueDrains
  BY DEF AnalyticsInv
<1>. QED
  BY <1>1, AnalyticsInvariance, PTL

-----------------------------------------------------------------------------
(* Installation.  The order of the commands is what makes it sound: each   *)
(* of them has its place, and a chain of commands goes upwards.            *)

Rank(k) ==
    CASE k = "createGroup" -> 1
      [] k = "addEveryone" -> 2
      [] k = "unload" -> 3
      [] k = "extract" -> 4
      [] k = "reloadRules" -> 5
      [] k = "load" -> 6
      [] k = "removeApp" -> 7
      [] k = "moveApp" -> 8
      [] k = "own" -> 9
      [] k = "fixPermissions" -> 10

In(s, k) == \E i \in DOMAIN s : s[i] = k
Ascending(s) == \A i, j \in DOMAIN s : i < j => Rank(s[i]) < Rank(s[j])

\* Commands in their order, those behind m and up to n.
Chain(s, m, n) ==
    /\ s \in Seq(Commands)
    /\ Ascending(s)
    /\ \A i \in DOMAIN s : m < Rank(s[i]) /\ Rank(s[i]) <= n

\* The command is still to be run.
Coming(k) == In(steps, k)

\* A daemon that runs has a job, and is that of the files.  Of a stray one, only a new
\* version says something of the files: they are new, or half extracted.
Served ==
    /\ service # "none" => loaded
    /\ loaded /\ ~stray => files \in {"old", "new"} /\ service \in {"none", files}
    /\ service = "new" => files \in {"broken", "new"}

\* A job with the group has its rules, or will be unloaded next, or else it is stray.
Vouched == rules \/ ~loaded \/ stray \/ group # "everyone" \/ Coming("unload")

\* What a command needs comes before it, and what it undoes comes after it.
Arranged ==
    /\ Coming("createGroup") => Coming("addEveryone")
    /\ Coming("addEveryone") => Coming("unload") /\ Coming("fixPermissions") /\ group # "everyone"
    /\ Coming("unload") => Coming("reloadRules")
    /\ Coming("extract") => Coming("reloadRules")
    /\ Coming("reloadRules") => Coming("load")
    /\ Coming("load") => /\ Coming("unload") \/ ~loaded \/ stray
                         /\ Coming("extract") \/ files \in {"broken", "new"}
                         /\ Coming("reloadRules") \/ rules
    /\ Coming("removeApp") => Coming("moveApp")
    /\ Coming("moveApp") => at = "image" /\ Coming("own")
    /\ Coming("own") => Coming("fixPermissions")

\* What the next start looks at is there, or a command that is still to be run sees to it.
Reached ==
    progress \in {"installing", "installed"} =>
        /\ Coming("addEveryone") \/ group = "everyone"
        /\ Coming("extract") \/ files \in {"broken", "new"}
        /\ Coming("load") \/ stray \/ service = "new"
        /\ Coming("fixPermissions") \/ setgid[at]

\* The client that was started is still there.
Startable == progress # "off" => StartableAt(at)

InstallInv ==
    /\ InstallTypeOK /\ Ascending(steps)
    /\ progress # "installing" => steps = <<>>
    /\ Served /\ Vouched /\ Arranged /\ Reached /\ Startable /\ ClientRemains

-----------------------------------------------------------------------------
(* Chains of commands.                                                     *)

\* The places of the commands.
LEMMA Ranks ==
    /\ Rank("createGroup") = 1 /\ Rank("addEveryone") = 2 /\ Rank("unload") = 3
    /\ Rank("extract") = 4 /\ Rank("reloadRules") = 5 /\ Rank("load") = 6
    /\ Rank("removeApp") = 7 /\ Rank("moveApp") = 8 /\ Rank("own") = 9
    /\ Rank("fixPermissions") = 10
    /\ \A k \in Commands : Rank(k) \in 1..10
<1>1. /\ Rank("createGroup") = 1 /\ Rank("addEveryone") = 2 /\ Rank("unload") = 3
      /\ Rank("extract") = 4 /\ Rank("reloadRules") = 5 /\ Rank("load") = 6
  BY DEF Rank
<1>2. /\ Rank("removeApp") = 7 /\ Rank("moveApp") = 8 /\ Rank("own") = 9
      /\ Rank("fixPermissions") = 10
  BY DEF Rank
<1>. QED
  BY <1>1, <1>2 DEF Commands

\* One chain behind another.
LEMMA ChainBehind ==
    ASSUME NEW l \in Int, NEW m \in Int, NEW n \in Int, l <= m, m <= n,
           NEW s, NEW t, Chain(s, l, m), Chain(t, m, n)
    PROVE  Chain(s \o t, l, n) /\ \A k : In(s \o t, k) <=> In(s, k) \/ In(t, k)
<1>. DEFINE u == s \o t
            a == Len(s)
            b == Len(t)
<1>1. /\ s \in Seq(Commands) /\ t \in Seq(Commands) /\ Ascending(s) /\ Ascending(t)
      /\ \A i \in DOMAIN s : l < Rank(s[i]) /\ Rank(s[i]) <= m
      /\ \A i \in DOMAIN t : m < Rank(t[i]) /\ Rank(t[i]) <= n
  BY DEF Chain
<1>2. /\ u \in Seq(Commands) /\ Len(u) = a + b
      /\ \A i \in 1..(a + b) : u[i] = IF i <= a THEN s[i] ELSE t[i - a]
  BY <1>1, ConcatProperties
<1>3. a \in Nat /\ b \in Nat /\ DOMAIN s = 1..a /\ DOMAIN t = 1..b /\ DOMAIN u = 1..(a + b)
  BY <1>1, <1>2, LenProperties
<1>. HIDE DEF u, a, b
<1>4. ASSUME NEW i \in 1..(a + b)
      PROVE  \/ i \in 1..a /\ u[i] = s[i]
             \/ i - a \in 1..b /\ u[i] = t[i - a] /\ i > a
  BY <1>2, <1>3
<1>5. /\ \A i \in 1..a : i \in 1..(a + b) /\ u[i] = s[i]
      /\ \A i \in 1..b : a + i \in 1..(a + b) /\ u[a + i] = t[i]
  <2>1. ASSUME NEW i \in 1..b PROVE a + i \in 1..(a + b) /\ u[a + i] = t[i]
    <3>1. a + i \in 1..(a + b) /\ ~(a + i <= a) /\ (a + i) - a = i
      BY <1>3
    <3>2. u[a + i] = IF a + i <= a THEN s[a + i] ELSE t[(a + i) - a]
      BY <3>1, <1>2
    <3>. QED
      BY <3>1, <3>2
  <2>2. \A i \in 1..a : i \in 1..(a + b) /\ i <= a
    BY <1>3
  <2>. QED
    BY <2>1, <2>2, <1>2
<1>6. \A k : In(u, k) <=> In(s, k) \/ In(t, k)
  BY <1>3, <1>4, <1>5 DEF In
<1>7. \A i \in DOMAIN u : Rank(u[i]) \in Int
  <2>1. ASSUME NEW i \in DOMAIN u PROVE u[i] \in Commands
    BY <1>2, <1>3, ElementOfSeq
  <2>. QED
    BY <2>1, Ranks
<1>8. \A i \in DOMAIN u : l < Rank(u[i]) /\ Rank(u[i]) <= n
  <2>. SUFFICES ASSUME NEW i \in 1..(a + b) PROVE l < Rank(u[i]) /\ Rank(u[i]) <= n
    BY <1>3
  <2>1. Rank(u[i]) \in Int
    BY <1>3, <1>7
  <2>2. CASE i \in 1..a /\ u[i] = s[i]
    <3>1. l < Rank(u[i]) /\ Rank(u[i]) <= m
      BY <2>2, <1>1, <1>3
    <3>. QED
      BY <3>1, <2>1
  <2>3. CASE i - a \in 1..b /\ u[i] = t[i - a]
    <3>1. m < Rank(u[i]) /\ Rank(u[i]) <= n
      BY <2>3, <1>1, <1>3
    <3>. QED
      BY <3>1, <2>1
  <2>. QED
    BY <2>2, <2>3, <1>4
<1>9. Ascending(u)
  <2>. SUFFICES ASSUME NEW i \in 1..(a + b), NEW j \in 1..(a + b), i < j
                PROVE  Rank(u[i]) < Rank(u[j])
    BY <1>3 DEF Ascending
  <2>1. CASE i \in 1..a /\ u[i] = s[i] /\ j \in 1..a /\ u[j] = s[j]
    BY <2>1, <1>1, <1>3 DEF Ascending
  <2>2. CASE i \in 1..a /\ u[i] = s[i] /\ j - a \in 1..b /\ u[j] = t[j - a]
    BY <2>2, <1>1, <1>3, <1>7
  <2>3. CASE i - a \in 1..b /\ u[i] = t[i - a] /\ j - a \in 1..b /\ u[j] = t[j - a]
    <3>1. i - a < j - a
      BY <1>3
    <3>. QED
      BY <3>1, <2>3, <1>1, <1>3 DEF Ascending
  <2>. QED
    BY <2>1, <2>2, <2>3, <1>3, <1>4
<1>. QED
  BY <1>2, <1>6, <1>8, <1>9 DEF Chain, u

\* A command that is run on a condition.
LEMMA OneCommand ==
    ASSUME NEW c \in BOOLEAN, NEW x \in Commands
    PROVE  /\ Chain(When(c, <<x>>), Rank(x) - 1, Rank(x))
           /\ \A k : In(When(c, <<x>>), k) <=> c /\ k = x
<1>1. Rank(x) \in Int
  BY Ranks
<1>2. CASE c
  <2>1. When(c, <<x>>) = <<x>> /\ <<x>> \in Seq(Commands) /\ DOMAIN <<x>> = {1} /\ <<x>>[1] = x
    BY <1>2 DEF When
  <2>. DEFINE s == <<x>>
  <2>. HIDE DEF s
  <2>2. s \in Seq(Commands) /\ DOMAIN s = {1} /\ s[1] = x
    BY <2>1 DEF s
  <2>3. Chain(s, Rank(x) - 1, Rank(x))
    BY <2>2, <1>1 DEF Chain, Ascending
  <2>4. \A k : In(s, k) <=> k = x
    BY <2>2 DEF In
  <2>. QED
    BY <2>1, <2>3, <2>4, <1>2 DEF s
<1>3. CASE ~c
  <2>1. When(c, <<x>>) = <<>>
    BY <1>3 DEF When
  <2>. QED
    BY <2>1, <1>3 DEF Chain, Ascending, In
<1>. QED
  BY <1>2, <1>3

\* The app is moved with three commands.
LEMMA MoveCommands ==
    ASSUME NEW c \in BOOLEAN
    PROVE  /\ Chain(When(c, <<"removeApp", "moveApp", "own">>), 6, 9)
           /\ \A k : In(When(c, <<"removeApp", "moveApp", "own">>), k)
                        <=> c /\ k \in {"removeApp", "moveApp", "own"}
<1>. DEFINE s == <<"removeApp", "moveApp", "own">>
<1>1. CASE c
  <2>1. When(c, s) = s
    BY <1>1 DEF When
  <2>2. /\ s \in Seq(Commands) /\ DOMAIN s = {1, 2, 3}
        /\ s[1] = "removeApp" /\ s[2] = "moveApp" /\ s[3] = "own"
    BY DEF Commands
  <2>. HIDE DEF s
  <2>3. Chain(s, 6, 9)
    BY <2>2, Ranks DEF Chain, Ascending
  <2>4. \A k : In(s, k) <=> k \in {"removeApp", "moveApp", "own"}
    BY <2>2 DEF In
  <2>. QED
    BY <2>1, <2>3, <2>4, <1>1 DEF s
<1>2. CASE ~c
  <2>1. When(c, s) = <<>>
    BY <1>2 DEF When
  <2>. QED
    BY <2>1, <1>2 DEF Chain, Ascending, In
<1>. QED
  BY <1>1, <1>2

\* runAsRoot with the options of mac_run: the commands are in their order, and what each of
\* them depends on.
LEMMA CommandsArranged ==
    ASSUME NEW d \in BOOLEAN, NEW m \in BOOLEAN, NEW f \in BOOLEAN
    PROVE  /\ Chain(CommandsFor(d, m, f), 0, 10)
           /\ In(CommandsFor(d, m, f), "createGroup") <=> group = "none"
           /\ In(CommandsFor(d, m, f), "addEveryone") <=> group # "everyone"
           /\ \A k \in {"unload", "reloadRules", "load"} :
                 In(CommandsFor(d, m, f), k) <=> d \/ group # "everyone"
           /\ In(CommandsFor(d, m, f), "extract") <=> d
           /\ \A k \in {"removeApp", "moveApp", "own"} : In(CommandsFor(d, m, f), k) <=> m
           /\ In(CommandsFor(d, m, f), "fixPermissions") <=> f \/ group # "everyone" \/ m
<1>. DEFINE g == group # "everyone"
            w1 == When(group = "none", <<"createGroup">>)
            w2 == When(g, <<"addEveryone">>)
            w3 == When(d \/ g, <<"unload">>)
            w4 == When(d, <<"extract">>)
            w5 == When(d \/ g, <<"reloadRules">>)
            w6 == When(StartDaemon(d, g), <<"load">>)
            w7 == When(m, <<"removeApp", "moveApp", "own">>)
            w8 == When(f \/ g \/ m, <<"fixPermissions">>)
            p2 == w1 \o w2
            p3 == p2 \o w3
            p4 == p3 \o w4
            p5 == p4 \o w5
            p6 == p5 \o w6
            p7 == p6 \o w7
            p8 == p7 \o w8
<1>1. CommandsFor(d, m, f) = p8
  BY DEF CommandsFor
<1>2. /\ (group = "none") \in BOOLEAN /\ g \in BOOLEAN /\ (d \/ g) \in BOOLEAN /\ (f \/ g \/ m) \in BOOLEAN
      /\ StartDaemon(d, g) = (d \/ g)
  BY DEF StartDaemon
<1>3. {"createGroup", "addEveryone", "unload", "extract", "reloadRules", "load", "fixPermissions"}
         \subseteq Commands
  BY DEF Commands
<1>. HIDE DEF g
<1>4. Chain(w1, 0, 1) /\ \A k : In(w1, k) <=> group = "none" /\ k = "createGroup"
  <2>1. "createGroup" \in Commands /\ Rank("createGroup") = 1
    BY <1>3, Ranks
  <2>2. /\ Chain(w1, Rank("createGroup") - 1, Rank("createGroup"))
        /\ \A k : In(w1, k) <=> (group = "none") /\ k = "createGroup"
    BY <1>2, <2>1, OneCommand
  <2>. QED
    BY <2>1, <2>2
<1>5. Chain(w2, 1, 2) /\ \A k : In(w2, k) <=> g /\ k = "addEveryone"
  BY <1>2, <1>3, OneCommand, Ranks
<1>6. Chain(w3, 2, 3) /\ \A k : In(w3, k) <=> (d \/ g) /\ k = "unload"
  BY <1>2, <1>3, OneCommand, Ranks
<1>7. Chain(w4, 3, 4) /\ \A k : In(w4, k) <=> d /\ k = "extract"
  BY <1>2, <1>3, OneCommand, Ranks
<1>8. Chain(w5, 4, 5) /\ \A k : In(w5, k) <=> (d \/ g) /\ k = "reloadRules"
  BY <1>2, <1>3, OneCommand, Ranks
<1>9. Chain(w6, 5, 6) /\ \A k : In(w6, k) <=> (d \/ g) /\ k = "load"
  <2>1. w6 = When(d \/ g, <<"load">>)
    BY <1>2
  <2>2. /\ Chain(When(d \/ g, <<"load">>), 5, 6)
        /\ \A k : In(When(d \/ g, <<"load">>), k) <=> (d \/ g) /\ k = "load"
    BY <1>2, <1>3, OneCommand, Ranks
  <2>. QED
    BY <2>1, <2>2
<1>10. Chain(w7, 6, 9) /\ \A k : In(w7, k) <=> m /\ k \in {"removeApp", "moveApp", "own"}
  BY MoveCommands
<1>11. Chain(w8, 9, 10) /\ \A k : In(w8, k) <=> (f \/ g \/ m) /\ k = "fixPermissions"
  BY <1>2, <1>3, OneCommand, Ranks
<1>. HIDE DEF w1, w2, w3, w4, w5, w6, w7, w8
<1>12. Chain(p2, 0, 2) /\ \A k : In(p2, k) <=> In(w1, k) \/ In(w2, k)
  BY <1>4, <1>5, ChainBehind
<1>. HIDE DEF p2
<1>13. Chain(p3, 0, 3) /\ \A k : In(p3, k) <=> In(p2, k) \/ In(w3, k)
  BY <1>6, <1>12, ChainBehind
<1>. HIDE DEF p3
<1>14. Chain(p4, 0, 4) /\ \A k : In(p4, k) <=> In(p3, k) \/ In(w4, k)
  BY <1>7, <1>13, ChainBehind
<1>. HIDE DEF p4
<1>15. Chain(p5, 0, 5) /\ \A k : In(p5, k) <=> In(p4, k) \/ In(w5, k)
  BY <1>8, <1>14, ChainBehind
<1>. HIDE DEF p5
<1>16. Chain(p6, 0, 6) /\ \A k : In(p6, k) <=> In(p5, k) \/ In(w6, k)
  BY <1>9, <1>15, ChainBehind
<1>. HIDE DEF p6
<1>17. Chain(p7, 0, 9) /\ \A k : In(p7, k) <=> In(p6, k) \/ In(w7, k)
  BY <1>10, <1>16, ChainBehind
<1>. HIDE DEF p7
<1>18. Chain(p8, 0, 10) /\ \A k : In(p8, k) <=> In(p7, k) \/ In(w8, k)
  BY <1>11, <1>17, ChainBehind
<1>. HIDE DEF p8
<1>19. \A k : In(p8, k) <=>
          \/ group = "none" /\ k = "createGroup"
          \/ g /\ k = "addEveryone"
          \/ (d \/ g) /\ k \in {"unload", "reloadRules", "load"}
          \/ d /\ k = "extract"
          \/ m /\ k \in {"removeApp", "moveApp", "own"}
          \/ (f \/ g \/ m) /\ k = "fixPermissions"
  BY <1>4, <1>5, <1>6, <1>7, <1>8, <1>9, <1>10, <1>11, <1>12, <1>13, <1>14, <1>15, <1>16, <1>17, <1>18
<1>. QED
  BY <1>1, <1>18, <1>19 DEF g

\* What is left of a chain when its first command was run.
LEMMA NextInChain ==
    ASSUME NEW s \in Seq(Commands), Ascending(s), s # <<>>
    PROVE  /\ Head(s) \in Commands /\ In(s, Head(s))
           /\ Tail(s) \in Seq(Commands) /\ Ascending(Tail(s))
           /\ \A k : In(Tail(s), k) <=> In(s, k) /\ k # Head(s)
           /\ \A k : In(s, k) /\ k # Head(s) => Rank(Head(s)) < Rank(k)
<1>. DEFINE l == Len(s)
            t == Tail(s)
            h == Head(s)
<1>1. /\ l \in Nat /\ l >= 1 /\ DOMAIN s = 1..l
      /\ h \in Commands /\ h = s[1] /\ t \in Seq(Commands) /\ DOMAIN t = 1..(l - 1)
      /\ \A i \in 1..(l - 1) : t[i] = s[i + 1]
  BY HeadTailProperties, LenProperties, EmptySeq
<1>. HIDE DEF l, t, h
<1>2. 1 \in DOMAIN s
  BY <1>1
<1>3. \A i \in DOMAIN t : i + 1 \in DOMAIN s /\ 1 < i + 1 /\ t[i] = s[i + 1]
  BY <1>1
<1>4. \A i \in DOMAIN s : i = 1 \/ (i - 1 \in DOMAIN t /\ t[i - 1] = s[i] /\ 1 < i)
  <2>. SUFFICES ASSUME NEW i \in DOMAIN s, i # 1 PROVE i - 1 \in DOMAIN t /\ t[i - 1] = s[i] /\ 1 < i
    OBVIOUS
  <2>1. i - 1 \in 1..(l - 1) /\ (i - 1) + 1 = i /\ 1 < i
    BY <1>1
  <2>. QED
    BY <2>1, <1>1
<1>5. \A i \in DOMAIN s : i # 1 => Rank(h) < Rank(s[i])
  BY <1>1, <1>2, <1>4 DEF Ascending
<1>6. h \in Commands /\ \A k \in Commands : Rank(k) \in Int
  BY <1>1, Ranks
<1>7. \A i \in DOMAIN s : i # 1 => s[i] # h
  BY <1>5, <1>6
<1>8. Ascending(t)
  <2>. SUFFICES ASSUME NEW i \in DOMAIN t, NEW j \in DOMAIN t, i < j PROVE Rank(t[i]) < Rank(t[j])
    BY DEF Ascending
  <2>1. i + 1 < j + 1
    BY <1>1
  <2>. QED
    BY <2>1, <1>3 DEF Ascending
<1>9. \A k : In(t, k) <=> In(s, k) /\ k # h
  <2>1. ASSUME NEW i \in DOMAIN t PROVE In(s, t[i]) /\ t[i] # h
    <3>1. i + 1 \in DOMAIN s /\ i + 1 # 1 /\ t[i] = s[i + 1]
      BY <1>1, <1>3
    <3>. QED
      BY <3>1, <1>7 DEF In
  <2>2. ASSUME NEW i \in DOMAIN s, s[i] # h PROVE In(t, s[i])
    <3>1. i - 1 \in DOMAIN t /\ t[i - 1] = s[i]
      BY <2>2, <1>1, <1>4
    <3>. QED
      BY <3>1 DEF In
  <2>. QED
    BY <2>1, <2>2 DEF In
<1>10. In(s, h) /\ \A k : In(s, k) /\ k # h => Rank(h) < Rank(k)
  BY <1>1, <1>2, <1>5 DEF In
<1>. QED
  BY <1>1, <1>8, <1>9, <1>10 DEF t, h

-----------------------------------------------------------------------------
(* The steps.                                                              *)

\* No command is to be run: then every clause about one holds.
LEMMA NothingComing == steps = <<>> => /\ Ascending(steps) /\ Arranged
                                       /\ \A k : ~Coming(k)
BY DEF Ascending, Arranged, Coming, In

\* mac_run: whatever the machine is like, the commands lead to an installation.
LEMMA StartsAtKeeps ==
    ASSUME InstallInv, NEW p \in Places, StartsAt(p)
    PROVE  InstallInv'
<1>1. /\ progress \in {"off", "installed"} /\ StartableAt(p) /\ at' = p
      /\ UNCHANGED machineVars
  BY DEF StartsAt
<1>2. UNCHANGED <<group, files, service, loaded, rules, stray, image, installedApp, setgid>>
  BY <1>1 DEF machineVars
<1>3. steps = <<>> /\ \A k : ~Coming(k)
  BY <1>1, NothingComing DEF InstallInv
<1>4. /\ InstallTypeOK /\ Served /\ ClientRemains
      /\ rules \/ ~loaded \/ stray \/ group # "everyone"
  BY <1>3 DEF InstallInv, Vouched
<1>5. Served' /\ Vouched' /\ Startable' /\ ClientRemains'
  <2>1. \A q : StartableAt(q)' <=> StartableAt(q)
    BY <1>2 DEF StartableAt
  <2>2. ClientRemains' /\ Startable'
    BY <1>1, <1>4, <2>1 DEF ClientRemains, Startable, StartableAt
  <2>. QED
    BY <1>2, <1>4, <2>2 DEF Served, Vouched
<1>6. CASE ChecksOut(p) /\ UpToDate
  <2>1. progress' = "connected" /\ steps' = <<>>
    BY <1>6 DEF StartsAt
  <2>2. Ascending(steps)' /\ Arranged'
    <3>1. (steps = <<>> => /\ Ascending(steps) /\ Arranged
                           /\ \A k : ~Coming(k))'
      BY NothingComing, PTL
    <3>. QED
      BY <2>1, <3>1
  <2>3. InstallTypeOK'
    BY <1>1, <1>2, <1>4, <2>1 DEF InstallTypeOK
  <2>4. Reached'
    BY <2>1 DEF Reached
  <2>. QED
    BY <1>5, <2>1, <2>2, <2>3, <2>4 DEF InstallInv
<1>7. CASE ~(ChecksOut(p) /\ UpToDate)
  <2>1. /\ progress' = "installing"
        /\ \E move \in IF p = "Applications" THEN {FALSE}
                       ELSE IF installedApp = "none" THEN BOOLEAN ELSE {TRUE} :
             steps' = CommandsFor(~UpToDate \/ files = "none", move,
                                  group # "everyone" \/ ~setgid[p])
    BY <1>7 DEF StartsAt
  <2>. DEFINE d == ~UpToDate \/ files = "none"
              f == group # "everyone" \/ ~setgid[p]
  <2>2. PICK m \in BOOLEAN : (m => p = "image") /\ steps' = CommandsFor(d, m, f)
    <3>1. PICK m \in IF p = "Applications" THEN {FALSE}
                     ELSE IF installedApp = "none" THEN BOOLEAN ELSE {TRUE} :
             steps' = CommandsFor(d, m, f)
      BY <2>1
    <3>2. m \in BOOLEAN /\ (m => p = "image")
      BY DEF Places
    <3>. QED
      BY <3>1, <3>2
  <2>3. /\ Chain(steps', 0, 10)
        /\ In(steps', "createGroup") <=> group = "none"
        /\ In(steps', "addEveryone") <=> group # "everyone"
        /\ \A k \in {"unload", "reloadRules", "load"} : In(steps', k) <=> d \/ group # "everyone"
        /\ In(steps', "extract") <=> d
        /\ \A k \in {"removeApp", "moveApp", "own"} : In(steps', k) <=> m
        /\ In(steps', "fixPermissions") <=> f \/ group # "everyone" \/ m
    <3>1. d \in BOOLEAN /\ f \in BOOLEAN
      OBVIOUS
    <3>. HIDE DEF d, f
    <3>. QED
      BY <2>2, <3>1, CommandsArranged
  <2>4. \A k : Coming(k)' <=> In(steps', k)
    BY DEF Coming
  <2>5. steps' \in Seq(Commands) /\ Ascending(steps)'
    BY <2>3 DEF Chain, Ascending
  <2>6. InstallTypeOK'
    BY <1>1, <1>2, <1>4, <2>1, <2>5 DEF InstallTypeOK
  <2>7. Arranged'
    <3>1. /\ Coming("createGroup")' <=> group = "none"
          /\ Coming("addEveryone")' <=> group # "everyone"
          /\ Coming("unload")' <=> d \/ group # "everyone"
          /\ Coming("extract")' <=> d
          /\ Coming("reloadRules")' <=> d \/ group # "everyone"
          /\ Coming("load")' <=> d \/ group # "everyone"
          /\ Coming("removeApp")' <=> m
          /\ Coming("moveApp")' <=> m
          /\ Coming("own")' <=> m
          /\ Coming("fixPermissions")' <=> f \/ group # "everyone" \/ m
      BY <2>3, <2>4
    <3>2. ~d => files \in {"broken", "new"}
      BY <1>4 DEF UpToDate, Served
    <3>. HIDE DEF d, f
    <3>. QED
      BY <3>1, <3>2, <1>1, <1>2, <2>2 DEF Arranged
  <2>8. Reached'
    <3>1. d => Coming("load")'
      BY <2>3, <2>4
    <3>2. f => Coming("fixPermissions")'
      BY <2>3, <2>4
    <3>3. Coming("addEveryone")' <=> group # "everyone"
      BY <2>3, <2>4
    <3>4. (~d => service = "new" /\ files \in {"broken", "new"}) /\ (~f => setgid[p])
      BY <1>4 DEF UpToDate, Served
    <3>5. d => Coming("extract")'
      BY <2>3, <2>4
    <3>. HIDE DEF d, f
    <3>. QED
      BY <3>1, <3>2, <3>3, <3>4, <3>5, <1>1, <1>2 DEF Reached
  <2>. QED
    BY <1>5, <2>1, <2>5, <2>6, <2>7, <2>8 DEF InstallInv
<1>. QED
  BY <1>6, <1>7

\* What the next command is, and what is still to come behind it.
LEMMA NextCommand ==
    ASSUME InstallInv, steps # <<>>, NEW c, c = Head(steps)
    PROVE  /\ c \in Commands /\ Coming(c)
           /\ steps' = Tail(steps) =>
                 /\ steps' \in Seq(Commands) /\ Ascending(steps)'
                 /\ \A k : Coming(k)' <=> Coming(k) /\ k # c
           /\ \A k \in Commands : Rank(k) < Rank(c) => ~Coming(k)
<1>. DEFINE t == Tail(steps)
<1>1. steps \in Seq(Commands) /\ Ascending(steps)
  BY DEF InstallInv, InstallTypeOK
<1>2. /\ c \in Commands /\ In(steps, c)
      /\ t \in Seq(Commands) /\ Ascending(t)
      /\ \A k : In(t, k) <=> In(steps, k) /\ k # c
      /\ \A k : In(steps, k) /\ k # c => Rank(c) < Rank(k)
  BY <1>1, NextInChain
<1>3. \A k \in Commands : Rank(k) < Rank(c) => ~In(steps, k)
  <2>1. \A k \in Commands : Rank(k) \in Int
    BY Ranks
  <2>. QED
    BY <2>1, <1>2
<1>. HIDE DEF t
<1>4. steps' = t => /\ steps' \in Seq(Commands) /\ Ascending(steps)'
                    /\ \A k : Coming(k)' <=> Coming(k) /\ k # c
  BY <1>2 DEF Coming, Ascending, In
<1>. QED
  BY <1>2, <1>3, <1>4 DEF t, Coming

\* A command that succeeds does its part of what the others, and the next start, depend on.
LEMMA SucceedsKeeps ==
    ASSUME InstallInv, Succeeds
    PROVE  InstallInv'
<1>0. PICK c : c = Head(steps)
  OBVIOUS
<1>1. /\ progress = "installing" /\ progress' = "installing" /\ steps # <<>> /\ steps' = Tail(steps)
      /\ Does(c)
  BY <1>0 DEF Succeeds
<1>2. /\ c \in Commands /\ Coming(c)
      /\ steps' \in Seq(Commands) /\ Ascending(steps)'
      /\ \A k : Coming(k)' <=> Coming(k) /\ k # c
      /\ \A k \in Commands : Rank(k) < Rank(c) => ~Coming(k)
  BY <1>0, <1>1, NextCommand
<1>3. /\ InstallTypeOK /\ Served /\ Vouched /\ Arranged /\ ClientRemains /\ StartableAt(at)
      /\ Coming("addEveryone") \/ group = "everyone"
      /\ Coming("extract") \/ files \in {"broken", "new"}
      /\ Coming("load") \/ stray \/ service = "new"
      /\ Coming("fixPermissions") \/ setgid[at]
  BY <1>1 DEF InstallInv, Reached, Startable
<1>4. /\ Coming("createGroup")' <=> Coming("createGroup") /\ c # "createGroup"
      /\ Coming("addEveryone")' <=> Coming("addEveryone") /\ c # "addEveryone"
      /\ Coming("unload")' <=> Coming("unload") /\ c # "unload"
      /\ Coming("extract")' <=> Coming("extract") /\ c # "extract"
      /\ Coming("reloadRules")' <=> Coming("reloadRules") /\ c # "reloadRules"
      /\ Coming("load")' <=> Coming("load") /\ c # "load"
      /\ Coming("removeApp")' <=> Coming("removeApp") /\ c # "removeApp"
      /\ Coming("moveApp")' <=> Coming("moveApp") /\ c # "moveApp"
      /\ Coming("own")' <=> Coming("own") /\ c # "own"
      /\ Coming("fixPermissions")' <=> Coming("fixPermissions") /\ c # "fixPermissions"
  BY <1>2
<1>5. \A k \in Commands : Rank(k) < Rank(c) => ~Coming(k)
  BY <1>2
<1>6. SUFFICES /\ InstallTypeOK' /\ Served' /\ Vouched' /\ Arranged' /\ StartableAt(at)' /\ ClientRemains'
               /\ Coming("addEveryone")' \/ group' = "everyone"
               /\ Coming("extract")' \/ files' \in {"broken", "new"}
               /\ Coming("load")' \/ stray' \/ service' = "new"
               /\ Coming("fixPermissions")' \/ setgid'[at']
  BY <1>1, <1>2 DEF InstallInv, Reached, Startable
<1>7. /\ group \in {"none", "empty", "everyone"} /\ files \in {"none", "broken", "old", "new"}
      /\ service \in {"none", "old", "new"} /\ loaded \in BOOLEAN /\ rules \in BOOLEAN
      /\ stray \in BOOLEAN /\ image \in BOOLEAN
      /\ installedApp \in {"none", "old", "new"} /\ setgid \in [Places -> BOOLEAN] /\ at \in Places
  BY <1>3 DEF InstallTypeOK
<1>8. "image" \in Places /\ "Applications" \in Places
  BY DEF Places
<1>. DEFINE Types == /\ group' \in {"none", "empty", "everyone"} /\ files' \in {"none", "broken", "old", "new"}
                     /\ service' \in {"none", "old", "new"} /\ loaded' \in BOOLEAN /\ rules' \in BOOLEAN
                     /\ stray' \in BOOLEAN /\ image' \in BOOLEAN
                     /\ installedApp' \in {"none", "old", "new"} /\ setgid' \in [Places -> BOOLEAN]
                     /\ at' \in Places
            Rest == /\ Served' /\ Vouched' /\ Arranged' /\ StartableAt(at)' /\ ClientRemains'
                    /\ Coming("addEveryone")' \/ group' = "everyone"
                    /\ Coming("extract")' \/ files' \in {"broken", "new"}
                    /\ Coming("load")' \/ stray' \/ service' = "new"
                    /\ Coming("fixPermissions")' \/ setgid'[at']
<1>9. SUFFICES Types /\ Rest
  <2>. HIDE DEF Rest
  <2>1. Types => InstallTypeOK'
    BY <1>1, <1>2 DEF InstallTypeOK
  <2>. QED
    BY <2>1 DEF Rest
<1>10. CASE c = "createGroup"
  <2>1. /\ group' = "empty"
        /\ UNCHANGED <<files, service, loaded, rules, stray, image, installedApp, setgid, at>>
    BY <1>1, <1>10 DEF Does
  <2>2. Types
    BY <2>1, <1>7
  <2>3. Rest
    BY <2>1, <1>2, <1>3, <1>4, <1>10 DEF Served, Vouched, Arranged, StartableAt, ClientRemains
  <2>. QED
    BY <2>2, <2>3
<1>11. CASE c = "addEveryone"
  <2>1. /\ group' = "everyone" /\ rules' = FALSE
        /\ UNCHANGED <<files, service, loaded, stray, image, installedApp, setgid, at>>
    BY <1>1, <1>11 DEF Does
  <2>2. Types
    BY <2>1, <1>7
  <2>3. ~Coming("createGroup")
    BY <1>5, <1>11, Ranks DEF Commands
  <2>4. Rest
    BY <2>1, <2>3, <1>2, <1>3, <1>4, <1>11 DEF Served, Vouched, Arranged, StartableAt, ClientRemains
  <2>. QED
    BY <2>2, <2>4
<1>12. CASE c = "unload"
  <2>1. /\ loaded' \in {FALSE, loaded} /\ stray' = loaded'
        /\ service' = IF loaded' THEN service ELSE "none"
        /\ UNCHANGED <<group, files, rules, image, installedApp, setgid, at>>
    BY <1>1, <1>12 DEF Does
  <2>2. Types
    BY <2>1, <1>7
  <2>3. ~Coming("createGroup") /\ ~Coming("addEveryone")
    BY <1>5, <1>12, Ranks DEF Commands
  <2>4. Rest
    BY <2>1, <2>3, <1>2, <1>3, <1>4, <1>12 DEF Served, Vouched, Arranged, StartableAt, ClientRemains
  <2>. QED
    BY <2>2, <2>4
<1>13. CASE c = "extract"
  <2>1. /\ files' = "new" /\ rules' = FALSE
        /\ UNCHANGED <<group, service, loaded, stray, image, installedApp, setgid, at>>
    BY <1>1, <1>13 DEF Does
  <2>2. Types
    BY <2>1, <1>7
  <2>3. ~Coming("createGroup") /\ ~Coming("addEveryone") /\ ~Coming("unload")
    BY <1>5, <1>13, Ranks DEF Commands
  <2>4. Rest
    BY <2>1, <2>3, <1>2, <1>3, <1>4, <1>13 DEF Served, Vouched, Arranged, StartableAt, ClientRemains
  <2>. QED
    BY <2>2, <2>4
<1>14. CASE c = "reloadRules"
  <2>1. /\ rules' = TRUE
        /\ UNCHANGED <<group, files, service, loaded, stray, image, installedApp, setgid, at>>
    BY <1>1, <1>14 DEF Does
  <2>2. Types
    BY <2>1, <1>7
  <2>3. ~Coming("createGroup") /\ ~Coming("addEveryone") /\ ~Coming("unload") /\ ~Coming("extract")
    BY <1>5, <1>14, Ranks DEF Commands
  <2>4. Rest
    BY <2>1, <2>3, <1>2, <1>3, <1>4, <1>14 DEF Served, Vouched, Arranged, StartableAt, ClientRemains
  <2>. QED
    BY <2>2, <2>4
<1>15. CASE c = "load"
  <2>1. /\ IF loaded THEN UNCHANGED <<service, loaded, stray>>
           ELSE service' \in Launched /\ loaded' = TRUE /\ stray' = (files = "broken")
        /\ UNCHANGED <<group, files, rules, image, installedApp, setgid, at>>
    BY <1>1, <1>15 DEF Does, Launches
  <2>2. /\ ~Coming("createGroup") /\ ~Coming("addEveryone") /\ ~Coming("unload")
        /\ ~Coming("extract") /\ ~Coming("reloadRules")
    BY <1>5, <1>15, Ranks DEF Commands
  <2>3. files \in {"broken", "new"} /\ rules /\ (~loaded \/ stray)
    BY <2>2, <1>2, <1>3, <1>15 DEF Arranged
  <2>4. Types
    BY <2>1, <2>3, <1>7 DEF Launched
  <2>5. Rest
    BY <2>1, <2>2, <2>3, <1>2, <1>3, <1>4, <1>7, <1>15
       DEF Launched, Served, Vouched, Arranged, StartableAt, ClientRemains
  <2>. QED
    BY <2>4, <2>5
<1>16. CASE c = "removeApp"
  <2>1. /\ installedApp' = "none"
        /\ UNCHANGED <<group, files, service, loaded, rules, stray, image, setgid, at>>
    BY <1>1, <1>16 DEF Does
  <2>2. Types
    BY <2>1, <1>7
  <2>3. at = "image" /\ image
    BY <1>2, <1>3, <1>16 DEF Arranged, StartableAt
  <2>4. Rest
    BY <2>1, <2>3, <1>2, <1>3, <1>4, <1>8, <1>16
       DEF Served, Vouched, Arranged, StartableAt, ClientRemains
  <2>. QED
    BY <2>2, <2>4
<1>17. CASE c = "moveApp"
  <2>1. /\ installedApp' = "new" /\ image' \in BOOLEAN /\ at' = "Applications"
        /\ setgid' = [setgid EXCEPT !["Applications"] = setgid["image"]]
        /\ UNCHANGED <<group, files, service, loaded, rules, stray>>
    BY <1>1, <1>17 DEF Does
  <2>2. Types
    BY <2>1, <1>7, <1>8
  <2>3. ~Coming("removeApp")
    BY <1>5, <1>17, Ranks DEF Commands
  <2>4. StartableAt(at)' /\ ClientRemains'
    BY <2>1, <1>8 DEF StartableAt, ClientRemains
  <2>5. Coming("fixPermissions")
    BY <1>2, <1>3, <1>17 DEF Arranged
  <2>6. Rest
    BY <2>1, <2>3, <2>4, <2>5, <1>2, <1>3, <1>4, <1>17 DEF Served, Vouched, Arranged
  <2>. QED
    BY <2>2, <2>6
<1>18. CASE c = "own"
  <2>1. /\ setgid' = [setgid EXCEPT !["Applications"] = FALSE]
        /\ UNCHANGED <<group, files, service, loaded, rules, stray, image, installedApp, at>>
    BY <1>1, <1>18 DEF Does
  <2>2. Types
    BY <2>1, <1>7, <1>8
  <2>3. ~Coming("removeApp") /\ ~Coming("moveApp")
    BY <1>5, <1>18, Ranks DEF Commands
  <2>4. Coming("fixPermissions")
    BY <1>2, <1>3, <1>18 DEF Arranged
  <2>5. Rest
    BY <2>1, <2>3, <2>4, <1>2, <1>3, <1>4, <1>18
       DEF Served, Vouched, Arranged, StartableAt, ClientRemains
  <2>. QED
    BY <2>2, <2>5
<1>19. CASE c = "fixPermissions"
  <2>1. /\ setgid' = [setgid EXCEPT ![at] = TRUE]
        /\ UNCHANGED <<group, files, service, loaded, rules, stray, image, installedApp, at>>
    BY <1>1, <1>19 DEF Does
  <2>2. Types /\ setgid'[at']
    BY <2>1, <1>7
  <2>3. /\ ~Coming("removeApp") /\ ~Coming("moveApp") /\ ~Coming("own")
        /\ ~Coming("addEveryone") /\ ~Coming("load")
    BY <1>5, <1>19, Ranks DEF Commands
  <2>4. Rest
    BY <2>1, <2>2, <2>3, <1>2, <1>3, <1>4, <1>19
       DEF Served, Vouched, Arranged, StartableAt, ClientRemains
  <2>. QED
    BY <2>2, <2>4
<1>. QED
  BY <1>2, <1>10, <1>11, <1>12, <1>13, <1>14, <1>15, <1>16, <1>17, <1>18, <1>19 DEF Commands

\* All that follows is skipped, and nothing that is then true of the machine depended on it.
LEMMA FailsKeeps ==
    ASSUME InstallInv, Fails
    PROVE  InstallInv'
<1>0. PICK c : c = Head(steps)
  OBVIOUS
<1>1. /\ progress = "installing" /\ steps # <<>> /\ c # "unload" /\ HalfDone(c)
      /\ steps' = <<>> /\ progress' = "off" /\ at' = at
  BY <1>0 DEF Fails
<1>2. /\ c \in Commands /\ Coming(c)
      /\ \A k \in Commands : Rank(k) < Rank(c) => ~Coming(k)
  BY <1>0, <1>1, NextCommand
<1>3. /\ files' = files \/ (c = "extract" /\ files' = "broken")
      /\ installedApp' = installedApp \/ (c = "removeApp" /\ installedApp' = "none")
      /\ UNCHANGED <<group, service, loaded, rules, stray, image, setgid>>
  BY <1>1 DEF HalfDone
<1>4. /\ InstallTypeOK /\ Served /\ Vouched /\ Arranged /\ ClientRemains /\ StartableAt(at)
  BY <1>1 DEF InstallInv, Startable
<1>5. rules \/ ~loaded \/ stray \/ group # "everyone"
  <2>1. CASE c \in {"createGroup", "addEveryone"}
    BY <2>1, <1>2, <1>4 DEF Arranged
  <2>2. CASE c \notin {"createGroup", "addEveryone"}
    <3>1. ~Coming("unload")
      <4>1. Rank("unload") < Rank(c)
        BY <2>2, <1>1, <1>2, Ranks DEF Commands
      <4>. QED
        BY <4>1, <1>2 DEF Commands
    <3>. QED
      BY <3>1, <1>4 DEF Vouched
  <2>. QED
    BY <2>1, <2>2
<1>6. c = "extract" => ~loaded \/ stray
  <2>1. c = "extract" => ~Coming("unload")
    BY <1>2, Ranks DEF Commands
  <2>. QED
    BY <2>1, <1>2, <1>4 DEF Arranged
<1>7. c = "removeApp" => image
  BY <1>2, <1>4 DEF Arranged, StartableAt
<1>8. Ascending(steps)' /\ Arranged'
  <2>1. (steps = <<>> => /\ Ascending(steps) /\ Arranged
                         /\ \A k : ~Coming(k))'
    BY NothingComing, PTL
  <2>. QED
    BY <2>1, <1>1
<1>9. InstallTypeOK'
  BY <1>1, <1>3, <1>4 DEF InstallTypeOK
<1>10. Served' /\ Vouched' /\ Reached' /\ Startable'
  BY <1>1, <1>3, <1>4, <1>5, <1>6 DEF Served, Vouched, Reached, Startable
<1>11. ClientRemains'
  <2>1. "image" \in Places /\ "Applications" \in Places
    BY DEF Places
  <2>2. image \/ installedApp = "new"
    BY <1>4 DEF ClientRemains, StartableAt
  <2>. QED
    BY <2>1, <2>2, <1>3, <1>7 DEF ClientRemains, StartableAt
<1>. QED
  BY <1>1, <1>8, <1>9, <1>10, <1>11 DEF InstallInv

\* What happens between the commands, and when there are none.
LEMMA OthersKeep ==
    ASSUME InstallInv, Stops \/ Reboot \/ GroupDamaged \/ Completes
    PROVE  InstallInv'
<1>1. steps' = <<>> /\ progress' # "installing" /\ at' = at
  BY DEF InstallInv, Stops, Reboot, GroupDamaged, Completes, machineVars
<1>2. UNCHANGED <<image, installedApp, setgid, files>>
  BY DEF Stops, Reboot, GroupDamaged, Completes, machineVars
<1>3. Ascending(steps)' /\ Arranged'
  <2>1. (steps = <<>> => /\ Ascending(steps) /\ Arranged
                         /\ \A k : ~Coming(k))'
    BY NothingComing, PTL
  <2>. QED
    BY <2>1, <1>1
<1>4. InstallTypeOK /\ Served /\ Reached /\ Startable /\ ClientRemains
  BY DEF InstallInv
<1>5. Stops \/ GroupDamaged \/ Completes => rules \/ ~loaded \/ stray \/ group # "everyone"
  <2>1. Stops \/ GroupDamaged \/ Completes => \A k : ~Coming(k)
    BY NothingComing DEF InstallInv, Stops, GroupDamaged, Completes
  <2>. QED
    BY <2>1 DEF InstallInv, Vouched
<1>6. ClientRemains'
  BY <1>2, <1>4 DEF ClientRemains, StartableAt
<1>7. InstallTypeOK' /\ Served' /\ Vouched' /\ Reached' /\ Startable'
  <2>. SUFFICES InstallTypeOK' /\ Served' /\ (rules' \/ ~loaded' \/ stray' \/ group' # "everyone")
                /\ Reached' /\ Startable'
    BY DEF Vouched
  <2>1. steps' \in Seq(Commands)
    BY <1>1
  <2>2. CASE Stops
    <3>1. /\ progress' = "off" /\ steps' = <<>>
          /\ UNCHANGED <<group, files, service, loaded, rules, stray, image, installedApp, setgid, at>>
      BY <2>2, <1>1 DEF Stops, machineVars
    <3>2. InstallTypeOK'
      BY <2>1, <3>1, <1>4 DEF InstallTypeOK
    <3>. QED
      BY <3>1, <3>2, <2>2, <1>4, <1>5 DEF Served, Reached, Startable
  <2>3. CASE Reboot
    BY <2>1, <2>3, <1>1, <1>2, <1>4
       DEF Reboot, Launches, Launched, InstallTypeOK, Served, Reached, Startable
  <2>4. CASE GroupDamaged
    BY <2>1, <2>4, <1>1, <1>2, <1>4 DEF GroupDamaged, InstallTypeOK, Served, Reached, Startable
  <2>5. CASE Completes
    <3>1. /\ progress = "installing" /\ progress' = "installed" /\ steps = <<>>
          /\ UNCHANGED <<group, files, service, loaded, rules, stray, image, installedApp, setgid, at>>
      BY <2>5 DEF Completes, machineVars
    <3>2. \A k : ~Coming(k)
      BY <3>1, NothingComing
    <3>3. /\ group = "everyone" /\ setgid[at] /\ files \in {"broken", "new"}
          /\ stray \/ service = "new"
      BY <3>1, <3>2, <1>4 DEF Reached
    <3>4. StartableAt(at)' <=> StartableAt(at)
      BY <3>1 DEF StartableAt
    <3>5. StartableAt(at)
      BY <3>1, <1>4 DEF Startable
    <3>6. InstallTypeOK'
      BY <2>1, <3>1, <1>4 DEF InstallTypeOK
    <3>. QED
      BY <3>1, <3>3, <3>4, <3>5, <3>6, <1>4, <1>5, <2>5 DEF Served, Reached, Startable
  <2>. QED
    BY <2>2, <2>3, <2>4, <2>5
<1>. QED
  BY <1>1, <1>3, <1>6, <1>7 DEF InstallInv

\* launchd starts the daemon again: one that is not stray is what it was.
LEMMA RestartedKeeps ==
    ASSUME InstallInv, Restarted
    PROVE  InstallInv'
<1>1. /\ loaded /\ service' \in Launched /\ stray' = (stray \/ files = "broken")
      /\ UNCHANGED <<group, files, loaded, rules, image, installedApp, setgid, at, steps, progress>>
  BY DEF Restarted
<1>2. \A k : Coming(k)' <=> Coming(k)
  BY <1>1 DEF Coming
<1>3. /\ InstallTypeOK /\ Ascending(steps) /\ (progress # "installing" => steps = <<>>)
      /\ Served /\ Vouched /\ Arranged /\ Reached /\ Startable /\ ClientRemains
  BY DEF InstallInv
<1>4. files \in {"none", "broken", "old", "new"} /\ stray \in BOOLEAN
  BY <1>3 DEF InstallTypeOK
<1>5. ~stray => files \in {"old", "new"} /\ service' = files /\ stray' = stray
  BY <1>1, <1>3, <1>4 DEF Served, Launched
<1>6. stray => stray'
  BY <1>1
<1>7. service' \in {"none", "old", "new"} /\ (service' = "new" => files \in {"broken", "new"})
  BY <1>1, <1>4 DEF Launched
<1>8. InstallTypeOK' /\ Ascending(steps)' /\ (progress' # "installing" => steps' = <<>>)
  <2>1. stray' \in BOOLEAN
    BY <1>1
  <2>. QED
    BY <2>1, <1>1, <1>3, <1>7 DEF InstallTypeOK, Ascending
<1>9. Served'
  BY <1>1, <1>4, <1>5, <1>6, <1>7 DEF Served
<1>10. Vouched' /\ Arranged'
  BY <1>1, <1>2, <1>3, <1>5, <1>6 DEF Vouched, Arranged
<1>11. Reached'
  <2>1. ~stray /\ service = "new" => service' = "new"
    BY <1>1, <1>3, <1>5 DEF Served
  <2>. QED
    BY <2>1, <1>1, <1>2, <1>3, <1>6 DEF Reached
<1>12. Startable' /\ ClientRemains'
  BY <1>1, <1>3 DEF Startable, ClientRemains, StartableAt
<1>. QED
  BY <1>8, <1>9, <1>10, <1>11, <1>12 DEF InstallInv

\* The first start finds nothing of the client, or an earlier version that was complete.
LEMMA InstallInitInv == ASSUME InstallInit PROVE InstallInv
<1>1. /\ image /\ at = "image" /\ steps = <<>> /\ progress = "off"
      /\ setgid = [p \in Places |-> p = "Applications" /\ installedApp = "old"]
      /\ installedApp \in {"none", "old"} /\ loaded \in BOOLEAN /\ stray = FALSE
      /\ \/ group = "none" /\ files = "none" /\ service = "none" /\ rules = FALSE /\ ~loaded
         \/ /\ group = "everyone" /\ files = "old" /\ service \in {"none", "old"} /\ rules = TRUE
            /\ service = "old" => loaded
  BY DEF InstallInit
<1>2. Ascending(steps) /\ Arranged
  BY <1>1, NothingComing
<1>3. "image" \in Places
  BY DEF Places
<1>4. InstallTypeOK
  <2>1. steps \in Seq(Commands) /\ setgid \in [Places -> BOOLEAN]
    BY <1>1
  <2>. QED
    BY <1>1, <1>3, <2>1 DEF InstallTypeOK
<1>5. Served /\ Vouched /\ Reached /\ Startable /\ ClientRemains
  BY <1>1, <1>3 DEF Served, Vouched, Reached, Startable, ClientRemains, StartableAt
<1>. QED
  BY <1>1, <1>2, <1>4, <1>5 DEF InstallInv

\* What a start, a command or the user does keeps the invariant.
LEMMA InstallNextInv == ASSUME InstallInv, [InstallNext]_installVars PROVE InstallInv'
<1>1. ASSUME UNCHANGED installVars PROVE InstallInv'
  BY <1>1
     DEF installVars, machineVars, InstallInv, InstallTypeOK, Ascending, Served, Vouched, Arranged,
         Reached, Startable, ClientRemains, StartableAt, Coming, In
<1>. QED
  BY <1>1, StartsAtKeeps, SucceedsKeeps, FailsKeeps, OthersKeep, RestartedKeeps DEF InstallNext

\* What the next start finds, whichever commands fail, launchctl unload and a half-done
\* extraction among them, and whenever launchd starts the daemon (install_darwin.js).
THEOREM InstallInvariance == InstallSpec => []InstallInv
  BY InstallInitInv, InstallNextInv, PTL DEF InstallSpec

\* The invariant says that an installation is sound.
LEMMA InstallSound == ASSUME InstallInv PROVE InstallationSound
<1>1. progress # "installing" => \A k : ~Coming(k)
  BY NothingComing DEF InstallInv
<1>2. loaded \in BOOLEAN /\ stray \in BOOLEAN /\ Served /\ Vouched
  BY DEF InstallInv, InstallTypeOK
<1>3. CompletesInstalled
  <2>. SUFFICES ASSUME progress = "installed"
                PROVE  /\ StartableAt(at) /\ group = "everyone" /\ setgid[at]
                       /\ files \in {"broken", "new"}
                       /\ ~stray => ChecksOut(at) /\ UpToDate /\ files = "new" /\ rules
    BY DEF CompletesInstalled
  <2>1. /\ group = "everyone" /\ setgid[at] /\ StartableAt(at) /\ files \in {"broken", "new"}
        /\ stray \/ service = "new"
    BY <1>1 DEF InstallInv, Reached, Startable
  <2>2. ~stray => service = "new" /\ files = "new" /\ rules
    BY <2>1, <1>1, <1>2 DEF Served, Vouched
  <2>. QED
    BY <2>1, <2>2 DEF ChecksOut, UpToDate
<1>4. CheckVouches
  BY <1>1, <1>2 DEF CheckVouches, Served, Vouched, ChecksOut, UpToDate
<1>5. ClientRemains
  BY DEF InstallInv
<1>. QED
  BY <1>3, <1>4, <1>5 DEF InstallationSound

\* No installation that failed or was interrupted is taken for a complete one and a complete
\* one repairs what others left, unless a daemon that was not unloaded, or half-extracted
\* files that launchd started, hide it; and a client remains (mac_check, runAsRoot).
THEOREM InstallationIsSound == InstallSpec => []InstallationSound
  BY InstallSound, InstallInvariance, PTL

-----------------------------------------------------------------------------
(* Transitions: sequences, and what is kept of one.  A recursive function is   *)
(* an iteration, and what holds of it is shown from one place to the next.     *)

\* A set of positions that is not empty has a first one.
LEMMA FirstOne ==
    ASSUME NEW n \in Nat, NEW S, S \subseteq 1..n, S # {}
    PROVE  \E i \in S : \A j \in S : i <= j
<1>. DEFINE T == {1..(i - 1) : i \in S}
<1>1. IsWellFoundedOn(StrictSubsetOrdering(1..n), SUBSET (1..n))
  <2>1. IsFiniteSet(1..n)
    BY FS_Interval
  <2>. QED
    BY <2>1, FS_FiniteSubsetsOfFinite, FS_StrictSubsetOrderingWellFounded
<1>2. T \subseteq SUBSET (1..n) /\ T # {}
  <2>1. ASSUME NEW i \in S PROVE 1..(i - 1) \subseteq 1..n
    <3>1. i \in 1..n
      OBVIOUS
    <3>. QED
      BY <3>1
  <2>. QED
    BY <2>1
<1>3. \A V \in T : \E j \in S : V = 1..(j - 1)
  OBVIOUS
<1>4. \A j \in S : 1..(j - 1) \in T
  OBVIOUS
<1>. HIDE DEF T
<1>5. PICK U \in T : \A V \in T : <<V, U>> \notin StrictSubsetOrdering(1..n)
  BY <1>1, <1>2, WFMin
<1>6. PICK i \in S : U = 1..(i - 1)
  BY <1>3
<1>7. ASSUME NEW j \in S, j < i PROVE FALSE
  <2>1. i \in 1..n /\ j \in 1..n
    OBVIOUS
  <2>2. j \in U /\ j \notin 1..(j - 1) /\ 1..(j - 1) \subseteq U
    BY <1>6, <1>7, <2>1
  <2>3. <<1..(j - 1), U>> \in StrictSubsetOrdering(1..n)
    BY <2>2, <1>2, <1>4 DEF StrictSubsetOrdering
  <2>. QED
    BY <2>3, <1>4, <1>5
<1>8. \A j \in S : i <= j
  <2>1. \A j \in S : j \in Nat /\ i \in Nat
    OBVIOUS
  <2>. QED
    BY <1>7, <2>1
<1>. QED
  BY <1>8

\* What holds at 0 and is passed on by each step up to n holds up to n.
LEMMA NatSteps ==
    ASSUME NEW n \in Nat, NEW X, 0 \in X, \A i \in 1..n : i - 1 \in X => i \in X
    PROVE  \A i \in 0..n : i \in X
<1>. DEFINE Bad == {i \in 1..n : i \notin X}
<1>1. Bad = {}
  <2>. SUFFICES ASSUME Bad # {} PROVE FALSE
    OBVIOUS
  <2>1. Bad \subseteq 1..n
    OBVIOUS
  <2>2. PICK k \in Bad : \A j \in Bad : k <= j
    <3>. HIDE DEF Bad
    <3>. QED
      BY <2>1, FirstOne
  <2>3. k \in 1..n /\ k - 1 \notin Bad
    <3>. HIDE DEF Bad
    <3>. QED
      BY <2>1, <2>2
  <2>4. k - 1 = 0 \/ k - 1 \in 1..n
    BY <2>3
  <2>5. k - 1 \in X
    BY <2>3, <2>4
  <2>. QED
    BY <2>2, <2>3, <2>5
<1>2. \A i \in 0..n : i = 0 \/ i \in 1..n
  OBVIOUS
<1>. QED
  BY <1>1, <1>2

\* The first n steps F from w, all in T.
Iteration(n, T, w, F, f) ==
    /\ f \in [0..n -> T]
    /\ f[0] = w
    /\ \A i \in 1..n : f[i] = F[i][f[i - 1]]

\* A recursive function whose steps stay in T is defined.
LEMMA Iterates ==
    ASSUME NEW n \in Nat, NEW T, NEW w \in T, NEW F \in [1..n -> [T -> T]]
    PROVE  \E f : Iteration(n, T, w, F, f)
<1>. DEFINE Runs(f, k) == f[0] = w /\ \A i \in 1..k : f[i] = F[i][f[i - 1]]
            X == {k \in 0..n : \E f \in [0..k -> T] : Runs(f, k)}
<1>1. 0 \in X
  <2>. DEFINE f == [i \in 0..0 |-> w]
  <2>1. f \in [0..0 -> T] /\ Runs(f, 0) /\ 0 \in 0..n
    OBVIOUS
  <2>. QED
    BY <2>1
<1>2. ASSUME NEW k \in 1..n, k - 1 \in X PROVE k \in X
  <2>1. PICK f \in [0..(k - 1) -> T] : Runs(f, k - 1)
    BY <1>2
  <2>. DEFINE g == [i \in 0..k |-> IF i = k THEN F[k][f[k - 1]] ELSE f[i]]
  <2>2. k \in Nat /\ k > 0 /\ k - 1 \in 0..(k - 1) /\ k \in 0..n /\ 0 \in 0..(k - 1)
    OBVIOUS
  <2>3. F[k][f[k - 1]] \in T
    BY <2>2
  <2>4. ASSUME NEW i \in 0..k PROVE g[i] \in T
    BY <2>2, <2>3
  <2>5. g \in [0..k -> T]
    BY <2>4
  <2>6. g[0] = w
    BY <2>1, <2>2
  <2>7. ASSUME NEW i \in 1..k PROVE g[i] = F[i][g[i - 1]]
    <3>1. i - 1 \in 0..(k - 1) /\ i - 1 \in 0..k /\ i - 1 # k /\ i \in 0..k
      BY <2>2
    <3>2. g[i - 1] = f[i - 1]
      BY <3>1
    <3>3. CASE i = k
      BY <3>1, <3>2, <3>3
    <3>4. CASE i # k
      <4>1. i \in 1..(k - 1) /\ i \in 0..k
        BY <2>2, <3>4
      <4>2. g[i] = f[i] /\ f[i] = F[i][f[i - 1]]
        BY <4>1, <3>4, <2>1
      <4>. QED
        BY <4>2, <3>2
    <3>. QED
      BY <3>3, <3>4
  <2>. HIDE DEF g
  <2>8. Runs(g, k)
    BY <2>6, <2>7
  <2>. QED
    BY <2>2, <2>5, <2>8
<1>3. n \in X
  <2>. HIDE DEF X
  <2>1. \A i \in 0..n : i \in X
    BY <1>1, <1>2, NatSteps
  <2>. QED
    BY <2>1
<1>. QED
  BY <1>3 DEF Iteration

\* What holds of the empty sequence and is passed on by Append holds of every sequence.
LEMMA SeqSteps ==
    ASSUME NEW T, NEW X, <<>> \in X, \A s \in Seq(T), e \in T : s \in X => Append(s, e) \in X
    PROVE  \A s \in Seq(T) : s \in X
<1>. SUFFICES ASSUME NEW s \in Seq(T) PROVE s \in X
  OBVIOUS
<1>. DEFINE Y == {n \in 0..Len(s) : \A t \in Seq(T) : Len(t) = n => t \in X}
<1>1. Len(s) \in Nat
  BY LenProperties
<1>2. 0 \in Y
  <2>1. \A t \in Seq(T) : Len(t) = 0 => t = <<>>
    BY EmptySeq
  <2>. QED
    BY <1>1, <2>1
<1>3. ASSUME NEW n \in 1..Len(s), n - 1 \in Y PROVE n \in Y
  <2>1. ASSUME NEW t \in Seq(T), Len(t) = n PROVE t \in X
    <3>1. t # <<>>
      BY <1>1, <2>1, EmptySeq
    <3>2. PICK u \in Seq(T), e \in T : t = Append(u, e)
      BY <3>1, SequenceEmptyOrAppend
    <3>3. Len(u) = n - 1
      <4>1. Len(u) \in Nat /\ Len(t) = Len(u) + 1
        BY <3>2, AppendProperties, LenProperties
      <4>. QED
        BY <4>1, <2>1
    <3>4. u \in X
      BY <3>3, <1>3
    <3>. QED
      BY <3>2, <3>4
  <2>. QED
    BY <2>1, <1>1
<1>4. Len(s) \in Y
  <2>1. \A i \in 0..Len(s) : i \in Y
    <3>. HIDE DEF Y
    <3>. QED
      BY <1>1, <1>2, <1>3, NatSteps
  <2>. QED
    BY <2>1, <1>1
<1>. QED
  BY <1>4

\* One pass over the sequence, that has kept what it should of the first i elements.
Pass(T, s, S, kept) ==
    /\ kept \in [0..Len(s) -> Seq(T)]
    /\ kept[0] = <<>>
    /\ \A i \in 1..Len(s) :
          kept[i] = IF s[i] \in S THEN Append(kept[i - 1], s[i]) ELSE kept[i - 1]

\* Only is what such a pass ends with.
LEMMA OnlyRuns ==
    ASSUME NEW T, NEW s \in Seq(T), NEW S
    PROVE  \E kept : Pass(T, s, S, kept) /\ Only(s, S) = kept[Len(s)]
<1>. DEFINE n == Len(s)
            Runs(k) == k = [i \in 0..n |->
                          IF i = 0 THEN <<>>
                          ELSE IF s[i] \in S THEN Append(k[i - 1], s[i]) ELSE k[i - 1]]
            kept == CHOOSE k : Runs(k)
            F == [i \in 1..n |-> [q \in Seq(T) |-> IF s[i] \in S THEN Append(q, s[i]) ELSE q]]
<1>1. Only(s, S) = kept[n]
  BY DEF Only
<1>2. n \in Nat /\ \A i \in 1..n : s[i] \in T
  BY LenProperties, ElementOfSeq
<1>3. <<>> \in Seq(T)
  BY EmptySeq
<1>. HIDE DEF n
<1>4. \A i \in 1..n : \A q \in Seq(T) :
         (IF s[i] \in S THEN Append(q, s[i]) ELSE q) \in Seq(T)
  BY <1>2, AppendProperties
<1>5. F \in [1..n -> [Seq(T) -> Seq(T)]]
  BY <1>4
<1>6. \A i \in 1..n : \A q \in Seq(T) : F[i][q] = IF s[i] \in S THEN Append(q, s[i]) ELSE q
  OBVIOUS
<1>. HIDE DEF F
<1>7. PICK f : Iteration(n, Seq(T), <<>>, F, f)
  BY <1>2, <1>3, <1>5, Iterates
<1>8. Runs(f)
  <2>1. ASSUME NEW i \in 0..n
        PROVE  f[i] = IF i = 0 THEN <<>>
                      ELSE IF s[i] \in S THEN Append(f[i - 1], s[i]) ELSE f[i - 1]
    <3>1. CASE i = 0
      BY <3>1, <1>7 DEF Iteration
    <3>2. CASE i # 0
      <4>1. i \in 1..n /\ i - 1 \in 0..n
        BY <3>2, <1>2
      <4>2. f[i - 1] \in Seq(T) /\ f[i] = F[i][f[i - 1]]
        BY <4>1, <1>7 DEF Iteration
      <4>. QED
        BY <4>1, <4>2, <3>2, <1>6
    <3>. QED
      BY <3>1, <3>2
  <2>2. f = [i \in 0..n |-> f[i]]
    BY <1>7 DEF Iteration
  <2>. QED
    BY <2>1, <2>2
<1>9. Runs(kept)
  BY <1>8
<1>. HIDE DEF kept
<1>10. /\ kept[0] = <<>>
       /\ \A i \in 1..n : kept[i] = IF s[i] \in S THEN Append(kept[i - 1], s[i]) ELSE kept[i - 1]
  <2>1. 0 \in 0..n /\ \A i \in 1..n : i \in 0..n /\ i # 0
    BY <1>2
  <2>. QED
    BY <2>1, <1>9
<1>11. kept \in [0..n -> Seq(T)]
  <2>. DEFINE X == {i \in 0..n : kept[i] \in Seq(T)}
  <2>1. 0 \in X
    <3>1. 0 \in 0..n /\ kept[0] \in Seq(T)
      BY <1>2, <1>3, <1>10
    <3>. QED
      BY <3>1
  <2>2. ASSUME NEW i \in 1..n, i - 1 \in X PROVE i \in X
    <3>1. kept[i - 1] \in Seq(T) /\ s[i] \in T
      BY <2>2, <1>2
    <3>2. Append(kept[i - 1], s[i]) \in Seq(T)
      BY <3>1, AppendProperties
    <3>3. kept[i] \in Seq(T)
      BY <3>1, <3>2, <1>10
    <3>. QED
      BY <3>3, <1>2
  <2>3. \A i \in 0..n : i \in X
    <3>. HIDE DEF X
    <3>. QED
      BY <2>1, <2>2, <1>2, NatSteps
  <2>4. \A i \in 0..n : kept[i] \in Seq(T)
    BY <2>3
  <2>5. kept = [i \in 0..n |-> kept[i]]
    BY <1>9
  <2>. QED
    BY <2>4, <2>5
<1>. QED
  BY <1>1, <1>10, <1>11 DEF n, Pass

\* Of nothing, nothing is kept.
LEMMA OnlyEmpty == ASSUME NEW S PROVE Only(<<>>, S) = <<>>
<1>1. <<>> \in Seq({}) /\ Len(<<>>) = 0
  BY EmptySeq
<1>2. PICK kept : Pass({}, <<>>, S, kept) /\ Only(<<>>, S) = kept[Len(<<>>)]
  BY <1>1, OnlyRuns
<1>. QED
  BY <1>1, <1>2 DEF Pass

\* The elements of the sequence with one more at its end.
LEMMA AppendedSet ==
    ASSUME NEW T, NEW s \in Seq(T), NEW e \in T
    PROVE  /\ ToSet(Append(s, e)) = ToSet(s) \cup {e}
           /\ IsInjective(Append(s, e)) <=> IsInjective(s) /\ e \notin ToSet(s)
<1>. DEFINE a == Append(s, e)
            n == Len(s)
<1>1. /\ n \in Nat /\ DOMAIN s = 1..n /\ a \in Seq(T) /\ Len(a) = n + 1
      /\ \A i \in 1..n : a[i] = s[i]
      /\ a[n + 1] = e
  BY LenProperties, AppendProperties
<1>2. DOMAIN a = 1..(n + 1)
  BY <1>1, LenProperties
<1>3. 1..(n + 1) = 1..n \cup {n + 1} /\ n + 1 \notin 1..n
  BY <1>1
<1>. HIDE DEF a, n
<1>4. ToSet(a) = ToSet(s) \cup {e}
  BY <1>1, <1>2, <1>3 DEF ToSet
<1>5. ASSUME IsInjective(a) PROVE IsInjective(s) /\ e \notin ToSet(s)
  BY <1>1, <1>2, <1>3, <1>5 DEF IsInjective, ToSet
<1>6. ASSUME IsInjective(s), e \notin ToSet(s) PROVE IsInjective(a)
  BY <1>1, <1>2, <1>3, <1>6 DEF IsInjective, ToSet
<1>. QED
  BY <1>4, <1>5, <1>6 DEF a

\* What becomes of one more element at the end.
LEMMA OnlyAppend ==
    ASSUME NEW T, NEW s \in Seq(T), NEW e \in T, NEW S
    PROVE  Only(Append(s, e), S) = IF e \in S THEN Append(Only(s, S), e) ELSE Only(s, S)
<1>. DEFINE a == Append(s, e)
            n == Len(s)
<1>1. /\ n \in Nat /\ a \in Seq(T) /\ Len(a) = n + 1
      /\ \A i \in 1..n : a[i] = s[i]
      /\ a[n + 1] = e
  BY LenProperties, AppendProperties
<1>2. PICK k : Pass(T, s, S, k) /\ Only(s, S) = k[n]
  BY OnlyRuns
<1>3. /\ k[0] = <<>>
      /\ \A i \in 1..n : k[i] = IF s[i] \in S THEN Append(k[i - 1], s[i]) ELSE k[i - 1]
  BY <1>2 DEF Pass
<1>. HIDE DEF a
<1>4. PICK l : Pass(T, a, S, l) /\ Only(a, S) = l[n + 1]
  BY <1>1, OnlyRuns
<1>5. /\ l[0] = <<>>
      /\ \A i \in 1..(n + 1) : l[i] = IF a[i] \in S THEN Append(l[i - 1], a[i]) ELSE l[i - 1]
  BY <1>1, <1>4 DEF Pass
<1>. HIDE DEF n
<1>. DEFINE X == {i \in 0..n : l[i] = k[i]}
<1>6. 0 \in X
  BY <1>1, <1>3, <1>5
<1>7. ASSUME NEW i \in 1..n, i - 1 \in X PROVE i \in X
  <2>1. i \in 1..(n + 1) /\ i \in 0..n
    BY <1>1
  <2>2. l[i] = k[i]
    BY <1>7, <2>1, <1>1, <1>3, <1>5
  <2>. QED
    BY <2>1, <2>2
<1>8. \A i \in 0..n : i \in X
  <2>. HIDE DEF X
  <2>. QED
    BY <1>1, <1>6, <1>7, NatSteps
<1>9. l[n] = k[n] /\ n + 1 \in 1..(n + 1) /\ n + 1 - 1 = n
  BY <1>1, <1>8
<1>10. l[n + 1] = IF e \in S THEN Append(l[n], e) ELSE l[n]
  BY <1>1, <1>5, <1>9
<1>. QED
  BY <1>2, <1>4, <1>9, <1>10 DEF a

\* The elements kept are those of the sequence that are in S; none is kept twice.
LEMMA OnlyKeeps ==
    ASSUME NEW T, NEW s \in Seq(T), NEW S
    PROVE  /\ Only(s, S) \in Seq(T)
           /\ ToSet(Only(s, S)) = ToSet(s) \cap S
           /\ IsInjective(s) => IsInjective(Only(s, S))
<1>. DEFINE Good(t) == /\ Only(t, S) \in Seq(T)
                       /\ ToSet(Only(t, S)) = ToSet(t) \cap S
                       /\ IsInjective(t) => IsInjective(Only(t, S))
            X == {t \in Seq(T) : Good(t)}
<1>1. <<>> \in X
  <2>1. <<>> \in Seq(T) /\ Only(<<>>, S) = <<>> /\ DOMAIN <<>> = {}
    BY EmptySeq, OnlyEmpty
  <2>. QED
    BY <2>1 DEF ToSet
<1>2. ASSUME NEW t \in Seq(T), NEW e \in T, t \in X PROVE Append(t, e) \in X
  <2>. DEFINE a == Append(t, e)
              o == Only(t, S)
  <2>1. a \in Seq(T) /\ Only(a, S) = IF e \in S THEN Append(o, e) ELSE o
    BY OnlyAppend, AppendProperties
  <2>2. o \in Seq(T) /\ ToSet(o) = ToSet(t) \cap S /\ (IsInjective(t) => IsInjective(o))
    BY <1>2
  <2>3. ToSet(a) = ToSet(t) \cup {e} /\ (IsInjective(a) <=> IsInjective(t) /\ e \notin ToSet(t))
    BY AppendedSet
  <2>. HIDE DEF a, o
  <2>4. /\ Append(o, e) \in Seq(T) /\ ToSet(Append(o, e)) = ToSet(o) \cup {e}
        /\ IsInjective(Append(o, e)) <=> IsInjective(o) /\ e \notin ToSet(o)
    BY <2>2, AppendedSet, AppendProperties
  <2>5. Good(a)
    <3>1. CASE e \in S
      BY <3>1, <2>1, <2>2, <2>3, <2>4
    <3>2. CASE e \notin S
      BY <3>2, <2>1, <2>2, <2>3
    <3>. QED
      BY <3>1, <3>2
  <2>. QED
    BY <2>1, <2>5 DEF a
<1>3. s \in X
  <2>. HIDE DEF X
  <2>. QED
    BY <1>1, <1>2, SeqSteps
<1>. QED
  BY <1>3

\* To keep some of what was kept is to keep what is in both.
LEMMA OnlyTwice ==
    ASSUME NEW T, NEW s \in Seq(T), NEW A, NEW B
    PROVE  Only(Only(s, A), B) = Only(s, A \cap B)
<1>. DEFINE X == {t \in Seq(T) : Only(Only(t, A), B) = Only(t, A \cap B)}
<1>1. <<>> \in X
  BY EmptySeq, OnlyEmpty
<1>2. ASSUME NEW t \in Seq(T), NEW e \in T, t \in X PROVE Append(t, e) \in X
  <2>. DEFINE a == Append(t, e)
              o == Only(t, A)
              p == Only(t, A \cap B)
  <2>1. a \in Seq(T) /\ Only(a, A) = IF e \in A THEN Append(o, e) ELSE o
    BY OnlyAppend, AppendProperties
  <2>2. Only(a, A \cap B) = IF e \in A \cap B THEN Append(p, e) ELSE p
    BY OnlyAppend
  <2>3. o \in Seq(T) /\ Only(o, B) = p
    BY <1>2, OnlyKeeps
  <2>. HIDE DEF a, o, p
  <2>4. Only(Append(o, e), B) = IF e \in B THEN Append(p, e) ELSE p
    BY <2>3, OnlyAppend
  <2>5. Only(Only(a, A), B) = Only(a, A \cap B)
    <3>1. CASE e \in A
      BY <3>1, <2>1, <2>2, <2>4
    <3>2. CASE e \notin A
      BY <3>2, <2>1, <2>2, <2>3
    <3>. QED
      BY <3>1, <3>2
  <2>. QED
    BY <2>1, <2>5 DEF a
<1>3. s \in X
  <2>. HIDE DEF X
  <2>. QED
    BY <1>1, <1>2, SeqSteps
<1>. QED
  BY <1>3

\* All that is there is kept, in its order.
LEMMA OnlyAll ==
    ASSUME NEW T, NEW s \in Seq(T), NEW S, ToSet(s) \subseteq S
    PROVE  Only(s, S) = s
<1>. DEFINE X == {t \in Seq(T) : ToSet(t) \subseteq S => Only(t, S) = t}
<1>1. <<>> \in X
  BY EmptySeq, OnlyEmpty
<1>2. ASSUME NEW t \in Seq(T), NEW e \in T, t \in X PROVE Append(t, e) \in X
  <2>1. ToSet(Append(t, e)) = ToSet(t) \cup {e}
    BY AppendedSet
  <2>2. Append(t, e) \in Seq(T) /\ Only(Append(t, e), S) = IF e \in S THEN Append(Only(t, S), e) ELSE Only(t, S)
    BY OnlyAppend, AppendProperties
  <2>. QED
    BY <2>1, <2>2, <1>2
<1>3. s \in X
  <2>. HIDE DEF X
  <2>. QED
    BY <1>1, <1>2, SeqSteps
<1>. QED
  BY <1>3

\* None of it is kept.
LEMMA OnlyNone ==
    ASSUME NEW T, NEW s \in Seq(T), NEW S, ToSet(s) \cap S = {}
    PROVE  Only(s, S) = <<>>
<1>1. Only(s, S) \in Seq(T) /\ ToSet(Only(s, S)) = {}
  BY OnlyKeeps
<1>. DEFINE o == Only(s, S)
<1>. HIDE DEF o
<1>2. ASSUME NEW t \in Seq(T), ToSet(t) = {} PROVE t = <<>>
  <2>1. Len(t) \in Nat /\ DOMAIN t = 1..Len(t)
    BY LenProperties
  <2>2. Len(t) = 0
    <3>1. ~(1 \in DOMAIN t)
      BY <1>2 DEF ToSet
    <3>. QED
      BY <3>1, <2>1
  <2>. QED
    BY <2>2, EmptySeq
<1>. QED
  BY <1>1, <1>2

\* Only depends on the elements that the sequence has.
LEMMA OnlySame ==
    ASSUME NEW T, NEW s \in Seq(T), NEW A, NEW B, ToSet(s) \cap A = ToSet(s) \cap B
    PROVE  Only(s, A) = Only(s, B)
<1>1. Only(s, ToSet(s)) = s
  BY OnlyAll
<1>2. Only(Only(s, ToSet(s)), A) = Only(s, ToSet(s) \cap A)
  BY OnlyTwice
<1>3. Only(Only(s, ToSet(s)), B) = Only(s, ToSet(s) \cap B)
  BY OnlyTwice
<1>. QED
  BY <1>1, <1>2, <1>3

\* One more element at the end of the second of two sequences in a row.
LEMMA ConcatAppend ==
    ASSUME NEW T, NEW s \in Seq(T), NEW t \in Seq(T), NEW e \in T
    PROVE  s \o Append(t, e) = Append(s \o t, e)
<1>1. <<e>> \in Seq(T) /\ s \o t \in Seq(T)
  BY ConcatProperties
<1>2. Append(t, e) = t \o <<e>>
  BY AppendIsConcat
<1>3. Append(s \o t, e) = (s \o t) \o <<e>>
  BY <1>1, AppendIsConcat
<1>4. (s \o t) \o <<e>> = s \o (t \o <<e>>)
  BY <1>1, ConcatAssociative
<1>. QED
  BY <1>2, <1>3, <1>4

\* What is kept of two sequences in a row.
LEMMA OnlyConcat ==
    ASSUME NEW T, NEW s \in Seq(T), NEW u \in Seq(T), NEW S
    PROVE  Only(s \o u, S) = Only(s, S) \o Only(u, S)
<1>. DEFINE o == Only(s, S)
            X == {t \in Seq(T) : Only(s \o t, S) = o \o Only(t, S)}
<1>0. o \in Seq(T)
  BY OnlyKeeps
<1>1. <<>> \in X
  <2>1. <<>> \in Seq(T) /\ s \o <<>> = s /\ o \o <<>> = o
    BY <1>0, EmptySeq, ConcatEmptySeq
  <2>. QED
    BY <2>1, OnlyEmpty
<1>. HIDE DEF o
<1>2. ASSUME NEW t \in Seq(T), NEW e \in T, t \in X PROVE Append(t, e) \in X
  <2>. DEFINE p == Only(t, S)
  <2>1. p \in Seq(T) /\ Append(t, e) \in Seq(T) /\ s \o t \in Seq(T) /\ <<e>> \in Seq(T)
    BY OnlyKeeps, AppendProperties, ConcatProperties
  <2>2. Only(Append(t, e), S) = IF e \in S THEN Append(p, e) ELSE p
    BY OnlyAppend
  <2>3. Only(s \o t, S) = o \o p
    BY <1>2
  <2>. HIDE DEF p
  <2>4. s \o Append(t, e) = Append(s \o t, e)
    BY ConcatAppend
  <2>5. Only(Append(s \o t, e), S) = IF e \in S THEN Append(Only(s \o t, S), e) ELSE Only(s \o t, S)
    BY <2>1, OnlyAppend
  <2>6. o \o Append(p, e) = Append(o \o p, e)
    BY <1>0, <2>1, ConcatAppend
  <2>7. Only(s \o Append(t, e), S) = o \o Only(Append(t, e), S)
    BY <2>2, <2>3, <2>4, <2>5, <2>6
  <2>. QED
    BY <2>1, <2>7
<1>3. u \in X
  <2>. HIDE DEF X
  <2>. QED
    BY <1>1, <1>2, SeqSteps
<1>. QED
  BY <1>3 DEF o

\* The elements of two sequences in a row.
LEMMA ConcatSet ==
    ASSUME NEW T, NEW s \in Seq(T), NEW u \in Seq(T)
    PROVE  /\ ToSet(s \o u) = ToSet(s) \cup ToSet(u)
           /\ IsInjective(s) /\ IsInjective(u) /\ ToSet(s) \cap ToSet(u) = {} => IsInjective(s \o u)
<1>. DEFINE c == s \o u
            m == Len(s)
            n == Len(u)
<1>1. /\ m \in Nat /\ n \in Nat /\ c \in Seq(T) /\ Len(c) = m + n
      /\ \A i \in 1..(m + n) : c[i] = IF i <= m THEN s[i] ELSE u[i - m]
      /\ DOMAIN s = 1..m /\ DOMAIN u = 1..n
  BY LenProperties, ConcatProperties
<1>2. DOMAIN c = 1..(m + n)
  BY <1>1, LenProperties
<1>. HIDE DEF c, m, n
<1>3. \A i \in 1..m : i \in 1..(m + n) /\ c[i] = s[i]
  BY <1>1
<1>4. \A i \in 1..n : i + m \in 1..(m + n) /\ c[i + m] = u[i]
  <2>. SUFFICES ASSUME NEW i \in 1..n PROVE i + m \in 1..(m + n) /\ c[i + m] = u[i]
    OBVIOUS
  <2>1. i + m \in 1..(m + n) /\ ~(i + m <= m) /\ (i + m) - m = i
    BY <1>1
  <2>. QED
    BY <2>1, <1>1
<1>5. \A i \in 1..(m + n) : \/ i \in 1..m /\ c[i] = s[i]
                            \/ i - m \in 1..n /\ c[i] = u[i - m]
  <2>. SUFFICES ASSUME NEW i \in 1..(m + n)
                PROVE  \/ i \in 1..m /\ c[i] = s[i]
                       \/ i - m \in 1..n /\ c[i] = u[i - m]
    OBVIOUS
  <2>1. CASE i <= m
    BY <2>1, <1>1
  <2>2. CASE ~(i <= m)
    <3>1. i - m \in 1..n
      BY <2>2, <1>1
    <3>. QED
      BY <3>1, <2>2, <1>1
  <2>. QED
    BY <2>1, <2>2
<1>6. ToSet(c) \subseteq ToSet(s) \cup ToSet(u)
  BY <1>1, <1>2, <1>5 DEF ToSet
<1>7. ToSet(s) \subseteq ToSet(c) /\ ToSet(u) \subseteq ToSet(c)
  <2>1. ToSet(s) = {s[i] : i \in 1..m} /\ ToSet(u) = {u[i] : i \in 1..n}
    BY <1>1 DEF ToSet
  <2>2. ToSet(c) = {c[i] : i \in 1..(m + n)}
    BY <1>2 DEF ToSet
  <2>3. \A i \in 1..m : s[i] \in ToSet(c)
    BY <2>2, <1>3
  <2>4. \A i \in 1..n : u[i] \in ToSet(c)
    BY <2>2, <1>4
  <2>. QED
    BY <2>1, <2>3, <2>4
<1>8. ASSUME IsInjective(s), IsInjective(u), ToSet(s) \cap ToSet(u) = {} PROVE IsInjective(c)
  <2>1. \A i \in 1..m, j \in 1..n : s[i] # u[j]
    BY <1>1, <1>8 DEF ToSet
  <2>2. ASSUME NEW i \in 1..(m + n), NEW j \in 1..(m + n), c[i] = c[j] PROVE i = j
    <3>1. CASE i \in 1..m /\ j \in 1..m /\ c[i] = s[i] /\ c[j] = s[j]
      BY <3>1, <2>2, <1>1, <1>8 DEF IsInjective
    <3>2. CASE i - m \in 1..n /\ j - m \in 1..n /\ c[i] = u[i - m] /\ c[j] = u[j - m]
      <4>1. i - m = j - m
        BY <3>2, <2>2, <1>1, <1>8 DEF IsInjective
      <4>. QED
        BY <4>1, <1>1
    <3>. QED
      BY <3>1, <3>2, <2>1, <2>2, <1>5
  <2>. QED
    BY <2>2, <1>2 DEF IsInjective
<1>. QED
  BY <1>6, <1>7, <1>8 DEF c

-----------------------------------------------------------------------------
(* Transitions: mergeChildMappings.                                        *)

\* The first n children of next, each behind the children of prev that keep their place.
Merges(T, prev, next, m) ==
    /\ m \in [0..Len(next) -> Seq(T)]
    /\ m[0] = <<>>
    /\ \A i \in 1..Len(next) :
          m[i] = m[i - 1] \o Append(Only(prev, Preceding(prev, next, next[i])), next[i])

\* mergeChildMappings makes such a list, and puts the rest of prev behind it.
LEMMA MergeRuns ==
    ASSUME NEW T, NEW prev \in Seq(T), NEW next \in Seq(T)
    PROVE  \E m : /\ Merges(T, prev, next, m)
                  /\ MergeChildMappings(prev, next) =
                        m[Len(next)] \o Only(prev, Trailing(prev, next))
<1>. DEFINE n == Len(next)
            Piece(i) == Append(Only(prev, Preceding(prev, next, next[i])), next[i])
            Runs(k) == k = [i \in 0..n |-> IF i = 0 THEN <<>> ELSE k[i - 1] \o Piece(i)]
            m == CHOOSE k : Runs(k)
            F == [i \in 1..n |-> [q \in Seq(T) |-> q \o Piece(i)]]
<1>1. MergeChildMappings(prev, next) = m[n] \o Only(prev, Trailing(prev, next))
  BY DEF MergeChildMappings
<1>2. n \in Nat /\ <<>> \in Seq(T)
  BY LenProperties, EmptySeq
<1>3. ASSUME NEW i \in 1..n PROVE Piece(i) \in Seq(T)
  <2>1. next[i] \in T
    BY ElementOfSeq
  <2>2. Only(prev, Preceding(prev, next, next[i])) \in Seq(T)
    BY OnlyKeeps
  <2>. QED
    BY <2>1, <2>2, AppendProperties
<1>. HIDE DEF n, Piece
<1>4. \A i \in 1..n : \A q \in Seq(T) : q \o Piece(i) \in Seq(T)
  BY <1>3, ConcatProperties
<1>5. F \in [1..n -> [Seq(T) -> Seq(T)]]
  BY <1>4
<1>6. \A i \in 1..n : \A q \in Seq(T) : F[i][q] = q \o Piece(i)
  OBVIOUS
<1>. HIDE DEF F
<1>7. PICK f : Iteration(n, Seq(T), <<>>, F, f)
  BY <1>2, <1>5, Iterates
<1>8. Runs(f)
  <2>1. ASSUME NEW i \in 0..n PROVE f[i] = IF i = 0 THEN <<>> ELSE f[i - 1] \o Piece(i)
    <3>1. CASE i = 0
      BY <3>1, <1>7 DEF Iteration
    <3>2. CASE i # 0
      <4>1. i \in 1..n /\ i - 1 \in 0..n
        BY <3>2, <1>2
      <4>2. f[i - 1] \in Seq(T) /\ f[i] = F[i][f[i - 1]]
        BY <4>1, <1>7 DEF Iteration
      <4>. QED
        BY <4>1, <4>2, <3>2, <1>6
    <3>. QED
      BY <3>1, <3>2
  <2>2. f = [i \in 0..n |-> f[i]]
    BY <1>7 DEF Iteration
  <2>. QED
    BY <2>1, <2>2
<1>9. Runs(m)
  BY <1>8
<1>. HIDE DEF m
<1>10. m[0] = <<>> /\ \A i \in 1..n : m[i] = m[i - 1] \o Piece(i)
  <2>1. 0 \in 0..n /\ \A i \in 1..n : i \in 0..n /\ i # 0
    BY <1>2
  <2>. QED
    BY <2>1, <1>9
<1>11. m \in [0..n -> Seq(T)]
  <2>. DEFINE X == {i \in 0..n : m[i] \in Seq(T)}
  <2>1. 0 \in X
    <3>1. 0 \in 0..n /\ m[0] \in Seq(T)
      BY <1>2, <1>10
    <3>. QED
      BY <3>1
  <2>2. ASSUME NEW i \in 1..n, i - 1 \in X PROVE i \in X
    <3>1. m[i] \in Seq(T)
      BY <2>2, <1>4, <1>10
    <3>. QED
      BY <3>1, <1>2
  <2>3. \A i \in 0..n : i \in X
    <3>. HIDE DEF X
    <3>. QED
      BY <2>1, <2>2, <1>2, NatSteps
  <2>4. \A i \in 0..n : m[i] \in Seq(T)
    BY <2>3
  <2>5. m = [i \in 0..n |-> m[i]]
    BY <1>9
  <2>. QED
    BY <2>4, <2>5
<1>. QED
  BY <1>1, <1>10, <1>11 DEF n, Piece, Merges

\* What keeps its place among what both have is what next does not have.
LEMMA OldChildren ==
    ASSUME NEW T, NEW prev \in Seq(T), NEW next
    PROVE  /\ \A k : Preceding(prev, next, k) \subseteq ToSet(prev) \ ToSet(next)
           /\ Trailing(prev, next) \subseteq ToSet(prev) \ ToSet(next)
<1>1. DOMAIN prev = 1..Len(prev) /\ Len(prev) \in Nat
  BY LenProperties
<1>2. ASSUME NEW k, NEW x \in Preceding(prev, next, k) PROVE x \in ToSet(prev) \ ToSet(next)
  <2>1. PICK j \in DOMAIN prev, i \in DOMAIN prev :
           x = prev[j] /\ j < i /\ Skips(prev, next, j, i - 1)
    BY <1>2 DEF Preceding
  <2>2. j \in j..(i - 1)
    BY <2>1, <1>1
  <2>. QED
    BY <2>1, <2>2 DEF Skips, ToSet
<1>3. ASSUME NEW x \in Trailing(prev, next) PROVE x \in ToSet(prev) \ ToSet(next)
  <2>1. PICK j \in DOMAIN prev : x = prev[j] /\ Skips(prev, next, j, Len(prev))
    BY <1>3 DEF Trailing
  <2>2. j \in j..Len(prev)
    BY <1>1
  <2>. QED
    BY <2>1, <2>2 DEF Skips, ToSet
<1>. QED
  BY <1>2, <1>3

\* What next has is in the merged list in the order of next.
LEMMA MergeKeepsOrder ==
    ASSUME NEW T, NEW prev \in Seq(T), NEW next \in Seq(T)
    PROVE  Only(MergeChildMappings(prev, next), ToSet(next)) = next
<1>. DEFINE N == ToSet(next)
<1>. HIDE DEF N
<1>0. \A q, a \in Seq(T) : Only(q \o a, N) = Only(q, N) \o Only(a, N)
  <2>. TAKE q, a \in Seq(T)
  <2>. QED
    BY OnlyConcat
<1>. USE DEF N
<1>. DEFINE n == Len(next)
            O == Only(prev, Trailing(prev, next))
            P(i) == Only(prev, Preceding(prev, next, next[i]))
<1>1. PICK m : Merges(T, prev, next, m) /\ MergeChildMappings(prev, next) = m[n] \o O
  BY MergeRuns
<1>2. n \in Nat /\ DOMAIN next = 1..n /\ \A i \in 1..n : next[i] \in T /\ next[i] \in N
  BY LenProperties, ElementOfSeq DEF ToSet
<1>3. O \in Seq(T) /\ Only(O, N) = <<>>
  <2>1. O \in Seq(T) /\ ToSet(O) \subseteq Trailing(prev, next)
    BY OnlyKeeps
  <2>2. ToSet(O) \cap N = {}
    BY <2>1, OldChildren
  <2>. HIDE DEF O
  <2>. QED
    BY <2>1, <2>2, OnlyNone
<1>4. ASSUME NEW i \in 1..n PROVE P(i) \in Seq(T) /\ Only(P(i), N) = <<>>
  <2>. DEFINE p == P(i)
  <2>1. p \in Seq(T) /\ ToSet(p) \subseteq Preceding(prev, next, next[i])
    BY OnlyKeeps
  <2>2. ToSet(p) \cap N = {}
    BY <2>1, OldChildren
  <2>. HIDE DEF p
  <2>3. Only(p, N) = <<>>
    BY <2>1, <2>2, OnlyNone
  <2>. QED
    BY <2>1, <2>3 DEF p
<1>5. /\ m \in [0..n -> Seq(T)] /\ m[0] = <<>>
      /\ \A i \in 1..n : m[i] = m[i - 1] \o Append(P(i), next[i])
  BY <1>1 DEF Merges
<1>. HIDE DEF n, N, O, P
<1>. DEFINE X == {i \in 0..n : Only(m[i], N) = SubSeq(next, 1, i)}
<1>6. 0 \in X
  <2>1. SubSeq(next, 1, 0) = <<>>
    BY SubSeqEmpty
  <2>. QED
    BY <2>1, <1>2, <1>5, OnlyEmpty
<1>7. ASSUME NEW i \in 1..n, i - 1 \in X PROVE i \in X
  <2>. DEFINE e == next[i]
              p == P(i)
              s == SubSeq(next, 1, i - 1)
  <2>1. e \in T /\ e \in N /\ p \in Seq(T) /\ Only(p, N) = <<>>
    BY <1>2, <1>4
  <2>2. i - 1 \in 0..n /\ i \in 0..n /\ m[i - 1] \in Seq(T) /\ Only(m[i - 1], N) = s
    BY <1>2, <1>5, <1>7
  <2>3. m[i] = m[i - 1] \o Append(p, e)
    BY <1>5
  <2>4. SubSeq(next, 1, i) = s \o <<e>>
    <3>1. 1 \in 1..Len(next) /\ i \in 1..Len(next)
      BY <1>2 DEF n
    <3>. QED
      BY <3>1, SubSeqRecursiveSecond
  <2>. HIDE DEF e, p, s
  <2>5. Append(p, e) \in Seq(T)
    BY <2>1, AppendProperties
  <2>6. Only(Append(p, e), N) = Append(<<>>, e)
    BY <2>1, OnlyAppend
  <2>7. Append(<<>>, e) = <<e>>
    OBVIOUS
  <2>8. Only(m[i - 1] \o Append(p, e), N) = s \o <<e>>
    <3>. DEFINE q == m[i - 1]
                a == Append(p, e)
    <3>1. q \in Seq(T) /\ a \in Seq(T) /\ Only(q, N) = s /\ Only(a, N) = <<e>>
      BY <2>2, <2>5, <2>6, <2>7
    <3>. HIDE DEF q, a
    <3>2. Only(q \o a, N) = Only(q, N) \o Only(a, N)
      BY <3>1, <1>0
    <3>. QED
      BY <3>1, <3>2 DEF q, a
  <2>. QED
    BY <2>2, <2>3, <2>4, <2>8
<1>8. \A i \in 0..n : i \in X
  <2>. HIDE DEF X
  <2>. QED
    BY <1>2, <1>6, <1>7, NatSteps
<1>9. m[n] \in Seq(T) /\ Only(m[n], N) = next
  <2>1. n \in 0..n
    BY <1>2
  <2>2. SubSeq(next, 1, n) = next
    BY SubSeqFull DEF n
  <2>. QED
    BY <2>1, <2>2, <1>5, <1>8
<1>10. Only(m[n] \o O, N) = next \o <<>>
  <2>. DEFINE q == m[n]
  <2>1. q \in Seq(T) /\ Only(q, N) = next
    BY <1>9
  <2>. HIDE DEF q
  <2>2. Only(q \o O, N) = Only(q, N) \o Only(O, N)
    BY <2>1, <1>3, <1>0
  <2>. QED
    BY <2>1, <2>2, <1>3 DEF q
<1>11. next \o <<>> = next
  BY ConcatEmptySeq
<1>. QED
  BY <1>1, <1>10, <1>11 DEF N, n, O

\* Only one child is the first of next's ahead of a place, and a child that has one is not
\* behind the last of them.
LEMMA PlacesApart ==
    ASSUME NEW T, NEW prev \in Seq(T), IsInjective(prev), NEW next,
           NEW x \in ToSet(next), NEW y \in ToSet(next)
    PROVE  /\ x # y => Preceding(prev, next, x) \cap Preceding(prev, next, y) = {}
           /\ Preceding(prev, next, x) \cap Trailing(prev, next) = {}
<1>1. DOMAIN prev = 1..Len(prev) /\ Len(prev) \in Nat
  BY LenProperties
<1>2. ASSUME NEW k \in Preceding(prev, next, x)
      PROVE  \E j \in DOMAIN prev, i \in DOMAIN prev :
                k = prev[j] /\ j < i /\ prev[i] = x /\ Skips(prev, next, j, i - 1)
  BY <1>2 DEF Preceding
<1>3. ASSUME NEW k \in Preceding(prev, next, y)
      PROVE  \E j \in DOMAIN prev, i \in DOMAIN prev :
                k = prev[j] /\ j < i /\ prev[i] = y /\ Skips(prev, next, j, i - 1)
  BY <1>3 DEF Preceding
<1>4. ASSUME x # y, NEW k \in Preceding(prev, next, x), k \in Preceding(prev, next, y)
      PROVE  FALSE
  <2>1. PICK j \in DOMAIN prev, i \in DOMAIN prev :
           k = prev[j] /\ j < i /\ prev[i] = x /\ Skips(prev, next, j, i - 1)
    BY <1>2, <1>4
  <2>2. PICK a \in DOMAIN prev, b \in DOMAIN prev :
           k = prev[a] /\ a < b /\ prev[b] = y /\ Skips(prev, next, a, b - 1)
    BY <1>3, <1>4
  <2>3. a = j
    BY <2>1, <2>2 DEF IsInjective
  <2>4. CASE i < b
    <3>1. i \in a..(b - 1)
      BY <2>1, <2>2, <2>3, <2>4, <1>1
    <3>. QED
      BY <3>1, <2>1, <2>2 DEF Skips
  <2>5. CASE b < i
    <3>1. b \in j..(i - 1)
      BY <2>1, <2>2, <2>3, <2>5, <1>1
    <3>. QED
      BY <3>1, <2>1, <2>2 DEF Skips
  <2>6. i < b \/ b < i \/ i = b
    BY <1>1
  <2>. QED
    BY <1>4, <2>1, <2>2, <2>4, <2>5, <2>6
<1>5. ASSUME NEW k \in Preceding(prev, next, x), k \in Trailing(prev, next) PROVE FALSE
  <2>1. PICK j \in DOMAIN prev, i \in DOMAIN prev :
           k = prev[j] /\ j < i /\ prev[i] = x /\ Skips(prev, next, j, i - 1)
    BY <1>2, <1>5
  <2>2. PICK a \in DOMAIN prev : k = prev[a] /\ Skips(prev, next, a, Len(prev))
    BY <1>5 DEF Trailing
  <2>3. a = j
    BY <2>1, <2>2 DEF IsInjective
  <2>4. i \in a..Len(prev)
    BY <2>1, <2>3, <1>1
  <2>. QED
    BY <2>1, <2>2, <2>4 DEF Skips
<1>. QED
  BY <1>4, <1>5

\* Every child that only prev has keeps a place.
LEMMA PlacesCover ==
    ASSUME NEW T, NEW prev \in Seq(T), NEW next, NEW k \in ToSet(prev) \ ToSet(next)
    PROVE  \/ k \in Trailing(prev, next)
           \/ \E x \in ToSet(next) : k \in Preceding(prev, next, x)
<1>. DEFINE n == Len(prev)
<1>1. DOMAIN prev = 1..n /\ n \in Nat
  BY LenProperties
<1>2. PICK j \in DOMAIN prev : k = prev[j]
  BY DEF ToSet
<1>. HIDE DEF n
<1>. DEFINE Ahead == {i \in 1..n : i >= j /\ prev[i] \in ToSet(next)}
<1>3. CASE Ahead = {}
  <2>1. ASSUME NEW i \in j..n PROVE prev[i] \notin ToSet(next)
    <3>1. i \in 1..n /\ i >= j
      BY <1>1, <1>2
    <3>. QED
      BY <3>1, <1>3
  <2>2. Skips(prev, next, j, n)
    BY <2>1 DEF Skips
  <2>. QED
    BY <2>2, <1>2 DEF Trailing, n
<1>4. CASE Ahead # {}
  <2>1. Ahead \subseteq 1..n
    OBVIOUS
  <2>2. PICK i \in Ahead : \A a \in Ahead : i <= a
    <3>. HIDE DEF Ahead
    <3>. QED
      BY <2>1, <1>1, <1>4, FirstOne
  <2>3. i \in 1..n /\ i >= j /\ prev[i] \in ToSet(next)
    BY <2>2
  <2>4. j < i
    <3>1. i # j
      BY <1>2, <2>3
    <3>. QED
      BY <3>1, <2>3, <1>1, <1>2
  <2>5. ASSUME NEW a \in j..(i - 1) PROVE prev[a] \notin ToSet(next)
    <3>1. a \in 1..n /\ a >= j /\ a < i
      BY <1>1, <1>2, <2>3
    <3>2. a \notin Ahead
      <4>. HIDE DEF Ahead
      <4>. QED
        BY <3>1, <2>2, <2>3
    <3>. QED
      BY <3>1, <3>2
  <2>6. Skips(prev, next, j, i - 1)
    BY <2>5 DEF Skips
  <2>7. k \in Preceding(prev, next, prev[i])
    BY <2>3, <2>4, <2>6, <1>1, <1>2 DEF Preceding
  <2>. QED
    BY <2>3, <2>7
<1>. QED
  BY <1>3, <1>4

\* The merged list has the children of both, each once.
LEMMA MergeKeepsAll ==
    ASSUME NEW T, NEW prev \in Seq(T), IsInjective(prev), NEW next \in Seq(T), IsInjective(next)
    PROVE  /\ MergeChildMappings(prev, next) \in Seq(T)
           /\ ToSet(MergeChildMappings(prev, next)) = ToSet(prev) \cup ToSet(next)
           /\ IsInjective(MergeChildMappings(prev, next))
<1>. DEFINE n == Len(next)
            N == ToSet(next)
            O == Only(prev, Trailing(prev, next))
            Q(x) == Preceding(prev, next, x)
            P(i) == Only(prev, Q(next[i]))
<1>1. PICK m : Merges(T, prev, next, m) /\ MergeChildMappings(prev, next) = m[n] \o O
  BY MergeRuns
<1>2. /\ n \in Nat /\ DOMAIN next = 1..n
      /\ N = {next[i] : i \in 1..n}
      /\ \A i \in 1..n : next[i] \in T /\ next[i] \in N
      /\ \A i, j \in 1..n : next[i] = next[j] => i = j
  BY LenProperties, ElementOfSeq DEF ToSet, IsInjective
<1>3. O \in Seq(T) /\ IsInjective(O) /\ ToSet(O) = Trailing(prev, next)
  <2>1. ToSet(O) = ToSet(prev) \cap Trailing(prev, next)
    BY OnlyKeeps
  <2>2. O \in Seq(T) /\ IsInjective(O)
    BY OnlyKeeps
  <2>3. Trailing(prev, next) \subseteq ToSet(prev)
    BY OldChildren
  <2>. QED
    BY <2>1, <2>2, <2>3
<1>4. \A i \in 1..n : P(i) \in Seq(T) /\ IsInjective(P(i)) /\ ToSet(P(i)) = Q(next[i])
  <2>1. ASSUME NEW x
        PROVE  /\ Only(prev, Q(x)) \in Seq(T)
               /\ IsInjective(Only(prev, Q(x)))
               /\ ToSet(Only(prev, Q(x))) = Q(x)
    <3>1. ToSet(Only(prev, Q(x))) = ToSet(prev) \cap Q(x)
      BY OnlyKeeps
    <3>2. Only(prev, Q(x)) \in Seq(T) /\ IsInjective(Only(prev, Q(x)))
      BY OnlyKeeps
    <3>3. Q(x) \subseteq ToSet(prev)
      BY OldChildren
    <3>. QED
      BY <3>1, <3>2, <3>3
  <2>. QED
    BY <2>1
<1>5. \A x, y \in N : /\ x # y => Q(x) \cap Q(y) = {}
                      /\ Q(x) \cap Trailing(prev, next) = {}
  BY PlacesApart
<1>6. /\ \A x : Q(x) \subseteq ToSet(prev) \ N
      /\ Trailing(prev, next) \subseteq ToSet(prev) \ N
  BY OldChildren
<1>7. /\ m \in [0..n -> Seq(T)] /\ m[0] = <<>>
      /\ \A i \in 1..n : m[i] = m[i - 1] \o Append(P(i), next[i])
  BY <1>1 DEF Merges
<1>8. ToSet(prev) \ N \subseteq Trailing(prev, next) \cup UNION {Q(x) : x \in N}
  BY PlacesCover
<1>. HIDE DEF n, N, O, P, Q
<1>. DEFINE Had(i) == {next[j] : j \in 1..i} \cup UNION {Q(next[j]) : j \in 1..i}
            X == {i \in 0..n : ToSet(m[i]) = Had(i) /\ IsInjective(m[i])}
<1>9. 0 \in X
  <2>1. ToSet(<<>>) = {} /\ IsInjective(<<>>)
    BY DEF ToSet, IsInjective
  <2>2. Had(0) = {}
    OBVIOUS
  <2>. QED
    BY <2>1, <2>2, <1>2, <1>7
<1>10. ASSUME NEW i \in 1..n, i - 1 \in X PROVE i \in X
  <2>. DEFINE e == next[i]
              p == P(i)
              a == Append(p, e)
              q == m[i - 1]
  <2>1. /\ e \in T /\ e \in N
        /\ p \in Seq(T) /\ IsInjective(p) /\ ToSet(p) = Q(e)
    BY <1>2, <1>4
  <2>2. i - 1 \in 0..n /\ i \in 0..n /\ q \in Seq(T) /\ ToSet(q) = Had(i - 1) /\ IsInjective(q)
    <3>1. i - 1 \in 0..n /\ i \in 0..n
      BY <1>2
    <3>2. q \in Seq(T)
      BY <3>1, <1>7
    <3>3. ToSet(q) = Had(i - 1) /\ IsInjective(q)
      <4>. HIDE DEF Had
      <4>. QED
        BY <1>10
    <3>. QED
      BY <3>1, <3>2, <3>3
  <2>3. m[i] = q \o a
    BY <1>7
  <2>4. Had(i) = Had(i - 1) \cup Q(e) \cup {e}
    <3>1. 1..i = 1..(i - 1) \cup {i}
      BY <1>2
    <3>. QED
      BY <3>1
  <2>5. \A j \in 1..(i - 1) : next[j] \in N /\ next[j] # e
    <3>1. \A j \in 1..(i - 1) : j \in 1..n /\ j # i
      BY <1>2
    <3>. QED
      BY <3>1, <1>2
  <2>6. Had(i - 1) \cap (Q(e) \cup {e}) = {}
    <3>. HIDE DEF e
    <3>. QED
      BY <2>1, <2>5, <1>5, <1>6
  <2>. HIDE DEF e, p, q, Had
  <2>7. a \in Seq(T) /\ ToSet(a) = Q(e) \cup {e} /\ IsInjective(a)
    <3>1. e \notin Q(e)
      BY <2>1, <1>6
    <3>. QED
      BY <3>1, <2>1, AppendedSet, AppendProperties
  <2>. HIDE DEF a
  <2>8. ToSet(q \o a) = ToSet(q) \cup ToSet(a) /\ IsInjective(q \o a)
    BY <2>2, <2>6, <2>7, ConcatSet
  <2>. QED
    BY <2>2, <2>3, <2>4, <2>7, <2>8
<1>11. \A i \in 0..n : i \in X
  <2>. HIDE DEF X
  <2>. QED
    BY <1>2, <1>9, <1>10, NatSteps
<1>12. m[n] \in Seq(T) /\ ToSet(m[n]) = Had(n) /\ IsInjective(m[n])
  <2>1. n \in 0..n
    BY <1>2
  <2>. QED
    BY <2>1, <1>7, <1>11
<1>13. Had(n) = N \cup UNION {Q(x) : x \in N}
  BY <1>2
<1>14. ToSet(m[n]) \cap ToSet(O) = {}
  BY <1>3, <1>5, <1>6, <1>12, <1>13
<1>. HIDE DEF X, Had
<1>15. /\ m[n] \o O \in Seq(T) /\ IsInjective(m[n] \o O)
       /\ ToSet(m[n] \o O) = ToSet(m[n]) \cup ToSet(O)
  BY <1>3, <1>12, <1>14, ConcatSet, ConcatProperties
<1>16. ToSet(m[n]) \cup ToSet(O) = ToSet(prev) \cup N
  BY <1>3, <1>6, <1>8, <1>12, <1>13
<1>. QED
  BY <1>1, <1>15, <1>16 DEF N, O, n

-----------------------------------------------------------------------------
(* Transitions: the invariant.  The property is inductive with the types, with *)
(* the fact that only what is shown has a transition, and with the fact that   *)
(* what is leaving is not to leave again: EffectivelyPresent tells from the    *)
(* two transitions of a child what will become of it only then.                *)

\* A child that has a transition, or will get one, is shown.
TransitionsShown == \A k \in Children : current[k] # "none" \/ pending[k] # "none" => k \in ToSet(shown)

\* A child that is leaving is not to leave again.
LeavesOnce == \A k \in Children : ~(current[k] = "leave" /\ pending[k] = "leave")

TransitionInv == TransitionTypeOK /\ TargetKept /\ TransitionsShown /\ LeavesOnce

\* A list of children has each once.
LEMMA ChildListsAre ==
    ASSUME NEW c \in ChildLists
    PROVE  c \in Seq(Children) /\ IsInjective(c) /\ ToSet(c) \subseteq Children
<1>1. PICK S \in SUBSET Children : c \in SetToSeqs(S)
  BY DEF ChildLists, SetToAllKPermutations
<1>. DEFINE n == Cardinality(S)
<1>2. n \in Nat
  BY ChildrenAssumption, FS_Subset, FS_CardinalityType
<1>3. c \in [1..n -> S] /\ \A i, j \in 1..n : i # j => c[i] # c[j]
  BY <1>1 DEF SetToSeqs
<1>. HIDE DEF n
<1>4. c \in [1..n -> Children]
  BY <1>3
<1>5. c \in Seq(Children)
  BY <1>2, <1>4, SeqDef
<1>. QED
  BY <1>3, <1>4, <1>5 DEF IsInjective, ToSet

\* All children are shown, and none has a transition.
LEMMA TransitionInitInv == TransitionInit => TransitionInv
<1>. SUFFICES ASSUME TransitionInit PROVE TransitionInv
  OBVIOUS
<1>1. target \in ChildLists /\ shown = target /\ target \in Seq(Children) /\ IsInjective(target)
  BY ChildListsAre DEF TransitionInit
<1>2. \A k \in Children : current[k] = "none" /\ pending[k] = "none"
  BY DEF TransitionInit, NoTransition
<1>3. TransitionTypeOK
  BY <1>1 DEF TransitionInit, TransitionTypeOK, NoTransition
<1>4. TargetKept
  <2>1. Only(shown, ToSet(target)) = target
    BY <1>1, OnlyAll
  <2>2. ToSet(target) \subseteq Children
    BY <1>1, ChildListsAre
  <2>. QED
    BY <1>2, <2>1, <2>2 DEF TargetKept
<1>. QED
  BY <1>2, <1>3, <1>4 DEF TransitionInv, TransitionsShown, LeavesOnce

\* performPendingTransitions: what it starts was pending, and leaves the rest.
LEMMA PerformDoes ==
    ASSUME NEW cur \in [Children -> {"none", "enter", "leave"}],
           NEW pend \in [Children -> {"none", "enter", "leave"}],
           Perform(cur, pend)
    PROVE  /\ current' \in [Children -> {"none", "enter", "leave"}]
           /\ pending' \in [Children -> {"none", "enter", "leave"}]
           /\ Started(cur, pend) \subseteq Children
           /\ \A k \in Children :
                 \/ /\ k \in Started(cur, pend) /\ pend[k] # "none"
                    /\ current'[k] = pend[k] /\ pending'[k] = "none"
                 \/ /\ k \notin Started(cur, pend) /\ (pend[k] = "none" \/ cur[k] # "none")
                    /\ current'[k] = cur[k] /\ pending'[k] = pend[k]
<1>. USE DEF Perform, Started
<1>1. current' \in [Children -> {"none", "enter", "leave"}]
  OBVIOUS
<1>2. pending' \in [Children -> {"none", "enter", "leave"}]
  OBVIOUS
<1>. QED
  BY <1>1, <1>2

\* Scheduled: a child that is there is not to leave, one that is on its way out is to come
\* back, and one that is leaving is not to leave again.
LEMMA ScheduledWell ==
    ASSUME TransitionInv, NEW C \in SUBSET Children, NEW k \in Children
    PROVE  /\ Scheduled(C, k) \in {"none", "enter", "leave"}
           /\ k \in C => Scheduled(C, k) # "leave"
           /\ k \in C /\ current[k] = "leave" => Scheduled(C, k) = "enter"
           /\ current[k] = "leave" => Scheduled(C, k) # "leave"
           /\ Scheduled(C, k) # "none" => k \in C \/ k \in ToSet(shown)
<1>1. pending[k] \in {"none", "enter", "leave"} /\ current[k] \in {"none", "enter", "leave"}
  BY DEF TransitionInv, TransitionTypeOK
<1>2. /\ current[k] = "leave" => pending[k] # "leave"
      /\ current[k] # "none" \/ pending[k] # "none" => k \in ToSet(shown)
  BY DEF TransitionInv, LeavesOnce, TransitionsShown
<1>3. CASE k \in C /\ ~EffectivelyPresent(k)
  <2>1. Scheduled(C, k) = IF pending[k] = "leave" THEN "none" ELSE "enter"
    BY <1>3 DEF Scheduled
  <2>. QED
    BY <2>1, <1>1, <1>2, <1>3
<1>4. CASE k \notin C /\ EffectivelyPresent(k)
  <2>1. Scheduled(C, k) = IF pending[k] = "enter" THEN "none" ELSE "leave"
    BY <1>4 DEF Scheduled
  <2>2. k \in ToSet(shown) /\ (current[k] = "leave" => pending[k] = "enter")
    BY <1>4 DEF EffectivelyPresent
  <2>. QED
    BY <2>1, <2>2, <1>1, <1>2, <1>4
<1>5. CASE ~(k \in C /\ ~EffectivelyPresent(k)) /\ ~(k \notin C /\ EffectivelyPresent(k))
  <2>1. Scheduled(C, k) = pending[k]
    BY <1>5 DEF Scheduled
  <2>2. k \in C => IF current[k] = "leave" THEN pending[k] = "enter" ELSE pending[k] # "leave"
    BY <1>5 DEF EffectivelyPresent
  <2>. QED
    BY <2>1, <2>2, <1>1, <1>2
<1>. QED
  BY <1>3, <1>4, <1>5

\* componentWillReceiveProps and the update after it.
LEMMA ReceivePropsInv ==
    ASSUME TransitionInv, NEW children \in ChildLists, NEW named \in SUBSET Children,
           ReceiveProps(children, named)
    PROVE  TransitionInv'
<1>. DEFINE C == ToSet(children)
            merged == MergeChildMappings(shown, children)
            scheduled == [k \in Children |-> Scheduled(C, k)]
            immediate == {k \in ToSet(merged) : current[k] = "none" /\ k \notin named}
            left == [k \in Children |-> IF k \in immediate THEN "none" ELSE scheduled[k]]
            started == Started(current, left)
            K == {k \in Children : k \notin immediate \/ scheduled[k] # "leave"}
<1>1. /\ target' = children
      /\ shown' = Only(merged, K)
      /\ Perform(current, left)
      /\ thisFrame' = thisFrame \intersect ToSet(shown')
      /\ nextFrame' = (nextFrame \intersect ToSet(shown')) \union started
      /\ frame' = (frame \/ started # {})
  BY DEF ReceiveProps
<1>2. children \in Seq(Children) /\ IsInjective(children) /\ C \subseteq Children
  BY ChildListsAre
<1>3. /\ shown \in Seq(Children) /\ IsInjective(shown)
      /\ current \in [Children -> {"none", "enter", "leave"}]
      /\ frame \in BOOLEAN
  BY DEF TransitionInv, TransitionTypeOK
<1>4. /\ merged \in Seq(Children) /\ ToSet(merged) = ToSet(shown) \cup C /\ IsInjective(merged)
      /\ Only(merged, C) = children
  BY <1>2, <1>3, MergeKeepsAll, MergeKeepsOrder
<1>5. \A k \in Children :
         /\ scheduled[k] \in {"none", "enter", "leave"}
         /\ k \in C => scheduled[k] # "leave"
         /\ k \in C /\ current[k] = "leave" => scheduled[k] = "enter"
         /\ current[k] = "leave" => scheduled[k] # "leave"
         /\ scheduled[k] # "none" => k \in C \/ k \in ToSet(shown)
  BY <1>2, ScheduledWell
<1>6. \A k \in Children : left[k] = IF k \in immediate THEN "none" ELSE scheduled[k]
  OBVIOUS
<1>7. \A k \in Children : k \in immediate => current[k] = "none"
  OBVIOUS
<1>. HIDE DEF merged, scheduled, immediate
<1>8. left \in [Children -> {"none", "enter", "leave"}]
  BY <1>5
<1>. HIDE DEF C, left, started
<1>9. /\ current' \in [Children -> {"none", "enter", "leave"}]
      /\ pending' \in [Children -> {"none", "enter", "leave"}]
      /\ started \subseteq Children
      /\ \A k \in Children :
            \/ /\ k \in started /\ left[k] # "none"
               /\ current'[k] = left[k] /\ pending'[k] = "none"
            \/ /\ k \notin started /\ (left[k] = "none" \/ current[k] # "none")
               /\ current'[k] = current[k] /\ pending'[k] = left[k]
  BY <1>1, <1>3, <1>8, PerformDoes DEF started
<1>10. shown' \in Seq(Children) /\ ToSet(shown') = ToSet(merged) \cap K /\ IsInjective(shown')
  BY <1>1, <1>4, OnlyKeeps
<1>11. TransitionsShown'
  <2>1. ASSUME NEW k \in Children, current'[k] # "none" \/ pending'[k] # "none"
        PROVE  k \in ToSet(shown')
    <3>1. CASE left[k] # "none"
      <4>1. k \notin immediate /\ scheduled[k] # "none"
        BY <3>1, <1>6
      <4>. QED
        BY <4>1, <1>4, <1>5, <1>10
    <3>2. CASE left[k] = "none"
      <4>1. current[k] # "none"
        BY <2>1, <3>2, <1>9
      <4>2. k \in ToSet(shown) /\ k \notin immediate
        BY <4>1, <1>7 DEF TransitionInv, TransitionsShown
      <4>. QED
        BY <4>2, <1>4, <1>10
    <3>. QED
      BY <3>1, <3>2
  <2>. QED
    BY <2>1 DEF TransitionsShown
<1>12. TransitionTypeOK'
  <2>1. started \subseteq ToSet(shown')
    <3>1. ASSUME NEW k \in started PROVE k \in Children /\ current'[k] # "none"
      BY <3>1, <1>9
    <3>. QED
      BY <3>1, <1>11 DEF TransitionsShown
  <2>2. thisFrame' \subseteq ToSet(shown') /\ nextFrame' \subseteq ToSet(shown')
    BY <2>1, <1>1
  <2>3. frame' \in BOOLEAN
    BY <1>1, <1>3
  <2>. QED
    BY <2>2, <2>3, <1>1, <1>9, <1>10 DEF TransitionTypeOK
<1>13. LeavesOnce'
  <2>1. ASSUME NEW k \in Children, current'[k] = "leave", pending'[k] = "leave" PROVE FALSE
    <3>1. current[k] = "leave" /\ left[k] = "leave"
      BY <2>1, <1>9
    <3>. QED
      BY <3>1, <1>5, <1>6
  <2>. QED
    BY <2>1 DEF LeavesOnce
<1>14. TargetKept'
  <2>1. Only(shown', C) = children
    <3>1. K \cap C = C
      BY <1>2, <1>5
    <3>2. Only(Only(merged, K), C) = Only(merged, K \cap C)
      BY <1>4, OnlyTwice
    <3>. QED
      BY <3>1, <3>2, <1>1, <1>4
  <2>2. ASSUME NEW k \in C
        PROVE  pending'[k] # "leave" /\ (current'[k] = "leave" => pending'[k] = "enter")
    <3>1. k \in Children /\ left[k] # "leave"
      BY <2>2, <1>2, <1>5, <1>6
    <3>2. pending'[k] # "leave"
      BY <3>1, <1>9
    <3>3. ASSUME current'[k] = "leave" PROVE pending'[k] = "enter"
      <4>1. current[k] = "leave" /\ pending'[k] = left[k]
        BY <3>1, <3>3, <1>9
      <4>. QED
        BY <3>1, <4>1, <1>5, <1>6, <1>7, <2>2
    <3>. QED
      BY <3>2, <3>3
  <2>. QED
    BY <2>1, <2>2, <1>1 DEF TargetKept, C
<1>. QED
  BY <1>11, <1>12, <1>13, <1>14 DEF TransitionInv

\* The timeout of a transition (the callback of performTransition).
LEMMA TransitionEndsInv ==
    ASSUME TransitionInv, NEW k \in Children, TransitionEnds(k) PROVE TransitionInv'
<1>. DEFINE Kinds == {"none", "enter", "leave"}
            after == [current EXCEPT ![k] = "none"]
            started == Started(after, pending)
<1>1. /\ shown \in Seq(Children) /\ IsInjective(shown)
      /\ current \in [Children -> Kinds] /\ pending \in [Children -> Kinds]
      /\ thisFrame \subseteq ToSet(shown) /\ nextFrame \subseteq ToSet(shown)
      /\ frame \in BOOLEAN /\ target \in ChildLists
  BY DEF TransitionInv, TransitionTypeOK
<1>2. /\ after \in [Children -> Kinds] /\ after[k] = "none"
      /\ \A l \in Children : l # k => after[l] = current[l]
  BY <1>1
<1>3. /\ \A l \in Children : current[l] # "none" \/ pending[l] # "none" => l \in ToSet(shown)
      /\ \A l \in Children : ~(current[l] = "leave" /\ pending[l] = "leave")
      /\ Only(shown, ToSet(target)) = target
      /\ \A l \in ToSet(target) :
            pending[l] # "leave" /\ (current[l] = "leave" => pending[l] = "enter")
  BY DEF TransitionInv, TransitionsShown, LeavesOnce, TargetKept
<1>4. target' = target /\ current[k] # "none" /\ ToSet(target) \subseteq Children
  BY <1>1, ChildListsAre DEF TransitionEnds
<1>5. CASE current' = after /\ UNCHANGED <<shown, pending, thisFrame>>
           /\ (nextFrame' = nextFrame \/ nextFrame' = nextFrame \cup {k}) /\ frame' \in BOOLEAN
  <2>. HIDE DEF after
  <2>1. k \in ToSet(shown)
    BY <1>3, <1>4
  <2>2. TransitionTypeOK'
    BY <2>1, <1>1, <1>2, <1>4, <1>5 DEF TransitionTypeOK
  <2>3. TargetKept'
    BY <1>2, <1>3, <1>4, <1>5 DEF TargetKept
  <2>4. TransitionsShown' /\ LeavesOnce'
    BY <1>2, <1>3, <1>5 DEF TransitionsShown, LeavesOnce
  <2>. QED
    BY <2>2, <2>3, <2>4 DEF TransitionInv
<1>6. CASE /\ pending[k] = "none" /\ current[k] = "leave"
           /\ shown' = Only(shown, Children \ {k})
           /\ Perform(after, pending)
           /\ thisFrame' = thisFrame \ {k}
           /\ nextFrame' = (nextFrame \ {k}) \union started
           /\ frame' = (frame \/ started # {})
  <2>. HIDE DEF after, started
  <2>1. /\ current' \in [Children -> Kinds] /\ pending' \in [Children -> Kinds]
        /\ started \subseteq Children
        /\ \A l \in Children :
              \/ /\ l \in started /\ pending[l] # "none"
                 /\ current'[l] = pending[l] /\ pending'[l] = "none"
              \/ /\ l \notin started /\ (pending[l] = "none" \/ after[l] # "none")
                 /\ current'[l] = after[l] /\ pending'[l] = pending[l]
    BY <1>1, <1>2, <1>6, PerformDoes DEF started
  <2>2. /\ shown' \in Seq(Children) /\ IsInjective(shown')
        /\ ToSet(shown') = ToSet(shown) \cap (Children \ {k})
    BY <1>1, <1>6, OnlyKeeps
  <2>3. TransitionsShown'
    <3>1. ASSUME NEW l \in Children, current'[l] # "none" \/ pending'[l] # "none"
          PROVE  l # k /\ l \in ToSet(shown)
      BY <3>1, <2>1, <1>2, <1>3, <1>6
    <3>. QED
      BY <3>1, <2>2 DEF TransitionsShown
  <2>4. TransitionTypeOK'
    <3>1. started \subseteq ToSet(shown')
      BY <2>1, <2>3 DEF TransitionsShown
    <3>2. ToSet(shown) \subseteq Children
      BY <1>1, ElementOfSeq, LenProperties DEF ToSet
    <3>3. thisFrame' \subseteq ToSet(shown') /\ nextFrame' \subseteq ToSet(shown')
      BY <3>1, <3>2, <2>2, <1>1, <1>6
    <3>4. frame' \in BOOLEAN
      BY <1>1, <1>6
    <3>. QED
      BY <3>3, <3>4, <2>1, <2>2, <1>1, <1>4 DEF TransitionTypeOK
  <2>5. LeavesOnce'
    BY <2>1, <1>2, <1>3 DEF LeavesOnce
  <2>6. k \notin ToSet(target)
    BY <1>3, <1>6
  <2>7. Only(shown', ToSet(target)) = target
    <3>1. Only(shown', ToSet(target)) = Only(shown, (Children \ {k}) \cap ToSet(target))
      BY <1>1, <1>6, OnlyTwice
    <3>2. (Children \ {k}) \cap ToSet(target) = ToSet(target)
      BY <2>6, <1>4
    <3>. QED
      BY <3>1, <3>2, <1>3
  <2>8. TargetKept'
    <3>1. ASSUME NEW l \in ToSet(target)
          PROVE  pending'[l] # "leave" /\ (current'[l] = "leave" => pending'[l] = "enter")
      BY <3>1, <2>1, <2>6, <1>2, <1>3, <1>4
    <3>. QED
      BY <3>1, <2>7, <1>4 DEF TargetKept
  <2>. QED
    BY <2>3, <2>4, <2>5, <2>8 DEF TransitionInv
<1>7. \/ current' = after /\ UNCHANGED <<shown, pending, thisFrame>>
         /\ (nextFrame' = nextFrame \/ nextFrame' = nextFrame \cup {k}) /\ frame' \in BOOLEAN
      \/ /\ pending[k] = "none" /\ current[k] = "leave"
         /\ shown' = Only(shown, Children \ {k})
         /\ Perform(after, pending)
         /\ thisFrame' = thisFrame \ {k}
         /\ nextFrame' = (nextFrame \ {k}) \union started
         /\ frame' = (frame \/ started # {})
  BY <1>1 DEF TransitionEnds
<1>. QED
  BY <1>5, <1>6, <1>7

\* onFrame.
LEMMA OnFrameInv == ASSUME TransitionInv, OnFrame PROVE TransitionInv'
<1>. DEFINE Kinds == {"none", "enter", "leave"}
            started == Started(current, pending)
<1>1. /\ shown \in Seq(Children) /\ IsInjective(shown)
      /\ current \in [Children -> Kinds] /\ pending \in [Children -> Kinds]
      /\ nextFrame \subseteq ToSet(shown) /\ target \in ChildLists
      /\ ToSet(target) \subseteq Children
  BY ChildListsAre DEF TransitionInv, TransitionTypeOK
<1>2. /\ \A l \in Children : current[l] # "none" \/ pending[l] # "none" => l \in ToSet(shown)
      /\ \A l \in Children : ~(current[l] = "leave" /\ pending[l] = "leave")
      /\ Only(shown, ToSet(target)) = target
      /\ \A l \in ToSet(target) :
            pending[l] # "leave" /\ (current[l] = "leave" => pending[l] = "enter")
  BY DEF TransitionInv, TransitionsShown, LeavesOnce, TargetKept
<1>3. /\ target' = target /\ shown' = shown
      /\ thisFrame' = nextFrame /\ nextFrame' = started /\ frame' \in BOOLEAN
      /\ Perform(current, pending)
  BY DEF OnFrame
<1>. HIDE DEF started
<1>4. /\ current' \in [Children -> Kinds] /\ pending' \in [Children -> Kinds]
      /\ started \subseteq Children
      /\ \A l \in Children :
            \/ /\ l \in started /\ pending[l] # "none"
               /\ current'[l] = pending[l] /\ pending'[l] = "none"
            \/ /\ l \notin started /\ (pending[l] = "none" \/ current[l] # "none")
               /\ current'[l] = current[l] /\ pending'[l] = pending[l]
  BY <1>1, <1>3, PerformDoes DEF started
<1>5. started \subseteq ToSet(shown)
  BY <1>2, <1>4
<1>6. TransitionTypeOK'
  BY <1>1, <1>3, <1>4, <1>5 DEF TransitionTypeOK
<1>7. TargetKept'
  BY <1>1, <1>2, <1>3, <1>4 DEF TargetKept
<1>8. TransitionsShown' /\ LeavesOnce'
  BY <1>2, <1>3, <1>4 DEF TransitionsShown, LeavesOnce
<1>. QED
  BY <1>6, <1>7, <1>8 DEF TransitionInv

\* Every step keeps the invariant.
LEMMA TransitionNextInv == TransitionInv /\ [TransitionNext]_groupVars => TransitionInv'
<1>. SUFFICES ASSUME TransitionInv, [TransitionNext]_groupVars PROVE TransitionInv'
  OBVIOUS
<1>1. ASSUME NEW children \in ChildLists, NEW named \in SUBSET Children,
             ReceiveProps(children, named)
      PROVE  TransitionInv'
  BY <1>1, ReceivePropsInv
<1>2. ASSUME NEW k \in Children, TransitionEnds(k) PROVE TransitionInv'
  BY <1>2, TransitionEndsInv
<1>3. CASE OnFrame
  BY <1>3, OnFrameInv
<1>4. CASE UNCHANGED groupVars
  BY <1>4
     DEF groupVars, TransitionInv, TransitionTypeOK, TargetKept, TransitionsShown, LeavesOnce
<1>. QED
  BY <1>1, <1>2, <1>3, <1>4 DEF TransitionNext

\* Whatever the props are and whenever timeouts and frames come, a child is shown at most once,
\* one with a transition is shown, and none is to leave twice (Transition.js).
THEOREM TransitionInvariance == TransitionSpec => []TransitionInv
  BY TransitionInitInv, TransitionNextInv, PTL DEF TransitionSpec

\* For every set of children: those that should be there are there, in the order of the
\* props, and one that is on its way out is to come back (componentWillReceiveProps,
\* mergeChildMappings).
THEOREM TargetIsKept == TransitionSpec => []TargetKept
<1>1. TransitionInv => TargetKept
  BY DEF TransitionInv
<1>. QED
  BY <1>1, TransitionInvariance, PTL

-----------------------------------------------------------------------------
(* Login.  The type of a request's chain is not inductive by itself: which     *)
(* frame is repeated, and whether a flow has a chain at all, depends on what   *)
(* the flow waits for, and that on the calls of the daemon.                    *)

\* A chain of requests has the flow's own at its front, and only there.
Chains == {s \in Seq(FrameKinds) : \A i \in 1..Len(s) : s[i] = "call" <=> i = 1}
FlowKinds == {"idle"} \cup RequestKinds \cup CallKinds

\* A flow waits for a request, for one call of the daemon, or for nothing.
FlowsInv ==
    /\ frames \in [Flows -> Chains]
    /\ flow \in [Flows -> FlowKinds]
    /\ calls \in Seq(Flows) /\ IsInjective(calls)
    /\ \A f \in Flows : Waits(f) <=> flow[f] \in RequestKinds
    /\ \A f \in Flows : f \in ToSet(calls) <=> flow[f] \in CallKinds

\* The rest of the state: no action says more of it than its types.
LoginRest ==
    /\ session \in BOOLEAN /\ token \in BOOLEAN /\ logoutDue \in BOOLEAN /\ acts \in 0..MaxActs
    /\ screen \in Screens
    /\ answer \in [Flows -> {"unconfirmed", "confirmed"}]
    /\ confirmed \in BOOLEAN /\ stored \in {"none", "unconfirmed", "confirmed"}

LoginInv == FlowsInv /\ LoginRest

\* The kinds are told apart.
LEMMA KindsApart ==
    /\ "idle" \notin RequestKinds \cup CallKinds
    /\ RequestKinds \cap CallKinds = {}
    /\ {"check", "recheck", "background", "password", "register", "identify", "locations",
        "firstLocations", "logout"} \subseteq RequestKinds
    /\ {"setAccount", "firstSetAccount", "clearAccount", "clearSettings",
        "allow"} \subseteq CallKinds
  BY DEF RequestKinds, CallKinds

\* What is left of a chain of calls when the first one is answered.
LEMMA FirstAnswered ==
    ASSUME NEW T, NEW s \in Seq(T), s # <<>>, IsInjective(s)
    PROVE  /\ Tail(s) \in Seq(T) /\ IsInjective(Tail(s)) /\ Head(s) \in T
           /\ ToSet(Tail(s)) = ToSet(s) \ {Head(s)} /\ Head(s) \in ToSet(s)
<1>. DEFINE n == Len(s)
            t == Tail(s)
<1>1. n \in Nat /\ n >= 1 /\ DOMAIN s = 1..n
  BY EmptySeq, LenProperties
<1>2. /\ t \in Seq(T) /\ Len(t) = n - 1 /\ DOMAIN t = 1..(n - 1)
      /\ \A i \in 1..(n - 1) : t[i] = s[i + 1]
  BY HeadTailProperties, LenProperties
<1>3. Head(s) = s[1] /\ Head(s) \in T
  BY HeadTailProperties
<1>. HIDE DEF n, t
<1>4. \A i \in 1..(n - 1) : i + 1 \in 1..n /\ i + 1 # 1
  BY <1>1
<1>5. \A i \in 1..n : i # 1 => i - 1 \in 1..(n - 1) /\ (i - 1) + 1 = i
  BY <1>1
<1>6. IsInjective(t)
  <2>1. ASSUME NEW i \in 1..(n - 1), NEW j \in 1..(n - 1), t[i] = t[j] PROVE i = j
    <3>1. i + 1 = j + 1
      BY <2>1, <1>1, <1>2, <1>4 DEF IsInjective
    <3>. QED
      BY <3>1, <1>1
  <2>. QED
    BY <2>1, <1>2 DEF IsInjective
<1>7. 1 \in 1..n
  BY <1>1
<1>8. ToSet(s) = {s[i] : i \in 1..n} /\ ToSet(t) = {t[i] : i \in 1..(n - 1)}
  BY <1>1, <1>2 DEF ToSet
<1>9. ASSUME NEW i \in 1..(n - 1) PROVE t[i] \in ToSet(s) /\ t[i] # s[1]
  <2>1. i + 1 \in 1..n /\ i + 1 # 1 /\ t[i] = s[i + 1]
    BY <1>2, <1>4
  <2>2. s[i + 1] \in ToSet(s)
    BY <2>1, <1>8
  <2>3. s[i + 1] # s[1]
    BY <2>1, <1>1, <1>7 DEF IsInjective
  <2>. QED
    BY <2>1, <2>2, <2>3
<1>10. ASSUME NEW i \in 1..n, s[i] # s[1] PROVE s[i] \in ToSet(t)
  <2>1. i - 1 \in 1..(n - 1) /\ t[i - 1] = s[i]
    BY <1>10, <1>2, <1>5
  <2>. QED
    BY <2>1, <1>8
<1>11. ToSet(t) = ToSet(s) \ {s[1]}
  BY <1>8, <1>9, <1>10
<1>. QED
  BY <1>2, <1>3, <1>6, <1>7, <1>8, <1>11 DEF t

\* A flow that waits for no request has no chain.
LEMMA NoFrames ==
    ASSUME FlowsInv, NEW f \in Flows, flow[f] \notin RequestKinds
    PROVE  frames[f] = <<>> /\ frames = [frames EXCEPT ![f] = <<>>]
<1>1. frames[f] = <<>> /\ frames \in [Flows -> Chains]
  BY DEF FlowsInv, Waits
<1>. QED
  BY <1>1

\* The calls of the daemon after a flow was answered, or made one.
CallsOf(f, what) ==
    \/ calls' = calls /\ (flow[f] \in CallKinds <=> what \in CallKinds)
    \/ calls' = Append(calls, f) /\ flow[f] \notin CallKinds /\ what \in CallKinds
    \/ DaemonAnswers(f) /\ what \notin CallKinds
    \/ /\ Head(calls) = f /\ calls' = Append(Tail(calls), f)
       /\ flow[f] \in CallKinds /\ what \in CallKinds

\* A flow goes on to what: with a request or without one.
LEMMA FlowGoes ==
    ASSUME FlowsInv, NEW f \in Flows, NEW what \in FlowKinds, Goes(f, what), CallsOf(f, what),
           frames' = [frames EXCEPT ![f] = IF what \in RequestKinds THEN <<"call">> ELSE <<>>]
    PROVE  FlowsInv'
<1>1. /\ frames \in [Flows -> Chains] /\ flow \in [Flows -> FlowKinds]
      /\ calls \in Seq(Flows) /\ IsInjective(calls)
      /\ \A g \in Flows : frames[g] # <<>> <=> flow[g] \in RequestKinds
      /\ \A g \in Flows : g \in ToSet(calls) <=> flow[g] \in CallKinds
  BY DEF FlowsInv, Waits
<1>2. <<>> \in Chains /\ <<"call">> \in Chains /\ <<"call">> # <<>>
  <2>1. <<"call">> \in Seq(FrameKinds) /\ <<>> \in Seq(FrameKinds)
    BY DEF FrameKinds
  <2>2. Len(<<"call">>) = 1 /\ Len(<<>>) = 0 /\ <<"call">>[1] = "call"
    OBVIOUS
  <2>3. 1..1 = {1} /\ 1..0 = {}
    OBVIOUS
  <2>. QED
    BY <2>1, <2>2, <2>3 DEF Chains
<1>3. /\ frames' \in [Flows -> Chains]
      /\ \A g \in Flows : g # f => frames'[g] = frames[g]
      /\ frames'[f] # <<>> <=> what \in RequestKinds
  BY <1>1, <1>2
<1>4. /\ flow' \in [Flows -> FlowKinds] /\ flow'[f] = what
      /\ \A g \in Flows : g # f => flow'[g] = flow[g]
  BY <1>1 DEF Goes
<1>5. /\ calls' \in Seq(Flows) /\ IsInjective(calls')
      /\ \A g \in Flows : g # f => (g \in ToSet(calls') <=> g \in ToSet(calls))
      /\ f \in ToSet(calls') <=> what \in CallKinds
  <2>1. CASE calls' = calls /\ (flow[f] \in CallKinds <=> what \in CallKinds)
    BY <2>1, <1>1
  <2>2. CASE calls' = Append(calls, f) /\ flow[f] \notin CallKinds /\ what \in CallKinds
    <3>1. Append(calls, f) \in Seq(Flows) /\ ToSet(Append(calls, f)) = ToSet(calls) \cup {f}
      BY <1>1, AppendedSet, AppendProperties
    <3>2. IsInjective(Append(calls, f))
      BY <2>2, <1>1, AppendedSet
    <3>. QED
      BY <3>1, <3>2, <2>2
  <2>3. CASE DaemonAnswers(f) /\ what \notin CallKinds
    <3>1. calls # <<>> /\ Head(calls) = f /\ calls' = Tail(calls)
      BY <2>3 DEF DaemonAnswers
    <3>. QED
      BY <3>1, <2>3, <1>1, FirstAnswered
  <2>4. CASE /\ Head(calls) = f /\ calls' = Append(Tail(calls), f)
             /\ flow[f] \in CallKinds /\ what \in CallKinds
    <3>1. calls # <<>>
      <4>1. f \in ToSet(calls)
        BY <2>4, <1>1
      <4>2. ToSet(<<>>) = {}
        BY DEF ToSet
      <4>. QED
        BY <4>1, <4>2
    <3>. DEFINE t == Tail(calls)
    <3>2. t \in Seq(Flows) /\ IsInjective(t) /\ ToSet(t) = ToSet(calls) \ {f}
      BY <3>1, <2>4, <1>1, FirstAnswered
    <3>3. calls' = Append(t, f)
      BY <2>4
    <3>. HIDE DEF t
    <3>4. /\ Append(t, f) \in Seq(Flows) /\ ToSet(Append(t, f)) = ToSet(t) \cup {f}
          /\ IsInjective(Append(t, f))
      BY <3>2, AppendedSet, AppendProperties
    <3>. QED
      BY <3>2, <3>3, <3>4, <2>4
  <2>. QED
    BY <2>1, <2>2, <2>3, <2>4 DEF CallsOf
<1>. QED
  BY <1>1, <1>3, <1>4, <1>5 DEF FlowsInv, Waits

\* A refused request is behind its refresh, a refresh is followed by the repetition.
LEMMA FlowRetries ==
    ASSUME FlowsInv, NEW f \in Flows, Forbidden(f) \/ Refreshed(f), UNCHANGED <<flow, calls>>
    PROVE  FlowsInv'
<1>1. /\ frames \in [Flows -> Chains] /\ frames[f] # <<>>
      /\ \A g \in Flows : frames[g] # <<>> <=> flow[g] \in RequestKinds
  BY DEF FlowsInv, Waits, Forbidden, Refreshed
<1>. DEFINE s == frames[f]
            n == Len(s)
<1>2. /\ s \in Seq(FrameKinds) /\ n \in Nat /\ n >= 1 /\ DOMAIN s = 1..n
      /\ \A i \in 1..n : s[i] = "call" <=> i = 1
      /\ \A i \in 1..n : s[i] \in FrameKinds
  <2>1. s \in Chains /\ s # <<>>
    BY <1>1
  <2>2. s \in Seq(FrameKinds) /\ \A i \in 1..n : s[i] = "call" <=> i = 1
    BY <2>1 DEF Chains
  <2>. HIDE DEF s
  <2>. QED
    BY <2>1, <2>2, EmptySeq, LenProperties, ElementOfSeq
<1>3. ASSUME NEW t \in Seq(FrameKinds), t # <<>>, \A i \in 1..Len(t) : t[i] = "call" <=> i = 1,
             frames' = [frames EXCEPT ![f] = t]
      PROVE  FlowsInv'
  <2>1. t \in Chains
    BY <1>3 DEF Chains
  <2>2. /\ frames' \in [Flows -> Chains] /\ frames'[f] # <<>>
        /\ \A g \in Flows : g # f => frames'[g] = frames[g]
    BY <2>1, <1>1, <1>3
  <2>3. \A g \in Flows : frames'[g] # <<>> <=> flow'[g] \in RequestKinds
    BY <2>2, <1>1
  <2>. QED
    BY <2>2, <2>3 DEF FlowsInv, Waits
<1>4. ASSUME NEW k \in {"retry", "refresh"}, NEW t \in Seq(FrameKinds), t # <<>>,
             \A i \in 1..Len(t) : t[i] = "call" <=> i = 1
      PROVE  /\ Append(t, k) \in Seq(FrameKinds) /\ Append(t, k) # <<>>
             /\ \A i \in 1..Len(Append(t, k)) : Append(t, k)[i] = "call" <=> i = 1
  <2>. DEFINE a == Append(t, k)
              m == Len(t)
  <2>1. k \in FrameKinds /\ k # "call"
    BY <1>4 DEF FrameKinds
  <2>2. /\ m \in Nat /\ m >= 1 /\ a \in Seq(FrameKinds) /\ a # <<>> /\ Len(a) = m + 1
        /\ \A i \in 1..m : a[i] = t[i]
        /\ a[m + 1] = k
    BY <2>1, <1>4, EmptySeq, LenProperties, AppendProperties
  <2>3. \A i \in 1..m : t[i] = "call" <=> i = 1
    BY <1>4
  <2>. HIDE DEF a, m
  <2>4. \A i \in 1..(m + 1) : i \in 1..m \/ i = m + 1
    BY <2>2
  <2>5. m + 1 # 1
    BY <2>2
  <2>6. \A i \in 1..(m + 1) : a[i] = "call" <=> i = 1
    BY <2>1, <2>2, <2>3, <2>4, <2>5
  <2>. QED
    BY <2>2, <2>6 DEF a
<1>5. CASE Forbidden(f)
  <2>1. frames' = [frames EXCEPT ![f] = Append(s, "refresh")]
    BY <1>5 DEF Forbidden
  <2>2. s # <<>>
    BY <1>1
  <2>3. \A i \in 1..Len(s) : s[i] = "call" <=> i = 1
    BY <1>2
  <2>4. s \in Seq(FrameKinds)
    BY <1>2
  <2>. HIDE DEF s
  <2>. QED
    BY <2>1, <2>2, <2>3, <2>4, <1>3, <1>4
<1>6. CASE Refreshed(f)
  <2>. DEFINE IsBase(i) == s[i] # "retry" /\ \A j \in i + 1..Len(s) : s[j] = "retry"
              b == CHOOSE i \in DOMAIN s : IsBase(i)
              t == SubSeq(s, 1, b - 1)
  <2>1. frames' = [frames EXCEPT ![f] = IF t[Len(t)] = "retry" THEN t ELSE Append(t, "retry")]
    BY <1>6 DEF Refreshed, RetriesRequest, Repeated, Base
  <2>2. PICK r \in 1..n : s[r] = "refresh"
    BY <1>2, <1>6 DEF Refreshed, Refreshes
  <2>3. \E i \in 1..n : IsBase(i)
    <3>. DEFINE Not == {i \in 1..n : s[i] # "retry"}
                Back == {n + 1 - i : i \in Not}
    <3>1. r \in Not
      BY <2>2
    <3>2. Back \subseteq 1..n /\ Back # {}
      <4>1. \A i \in 1..n : n + 1 - i \in 1..n
        BY <1>2
      <4>2. n + 1 - r \in Back
        BY <3>1
      <4>. QED
        BY <4>1, <4>2
    <3>3. PICK c \in Back : \A d \in Back : c <= d
      <4>. HIDE DEF Back
      <4>. QED
        BY <3>2, <1>2, FirstOne
    <3>4. PICK i \in Not : c = n + 1 - i
      BY <3>3
    <3>5. ASSUME NEW j \in i + 1..n, s[j] # "retry" PROVE FALSE
      <4>1. j \in Not /\ n + 1 - j \in Back
        BY <3>4, <3>5, <1>2
      <4>2. n + 1 - i <= n + 1 - j
        BY <4>1, <3>3, <3>4
      <4>. QED
        BY <4>2, <3>4, <3>5, <1>2
    <3>. QED
      BY <3>4, <3>5
  <2>. HIDE DEF s
  <2>4. b \in 1..n /\ s[b] # "retry" /\ \A j \in b + 1..n : s[j] = "retry"
    BY <2>3, <1>2
  <2>. HIDE DEF b
  <2>5. b > 1
    <3>1. CASE b = 1
      <4>1. r # 1 /\ r \in 1 + 1..n
        BY <2>2, <1>2
      <4>. QED
        BY <4>1, <3>1, <2>2, <2>4
    <3>. QED
      BY <3>1, <2>4
  <2>. HIDE DEF n
  <2>6. /\ t \in Seq(FrameKinds) /\ Len(t) = b - 1
        /\ \A i \in 1..(b - 1) : t[i] = s[i]
    <3>1. /\ 1 \in Int /\ b - 1 \in Int /\ 1 <= b - 1 /\ (b - 1) - 1 + 1 = b - 1
          /\ \A i \in 1..(b - 1) : s[i] \in FrameKinds /\ 1 + i - 1 = i
      BY <2>4, <2>5, <1>2
    <3>2. /\ t \in Seq(FrameKinds) /\ Len(t) = IF 1 <= b - 1 THEN (b - 1) - 1 + 1 ELSE 0
          /\ \A i \in 1..((b - 1) - 1 + 1) : t[i] = s[1 + i - 1]
      BY <3>1, SubSeqProperties
    <3>. QED
      BY <3>1, <3>2
  <2>. HIDE DEF t
  <2>7. t # <<>> /\ \A i \in 1..Len(t) : t[i] = "call" <=> i = 1
    <3>1. b - 1 # 0 /\ \A i \in 1..(b - 1) : i \in 1..n
      BY <2>4, <2>5, <1>2
    <3>. QED
      BY <3>1, <2>6, <1>2, EmptySeq
  <2>8. CASE t[Len(t)] = "retry"
    <3>1. frames' = [frames EXCEPT ![f] = t]
      BY <2>1, <2>8
    <3>. QED
      BY <3>1, <2>6, <2>7, <1>3
  <2>9. CASE t[Len(t)] # "retry"
    <3>1. frames' = [frames EXCEPT ![f] = Append(t, "retry")]
      BY <2>1, <2>9
    <3>. QED
      BY <3>1, <2>6, <2>7, <1>3, <1>4
  <2>. QED
    BY <2>8, <2>9
<1>. QED
  BY <1>5, <1>6

\* Nothing is under way, and whoever has a token has an account.
LEMMA LoginInitInv == LoginInit => LoginInv
<1>. SUFFICES ASSUME LoginInit PROVE LoginInv
  OBVIOUS
<1>1. <<>> \in Chains /\ <<>> \in Seq(Flows)
  <2>1. Len(<<>>) = 0 /\ 1..0 = {}
    OBVIOUS
  <2>. QED
    BY <2>1 DEF Chains
<1>2. IsInjective(<<>>) /\ ToSet(<<>>) = {}
  BY DEF IsInjective, ToSet
<1>3. "idle" \in FlowKinds
  BY DEF FlowKinds
<1>4. FlowsInv
  BY <1>1, <1>2, <1>3, KindsApart DEF LoginInit, SessionInit, FlowsInv, Waits
<1>5. 0 \in 0..MaxActs
  BY SessionAssumption
<1>. QED
  BY <1>4, <1>5 DEF LoginInit, SessionInit, LoginInv, LoginRest, Screens, LoginScreens

\* Check, RefreshAccount, Submit and Decide: a free slot.
LEMMA BeginsInv == ASSUME LoginInv, NEW f \in Flows, Begins(f) PROVE LoginInv'
<1>. USE KindsApart
<1>1. ASSUME NEW what \in RequestKinds, Starts(f, what), calls' = calls PROVE FlowsInv'
  <2>1. what \in FlowKinds /\ what \notin CallKinds /\ flow[f] = "idle"
    BY <1>1 DEF FlowKinds, Starts
  <2>2. CallsOf(f, what)
    BY <2>1, <1>1 DEF CallsOf
  <2>3. /\ Goes(f, what)
        /\ frames' = [frames EXCEPT ![f] = IF what \in RequestKinds THEN <<"call">> ELSE <<>>]
    BY <1>1 DEF Starts, MakeRequest
  <2>. QED
    BY <2>1, <2>2, <2>3, FlowGoes DEF LoginInv
<1>2. Acts => acts' \in 0..MaxActs
  BY SessionAssumption DEF Acts, LoginInv, LoginRest
<1>3. CASE Check(f)
  <2>1. FlowsInv'
    BY <1>1, <1>3 DEF Check
  <2>2. LoginRest'
    BY <1>3 DEF Check, LoginRest, LoginInv, Screens
  <2>. QED
    BY <2>1, <2>2 DEF LoginInv
<1>4. CASE RefreshAccount(f)
  <2>1. FlowsInv'
    BY <1>1, <1>4 DEF RefreshAccount
  <2>2. LoginRest'
    BY <1>2, <1>4 DEF RefreshAccount, LoginRest, LoginInv
  <2>. QED
    BY <2>1, <2>2 DEF LoginInv
<1>5. CASE Submit(f)
  <2>1. FlowsInv'
    BY <1>1, <1>5 DEF Submit
  <2>2. LoginRest'
    BY <1>2, <1>5 DEF Submit, LoginRest, LoginInv
  <2>. QED
    BY <2>1, <2>2 DEF LoginInv
<1>6. CASE Decide(f)
  <2>1. flow[f] \notin RequestKinds \cup CallKinds /\ "allow" \in FlowKinds \ RequestKinds
    BY <1>6 DEF Decide, FlowKinds
  <2>2. frames' = [frames EXCEPT ![f] = <<>>]
    BY <2>1, <1>6, NoFrames DEF Decide, LoginInv
  <2>3. FlowsInv'
    BY <2>1, <2>2, <1>6, FlowGoes DEF Decide, CallDaemon, CallsOf, LoginInv
  <2>4. LoginRest'
    BY <1>2, <1>6 DEF Decide, LoginRest, LoginInv
  <2>. QED
    BY <2>3, <2>4 DEF LoginInv
<1>. QED
  BY <1>3, <1>4, <1>5, <1>6 DEF Begins

\* What waited for a request goes on without one.
LEMMA RequestEnds ==
    ASSUME FlowsInv, NEW f \in Flows, flow[f] \in RequestKinds,
           NEW what \in {"idle"} \cup CallKinds,
           frames' = [frames EXCEPT ![f] = <<>>],
           IF what = "idle" THEN Goes(f, what) /\ calls' = calls ELSE CallDaemon(f, what)
    PROVE  FlowsInv'
<1>1. what \in FlowKinds /\ what \notin RequestKinds /\ flow[f] \notin CallKinds
  BY KindsApart DEF FlowKinds
<1>2. CASE what = "idle"
  <2>1. CallsOf(f, what) /\ Goes(f, what)
    BY <1>1, <1>2, KindsApart DEF CallsOf
  <2>. QED
    BY <2>1, <1>1, FlowGoes
<1>3. CASE what # "idle"
  <2>1. CallsOf(f, what) /\ Goes(f, what)
    BY <1>1, <1>3 DEF CallsOf, CallDaemon
  <2>. QED
    BY <2>1, <1>1, FlowGoes
<1>. QED
  BY <1>2, <1>3

\* A call of the daemon was answered: on with a request, or done.
LEMMA CallEnds ==
    ASSUME FlowsInv, NEW f \in Flows, flow[f] \in CallKinds, DaemonAnswers(f),
           NEW what \in {"idle"} \cup RequestKinds, Goes(f, what),
           IF what = "idle" THEN frames' = frames ELSE frames' = [frames EXCEPT ![f] = MakeRequest]
    PROVE  FlowsInv'
<1>1. what \in FlowKinds /\ what \notin CallKinds /\ flow[f] \notin RequestKinds
  BY KindsApart DEF FlowKinds
<1>2. CallsOf(f, what)
  BY <1>1 DEF CallsOf
<1>3. frames' = [frames EXCEPT ![f] = IF what \in RequestKinds THEN <<"call">> ELSE <<>>]
  <2>1. what = "idle" => what \notin RequestKinds
    BY KindsApart
  <2>2. frames = [frames EXCEPT ![f] = <<>>]
    BY <1>1, NoFrames
  <2>3. CASE what = "idle"
    BY <2>1, <2>2, <2>3
  <2>4. CASE what # "idle"
    BY <2>4 DEF MakeRequest
  <2>. QED
    BY <2>3, <2>4
<1>. QED
  BY <1>1, <1>2, <1>3, FlowGoes

\* What is answered: a request, or a call of the daemon.
LEMMA AnsweredInv == ASSUME LoginInv, NEW f \in Flows, Answered(f) PROVE LoginInv'
<1>. USE KindsApart
<1>1. FlowsInv /\ LoginRest
  BY DEF LoginInv
<1>2. SUFFICES FlowsInv' /\ LoginRest'
  BY DEF LoginInv
<1>3. CASE AccountArrives(f)
  <2>1. flow[f] \in RequestKinds /\ frames' = [frames EXCEPT ![f] = <<>>]
    BY <1>3 DEF AccountArrives, Resolved
  <2>2. FlowsInv'
    <3>. DEFINE what == IF flow[f] = "check" THEN "firstSetAccount" ELSE "setAccount"
    <3>1. what \in CallKinds /\ what # "idle" /\ CallDaemon(f, what)
      BY <1>3 DEF AccountArrives
    <3>. HIDE DEF what
    <3>. QED
      BY <3>1, <2>1, <1>1, RequestEnds
  <2>3. answer' \in [Flows -> {"unconfirmed", "confirmed"}]
    BY <1>1, <1>3 DEF AccountArrives, ServerAccount, LoginRest
  <2>. QED
    BY <2>2, <2>3, <1>1, <1>3 DEF AccountArrives, Resolved, LoginRest
<1>4. CASE Identified(f)
  <2>1. FlowsInv'
    BY <1>1, <1>4, RequestEnds DEF Identified
  <2>. QED
    BY <2>1, <1>1, <1>4 DEF Identified, LoginRest, Screens, LoginScreens
<1>5. CASE AccountStored(f)
  <2>1. flow[f] \in CallKinds /\ DaemonAnswers(f)
    BY <1>5 DEF AccountStored
  <2>2. FlowsInv'
    <3>1. CASE Goes(f, "idle") /\ UNCHANGED frames
      BY <3>1, <2>1, <1>1, CallEnds
    <3>2. CASE ~(Goes(f, "idle") /\ UNCHANGED frames)
      <4>. DEFINE what == IF flow[f] = "setAccount" THEN "locations" ELSE "firstLocations"
      <4>1. what \in RequestKinds /\ what # "idle"
        OBVIOUS
      <4>2. Goes(f, what) /\ frames' = [frames EXCEPT ![f] = MakeRequest]
        BY <3>2, <1>5 DEF AccountStored
      <4>. HIDE DEF what
      <4>. QED
        BY <4>1, <4>2, <2>1, <1>1, CallEnds
    <3>. QED
      BY <3>1, <3>2
  <2>. QED
    BY <2>2, <1>1, <1>5 DEF AccountStored, LoginRest, Screens, LoginScreens
<1>6. CASE LocationsArrive(f)
  <2>1. FlowsInv'
    BY <1>1, <1>6, RequestEnds DEF LocationsArrive, Resolved
  <2>. QED
    BY <2>1, <1>1, <1>6 DEF LocationsArrive, Resolved, LoginRest, Screens, LoginScreens
<1>7. CASE RequestRetried(f)
  <2>1. FlowsInv'
    BY <1>1, <1>7, FlowRetries DEF RequestRetried, loginVars
  <2>. QED
    BY <2>1, <1>1, <1>7
       DEF RequestRetried, Forbidden, Refreshed, SessionRenewed, loginVars, LoginRest
<1>8. CASE RequestFails(f)
  <2>1. flow[f] \in RequestKinds /\ frames' = [frames EXCEPT ![f] = <<>>]
    BY <1>1, <1>8 DEF RequestFails, Failed, Unauthorized, FlowsInv
  <2>2. FlowsInv'
    BY <2>1, <1>1, <1>8, RequestEnds DEF RequestFails
  <2>3. logoutDue' \in BOOLEAN
    BY <1>1, <1>8 DEF RequestFails, Failed, FailsRefresh, Unauthorized, LoginRest
  <2>. QED
    BY <2>2, <2>3, <1>1, <1>8
       DEF RequestFails, Failed, Unauthorized, LoginRest, Screens, LoginScreens
<1>9. CASE LogoutPosted(f)
  <2>1. flow[f] \in RequestKinds /\ frames' = [frames EXCEPT ![f] = <<>>]
        /\ CallDaemon(f, "clearAccount")
    BY <1>9 DEF LogoutPosted, GoesOnAnyway
  <2>2. FlowsInv'
    BY <2>1, <1>1, RequestEnds
  <2>. QED
    BY <2>2, <1>1, <1>9 DEF LogoutPosted, LoginRest
<1>10. CASE AccountCleared(f)
  <2>1. flow[f] \in CallKinds /\ flow[f] \notin RequestKinds
        /\ "clearSettings" \in CallKinds /\ "clearSettings" \in FlowKinds \ RequestKinds
    BY <1>10 DEF AccountCleared, FlowKinds
  <2>2. Goes(f, "clearSettings") /\ CallsOf(f, "clearSettings")
    BY <2>1, <1>10 DEF AccountCleared, CallsOf
  <2>3. frames' = [frames EXCEPT ![f] = <<>>]
    BY <2>1, <1>1, <1>10, NoFrames DEF AccountCleared
  <2>4. FlowsInv'
    BY <2>1, <2>2, <2>3, <1>1, FlowGoes
  <2>. QED
    BY <2>4, <1>1, <1>10 DEF AccountCleared, LoginRest
<1>11. CASE LoggedOut(f)
  <2>1. FlowsInv'
    BY <1>1, <1>11, CallEnds DEF LoggedOut
  <2>. QED
    BY <2>1, <1>1, <1>11 DEF LoggedOut, LoginRest, Screens, LoginScreens
<1>12. CASE Decided(f)
  <2>1. FlowsInv'
    BY <1>1, <1>12, CallEnds DEF Decided, sessionVars
  <2>. QED
    BY <2>1, <1>1, <1>12 DEF Decided, sessionVars, LoginRest, Screens
<1>. QED
  BY <1>3, <1>4, <1>5, <1>6, <1>7, <1>8, <1>9, <1>10, <1>11, <1>12 DEF Answered

\* The Logout screen comes up, and starts its flow unless that one is under way.
LEMMA MountLogoutInv ==
    ASSUME FlowsInv, MountLogout, calls' = calls PROVE FlowsInv' /\ screen' \in Screens
<1>1. screen' \in Screens
  BY DEF MountLogout, Screens, LoginScreens
<1>2. CASE screen # "logout" /\ flow[LogoutFlow] = "idle"
  <2>1. LogoutFlow \in Flows /\ "logout" \in RequestKinds /\ "logout" \in FlowKinds \ CallKinds
    BY LoginAssumption, KindsApart DEF FlowKinds
  <2>2. /\ Goes(LogoutFlow, "logout") /\ CallsOf(LogoutFlow, "logout")
        /\ frames' = [frames EXCEPT ![LogoutFlow] = <<"call">>]
    BY <2>1, <1>2, KindsApart DEF MountLogout, Starts, MakeRequest, CallsOf
  <2>. QED
    BY <2>1, <2>2, <1>1, FlowGoes
<1>3. CASE ~(screen # "logout" /\ flow[LogoutFlow] = "idle")
  <2>1. UNCHANGED <<flow, frames, calls>>
    BY <1>3 DEF MountLogout
  <2>. QED
    BY <2>1, <1>1 DEF FlowsInv, Waits
<1>. QED
  BY <1>2, <1>3

\* Every step of the flows, the user and the server keeps the invariant.
LEMMA LoginNextInv == ASSUME LoginInv, [LoginNext]_vars PROVE LoginInv'
<1>1. FlowsInv /\ LoginRest
  BY DEF LoginInv
<1>2. ASSUME UNCHANGED <<frames, flow, calls>> PROVE FlowsInv'
  BY <1>1, <1>2 DEF FlowsInv, Waits
<1>3. Acts => acts' \in 0..MaxActs
  BY <1>1, SessionAssumption DEF Acts, LoginRest
<1>4. ASSUME NEW f \in Flows \ {LogoutFlow}, Begins(f) PROVE LoginInv'
  BY <1>4, BeginsInv
<1>5. ASSUME NEW f \in Flows, Answered(f) PROVE LoginInv'
  BY <1>5, AnsweredInv
<1>6. CASE FollowLink
  BY <1>1, <1>2, <1>6 DEF FollowLink, sessionVars, LoginInv, LoginRest, Screens, LoginScreens
<1>7. CASE SignOut
  <2>1. FlowsInv' /\ screen' \in Screens
    BY <1>1, <1>7, MountLogoutInv DEF SignOut
  <2>. QED
    BY <2>1, <1>1, <1>3, <1>7 DEF SignOut, LoginInv, LoginRest
<1>8. CASE AuthFailure
  <2>1. FlowsInv' /\ screen' \in Screens
    BY <1>1, <1>8, MountLogoutInv DEF AuthFailure
  <2>. QED
    BY <2>1, <1>1, <1>8 DEF AuthFailure, LoginInv, LoginRest
<1>9. CASE UserConfirms
  BY <1>1, <1>2, <1>9 DEF UserConfirms, sessionVars, LoginInv, LoginRest
<1>10. CASE Expires
  BY <1>1, <1>2, <1>3, <1>10 DEF Expires, SessionExpires, loginVars, LoginInv, LoginRest
<1>11. CASE UNCHANGED vars
  BY <1>1, <1>2, <1>11 DEF vars, sessionVars, loginVars, LoginInv, LoginRest
<1>. QED
  BY <1>4, <1>5, <1>6, <1>7, <1>8, <1>9, <1>10, <1>11 DEF LoginNext

\* With it the types, of which the first frame of a chain is one.
LEMMA LoginTyped == LoginInv => LoginTypeOK
<1>. SUFFICES ASSUME LoginInv PROVE LoginTypeOK
  OBVIOUS
<1>1. frames \in [Flows -> Seq(FrameKinds)]
  BY DEF LoginInv, LoginRest, FlowsInv, Chains
<1>2. ASSUME NEW f \in Flows, frames[f] # <<>> PROVE frames[f][1] = "call"
  <2>. DEFINE s == frames[f]
  <2>1. s \in Seq(FrameKinds) /\ s # <<>> /\ \A i \in 1..Len(s) : s[i] = "call" <=> i = 1
    BY <1>2 DEF LoginInv, LoginRest, FlowsInv, Chains
  <2>. HIDE DEF s
  <2>2. 1 \in 1..Len(s)
    BY <2>1, EmptySeq
  <2>. QED
    BY <2>1, <2>2 DEF s
<1>. QED
  BY <1>1, <1>2 DEF LoginInv, LoginRest, FlowsInv, LoginTypeOK, SessionTypeOK, FlowKinds

\* However flows overlap, sessions expire and calls wait: a request has one chain of answers, a
\* flow has one call of the daemon at most, and none has both (Session.js, LoginScreen.js).
THEOREM LoginInvariance == LoginSpec => []LoginInv
  BY LoginInitInv, LoginNextInv, PTL DEF LoginSpec

-----------------------------------------------------------------------------
(* Start and quit: the types need no other invariant.                      *)

\* Nothing is there before the app is ready.
LEMMA AppInitTyped == AppInit => AppTypeOK
  BY DEF AppInit, AppTypeOK, Stages

\* Every step of the start, the window and the quit keeps them.
LEMMA AppNextTyped == ASSUME AppTypeOK, [AppNext]_appVars PROVE AppTypeOK'
<1>. USE DEF AppTypeOK, Stages, windowVars, quitVars
<1>1. Exits => AppTypeOK'
  BY DEF Exits
<1>2. Crashes => AppTypeOK'
  BY DEF Crashes
<1>3. GoesOnRunning => AppTypeOK'
  BY <1>1 DEF GoesOnRunning
<1>4. Ready \/ Connected \/ Mismatched \/ TimesOut \/ Installed => AppTypeOK'
  BY <1>1, <1>3 DEF Ready, Connected, Mismatched, TimesOut, Installed, ConnectsTo
<1>5. ASSUME NEW by \in {"ready-to-show", "timer"}, Shows(by) PROVE AppTypeOK'
  BY <1>2, <1>5 DEF Shows
<1>6. CloseButton \/ Activates \/ TrayCommand => AppTypeOK'
  BY <1>2 DEF CloseButton, Activates, TrayCommand
<1>7. UserQuits => AppTypeOK'
  BY DEF UserQuits, QuitBegins
<1>8. QuitStep => AppTypeOK'
  BY DEF QuitStep, WindowCloses, WillQuit, GivenUp, Disconnects, QuitsAgain, QuitBegins
<1>9. UNCHANGED appVars => AppTypeOK'
  BY DEF appVars
<1>. QED
  BY <1>4, <1>5, <1>6, <1>7, <1>8, <1>9 DEF AppNext

-----------------------------------------------------------------------------
(* The instance MCClient: each step is one of the part whose behaviour it   *)
(* is, and no step of the others, so that each keeps its invariant.         *)

\* What holds of all parts at once.
ClientInv == LoginInv /\ TransitionInv /\ AnalyticsInv /\ AppTypeOK /\ InstallInv

\* A step of one part leaves the others alone.
LEMMA ClientStep ==
    ASSUME [ClientNext]_clientVars
    PROVE  /\ [LoginNext]_vars
           /\ [TransitionNext]_groupVars
           /\ [AnalyticsNext]_analyticsVars
           /\ [AppNext]_appVars
           /\ [InstallNext]_installVars
<1>1. CASE ClientNext
  BY <1>1
     DEF ClientNext, loginRests, transitionRests, analyticsRests, appRests, installRests
<1>2. CASE UNCHANGED clientVars
  BY <1>2 DEF clientVars
<1>. QED
  BY <1>1, <1>2

\* Every part keeps its invariant in the instance.
THEOREM ClientInvariance == ClientSpec => []ClientInv
<1>1. ClientInit => ClientInv
  BY LoginInitInv, TransitionInitInv, AnalyticsInitInv, AppInitTyped, InstallInitInv
     DEF ClientInit, ClientInv
<1>2. ClientInv /\ [ClientNext]_clientVars => ClientInv'
  BY ClientStep, LoginNextInv, TransitionNextInv, AnalyticsNextInv, AppNextTyped, InstallNextInv
     DEF ClientInv
<1>. QED
  BY <1>1, <1>2, PTL DEF ClientSpec

\* Every variable of the client's parts keeps its type.
THEOREM ClientTypeCorrect == ClientSpec => []ClientTypeOK
<1>1. ClientInv => ClientTypeOK
  BY LoginTyped
     DEF ClientInv, TransitionInv, AnalyticsInv, QueueDrains, InstallInv, ClientTypeOK
<1>. QED
  BY <1>1, ClientInvariance, PTL

\* The children of a group, the queue of hits, and the installation, whichever part moves.
THEOREM ClientPromise == ClientSpec => [](TargetKept /\ QueueDrains /\ InstallationSound)
<1>1. ClientInv => TargetKept /\ QueueDrains /\ InstallationSound
  BY InstallSound DEF ClientInv, TransitionInv, AnalyticsInv
<1>. QED
  BY <1>1, ClientInvariance, PTL
=============================================================================
