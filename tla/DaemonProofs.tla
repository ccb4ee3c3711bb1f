---------------------------- MODULE DaemonProofs ----------------------------
(***************************************************************************)
(* Proofs about Daemon, for any clients, settings and firewall modes, any  *)
(* kinds of requests and whatever _to_notify.state holds at first: of the  *)
(* daemon's own state, and of the Connection that it drives.               *)
(***************************************************************************)
EXTENDS Daemon, ConnectionProofs, FiniteSetTheorems

-----------------------------------------------------------------------------
(* What handlers do to the queue.                                          *)

\* The handlers that the invariant speaks of, and those that the handler of a step posts.
Tracked == {"Connect", "Close", "NotifyChanges", "DoShutdown", "Terminate"}
Posted == {"NotifyChanges", "DoConnect", "SlowTimeout"}
          \cup (IF exiting' THEN {"DoShutdown"} ELSE {})

\* r is q with something behind it that was posted, not received, where handlers of a
\* process may be discarded.
Grown(q, r) ==
    /\ q \in Seq(Handlers) /\ r \in Seq(Handlers)
    /\ Len(q) <= Len(r)
    /\ \A i \in 1..Len(q) : \A h \in Tracked : q[i] = h <=> r[i] = h
    /\ \A i \in 1..Len(r) : i > Len(q) => r[i] \notin Tracked \ Posted

\* Nothing posted, yet.
LEMMA GrownSelf == ASSUME NEW q \in Seq(Handlers) PROVE Grown(q, q)
<1>1. Len(q) \in Nat
  BY LenProperties
<1>. QED
  BY <1>1 DEF Grown

\* Posting once more.
LEMMA GrownPosts ==
    ASSUME NEW q, NEW r, Grown(q, r), NEW a \in Seq(Posted)
    PROVE  /\ Grown(q, r \o a)
           /\ \A h : Has(r, h) \/ Has(a, h) => Has(r \o a, h)
<1>1. Posted \subseteq Handlers
  BY DEF Posted, Handlers, DaemonHandlers
<1>2. a \in Seq(Handlers) /\ r \in Seq(Handlers) /\ q \in Seq(Handlers)
  BY <1>1, SeqMonotonic DEF Grown
<1>3. /\ r \o a \in Seq(Handlers)
      /\ Len(r \o a) = Len(r) + Len(a)
      /\ \A i \in 1..Len(r) + Len(a) : (r \o a)[i] = IF i <= Len(r) THEN r[i] ELSE a[i - Len(r)]
  BY <1>2, ConcatProperties
<1>4. Len(q) \in Nat /\ Len(r) \in Nat /\ Len(a) \in Nat /\ Len(q) <= Len(r)
  BY <1>2, LenProperties DEF Grown
<1>5. ASSUME NEW i \in 1..Len(q), NEW h \in Tracked PROVE q[i] = h <=> (r \o a)[i] = h
  <2>1. (r \o a)[i] = r[i]
    BY <1>3, <1>4
  <2>. QED
    BY <2>1 DEF Grown
<1>6. ASSUME NEW i \in 1..Len(r \o a), i > Len(q) PROVE (r \o a)[i] \notin Tracked \ Posted
  <2>1. CASE i <= Len(r)
    <3>1. i \in 1..Len(r) /\ (r \o a)[i] = r[i]
      BY <2>1, <1>3, <1>4
    <3>. QED
      BY <3>1, <1>6 DEF Grown
  <2>2. CASE ~(i <= Len(r))
    <3>1. i - Len(r) \in 1..Len(a) /\ (r \o a)[i] = a[i - Len(r)]
      BY <2>2, <1>3, <1>4
    <3>. QED
      BY <3>1, ElementOfSeq
  <2>. QED
    BY <2>1, <2>2
<1>7. Grown(q, r \o a)
  BY <1>2, <1>3, <1>4, <1>5, <1>6 DEF Grown
<1>. QED
  BY <1>2, <1>7, HasConcat

\* Posting before and after.
LEMMA GrownTwice == ASSUME NEW p, NEW q, NEW r, Grown(p, q), Grown(q, r) PROVE Grown(p, r)
<1>1. Len(p) \in Nat /\ Len(q) \in Nat /\ Len(r) \in Nat /\ Len(p) <= Len(q) /\ Len(q) <= Len(r)
  BY LenProperties DEF Grown
<1>2. ASSUME NEW i \in 1..Len(p), NEW h \in Tracked PROVE p[i] = h <=> r[i] = h
  <2>1. i \in 1..Len(q)
    BY <1>1
  <2>. QED
    BY <2>1 DEF Grown
<1>3. ASSUME NEW i \in 1..Len(r), i > Len(p) PROVE r[i] \notin Tracked \ Posted
  <2>1. CASE i \in 1..Len(q)
    <3>1. q[i] \notin Tracked \ Posted
      BY <2>1, <1>3 DEF Grown
    <3>. QED
      BY <2>1, <3>1 DEF Grown
  <2>2. CASE i > Len(q)
    BY <2>2 DEF Grown
  <2>. QED
    BY <2>1, <2>2, <1>1
<1>. QED
  BY <1>1, <1>2, <1>3 DEF Grown

\* What is tracked stays.
LEMMA GrownKeeps ==
    ASSUME NEW q, NEW r, Grown(q, r), NEW h \in Tracked, Has(q, h) PROVE Has(r, h)
<1>1. /\ Len(q) \in Nat /\ Len(r) \in Nat /\ Len(q) <= Len(r)
      /\ DOMAIN q = 1..Len(q) /\ DOMAIN r = 1..Len(r)
  BY LenProperties DEF Grown
<1>2. PICK i \in 1..Len(q) : q[i] = h
  BY <1>1 DEF Has
<1>3. r[i] = h
  BY <1>2 DEF Grown
<1>. QED
  BY <1>1, <1>2, <1>3 DEF Has

\* Posting the last ones.
LEMMA GrownAfter ==
    ASSUME NEW q, NEW a \in Seq(Posted)
    PROVE  \A r : Grown(q, r) => Grown(q, r \o a) /\ \A h : Has(a, h) => Has(r \o a, h)
BY GrownPosts

\* The handlers of a process that is gone are not tracked.
LEMMA GrownDiscard == ASSUME NEW q \in Seq(Handlers) PROVE Grown(q, Discard(q))
<1>1. /\ Len(q) \in Nat /\ DOMAIN q = 1..Len(q)
      /\ Discard(q) \in Seq(Handlers)
      /\ DOMAIN Discard(q) = 1..Len(q)
  BY LenProperties, HasDiscard DEF Discard
<1>2. Len(Discard(q)) = Len(q)
  BY <1>1, LenProperties
<1>3. \A i \in 1..Len(q) : \A h \in Tracked : q[i] = h <=> Discard(q)[i] = h
  BY <1>1 DEF Discard, Tracked
<1>. QED
  BY <1>1, <1>2, <1>3 DEF Grown

\* What the Connection and the daemon post.
LEMMA PostedSequences ==
    /\ <<>> \in Seq(Posted) /\ <<"DoConnect">> \in Seq(Posted)
    /\ <<"NotifyChanges">> \in Seq(Posted)
    /\ \A c : Aborted(c) \in Seq(Posted)
    /\ PostIfNoProcess \in Seq(Posted)
    /\ \A flags : PostNotify(flags) \in Seq(Posted) /\ PostAgain(flags) \in Seq(Posted)
<1>1. /\ <<>> \in Seq(Posted) /\ <<"DoConnect">> \in Seq(Posted)
      /\ <<"SlowTimeout">> \in Seq(Posted) /\ <<"NotifyChanges">> \in Seq(Posted)
  BY HasPosted DEF Posted
<1>2. \A flags : PostNotify(flags) \in Seq(Posted) /\ PostAgain(flags) \in Seq(Posted)
  BY <1>1 DEF PostNotify, PostAgain
<1>. QED
  BY <1>1, <1>2 DEF Aborted, PostIfNoProcess

\* DoShutdown is posted while exiting only.
LEMMA PostedWhileExiting ==
    /\ exiting' => <<"DoShutdown">> \in Seq(Posted)
    /\ exiting' = exiting
         => PostShutdown \in Seq(Posted) /\ \A extra : ListenerPosts(extra) \in Seq(Posted)
<1>1. exiting' => <<"DoShutdown">> \in Seq(Posted)
  BY HasPosted DEF Posted
<1>2. ASSUME exiting' = exiting
      PROVE  PostShutdown \in Seq(Posted) /\ \A extra : ListenerPosts(extra) \in Seq(Posted)
  <2>1. PostShutdown \in Seq(Posted)
    BY <1>1, <1>2, PostedSequences DEF PostShutdown
  <2>. QED
    BY <2>1, PostedSequences, ConcatProperties DEF ListenerPosts
<1>. QED
  BY <1>1, <1>2

\* What the handler at the head leaves of the tracked ones.
LEMMA RunQueue ==
    ASSUME queue \in Seq(Handlers), queue # <<>>, Grown(Tail(queue), queue')
    PROVE  /\ queue' \in Seq(Handlers)
           /\ \A h \in Tracked : Has(queue, h) /\ Head(queue) # h => Has(queue', h)
           /\ \A h \in Tracked \ Posted : Has(queue', h) => Has(queue, h)
           /\ LateConnect' => LateConnect
           /\ (\A i, j \in DOMAIN queue : queue[i] = "Close" /\ queue[j] = "Close" => i = j)
                => /\ \A i, j \in DOMAIN queue' : queue'[i] = "Close" /\ queue'[j] = "Close" => i = j
                   /\ Head(queue) = "Close" => ~LateConnect'
           /\ Head(queue) = "Close" /\ Has(queue', "Connect") => LateConnect
           /\ Has(queue, Head(queue))
<1>. DEFINE t == Tail(queue)
            n == Len(t)
<1>1. /\ t \in Seq(Handlers) /\ queue' \in Seq(Handlers)
      /\ Head(queue) = queue[1]
      /\ n = Len(queue) - 1 /\ Len(queue) \in Nat \ {0} /\ Len(queue') \in Nat /\ n <= Len(queue')
      /\ \A i \in 1..n : t[i] = queue[i + 1]
  BY HeadTailProperties, EmptySeq, LenProperties DEF Grown
<1>2. /\ DOMAIN queue = 1..Len(queue)
      /\ DOMAIN queue' = 1..Len(queue')
  BY <1>1, LenProperties
<1>3. ASSUME NEW i \in 1..n, NEW h \in Tracked
      PROVE  /\ i \in DOMAIN queue' /\ i + 1 \in DOMAIN queue
             /\ queue'[i] = h <=> queue[i + 1] = h
  <2>1. i \in DOMAIN queue' /\ i + 1 \in DOMAIN queue
    BY <1>1, <1>2
  <2>2. t[i] = h <=> queue'[i] = h
    BY DEF Grown
  <2>. QED
    BY <2>1, <2>2, <1>1
<1>4. ASSUME NEW i \in DOMAIN queue', NEW h \in Tracked \ Posted, queue'[i] = h
      PROVE  i \in 1..n /\ i + 1 \in DOMAIN queue /\ queue[i + 1] = h
  <2>1. ~(i > n)
    BY <1>2, <1>4 DEF Grown
  <2>2. i \in 1..n
    BY <2>1, <1>1, <1>2
  <2>. QED
    BY <2>2, <1>3, <1>4
<1>5. "Close" \in Tracked \ Posted /\ "Connect" \in Tracked \ Posted
  BY DEF Tracked, Posted
<1>6. ASSUME NEW h \in Tracked, Has(queue, h), Head(queue) # h PROVE Has(queue', h)
  <2>1. PICK i \in 1..Len(queue) : queue[i] = h
    BY <1>6, <1>2 DEF Has
  <2>2. i - 1 \in 1..n /\ (i - 1) + 1 = i
    BY <2>1, <1>6, <1>1
  <2>3. i - 1 \in DOMAIN queue' /\ queue'[i - 1] = h
    BY <2>1, <2>2, <1>3
  <2>. QED
    BY <2>3 DEF Has
<1>7. \A h \in Tracked \ Posted : Has(queue', h) => Has(queue, h)
  BY <1>4 DEF Has
<1>8. LateConnect' => LateConnect
  <2>. SUFFICES ASSUME NEW i \in DOMAIN queue', NEW j \in DOMAIN queue', i < j,
                       queue'[i] = "Close", queue'[j] = "Connect"
                PROVE  LateConnect
    BY DEF LateConnect
  <2>1. /\ i + 1 \in DOMAIN queue /\ j + 1 \in DOMAIN queue
        /\ queue[i + 1] = "Close" /\ queue[j + 1] = "Connect"
    BY <1>4, <1>5
  <2>2. i + 1 < j + 1
    BY <1>2
  <2>. QED
    BY <2>1, <2>2 DEF LateConnect
<1>9. ASSUME \A i, j \in DOMAIN queue : queue[i] = "Close" /\ queue[j] = "Close" => i = j
      PROVE  /\ \A i, j \in DOMAIN queue' : queue'[i] = "Close" /\ queue'[j] = "Close" => i = j
             /\ Head(queue) = "Close" => ~LateConnect'
  <2>1. ASSUME NEW i \in DOMAIN queue', NEW j \in DOMAIN queue',
               queue'[i] = "Close", queue'[j] = "Close"
        PROVE  i = j
    <3>1. /\ i + 1 \in DOMAIN queue /\ j + 1 \in DOMAIN queue
          /\ queue[i + 1] = "Close" /\ queue[j + 1] = "Close"
      BY <2>1, <1>4, <1>5
    <3>2. i + 1 = j + 1
      BY <3>1, <1>9
    <3>. QED
      BY <3>2, <1>2
  <2>2. ASSUME Head(queue) = "Close", NEW i \in DOMAIN queue', queue'[i] = "Close" PROVE FALSE
    <3>1. i + 1 \in DOMAIN queue /\ queue[i + 1] = "Close" /\ i \in 1..n
      BY <2>2, <1>4, <1>5
    <3>2. 1 \in DOMAIN queue /\ queue[1] = "Close"
      BY <2>2, <1>1, <1>2
    <3>3. i + 1 = 1
      BY <3>1, <3>2, <1>9
    <3>. QED
      BY <3>1, <3>3
  <2>. QED
    BY <2>1, <2>2 DEF LateConnect
<1>10. ASSUME Head(queue) = "Close", Has(queue', "Connect") PROVE LateConnect
  <2>1. PICK j \in DOMAIN queue' : queue'[j] = "Connect"
    BY <1>10 DEF Has
  <2>2. j + 1 \in DOMAIN queue /\ queue[j + 1] = "Connect" /\ 1 < j + 1
    BY <2>1, <1>4, <1>5
  <2>3. 1 \in DOMAIN queue /\ queue[1] = "Close"
    BY <1>10, <1>1, <1>2
  <2>. QED
    BY <2>2, <2>3 DEF LateConnect
<1>11. Has(queue, Head(queue))
  <2>1. 1 \in DOMAIN queue
    BY <1>1, <1>2
  <2>. QED
    BY <2>1, <1>1 DEF Has
<1>. QED
  BY <1>1, <1>6, <1>7, <1>8, <1>9, <1>10, <1>11

\* A handler that becomes ready is the last one.
LEMMA ReadyQueue ==
    ASSUME queue \in Seq(Handlers), NEW x \in Handlers, queue' = Append(queue, x)
    PROVE  /\ queue' \in Seq(Handlers)
           /\ \A h : Has(queue', h) <=> Has(queue, h) \/ x = h
           /\ LateConnect' => LateConnect \/ (x = "Connect" /\ Has(queue, "Close"))
           /\ (x = "Close" => ~Has(queue, "Close"))
                /\ (\A i, j \in DOMAIN queue : queue[i] = "Close" /\ queue[j] = "Close" => i = j)
                => \A i, j \in DOMAIN queue' : queue'[i] = "Close" /\ queue'[j] = "Close" => i = j
<1>. DEFINE n == Len(queue)
<1>1. /\ queue' \in Seq(Handlers)
      /\ \A h : Has(queue', h) <=> Has(queue, h) \/ x = h
  BY HasAppend
<1>2. /\ n \in Nat /\ DOMAIN queue = 1..n
      /\ DOMAIN queue' = 1..(n + 1)
      /\ \A i \in 1..n : queue'[i] = queue[i]
      /\ queue'[n + 1] = x
  BY LenProperties
<1>3. ASSUME NEW i \in DOMAIN queue' PROVE i = n + 1 \/ (i \in DOMAIN queue /\ queue'[i] = queue[i])
  BY <1>2
<1>4. LateConnect' => LateConnect \/ (x = "Connect" /\ Has(queue, "Close"))
  <2>. SUFFICES ASSUME NEW i \in DOMAIN queue', NEW j \in DOMAIN queue', i < j,
                       queue'[i] = "Close", queue'[j] = "Connect"
                PROVE  LateConnect \/ (x = "Connect" /\ Has(queue, "Close"))
    BY DEF LateConnect
  <2>1. i \in DOMAIN queue /\ queue[i] = "Close"
    BY <1>2
  <2>2. CASE j = n + 1
    BY <2>1, <2>2, <1>2 DEF Has
  <2>3. CASE j \in DOMAIN queue /\ queue'[j] = queue[j]
    BY <2>1, <2>3 DEF LateConnect
  <2>. QED
    BY <2>2, <2>3, <1>3
<1>5. ASSUME x = "Close" => ~Has(queue, "Close"),
             \A i, j \in DOMAIN queue : queue[i] = "Close" /\ queue[j] = "Close" => i = j,
             NEW i \in DOMAIN queue', NEW j \in DOMAIN queue',
             queue'[i] = "Close", queue'[j] = "Close"
      PROVE  i = j
  BY <1>2, <1>3, <1>5 DEF Has
<1>. QED
  BY <1>1, <1>4, <1>5

-----------------------------------------------------------------------------
(* What the Connection does, as far as the daemon's invariant goes.        *)

\* A handler of the Connection that ran with q left and posted "after" for the daemon.
Handled(q, after) ==
    /\ Grown(q, queue')
    /\ \A h : Has(after, h) => Has(queue', h)
    /\ loop' # "stopped"
    /\ state = "DISCONNECTING" => state' \in {"DISCONNECTING", "DISCONNECTED"}
    /\ state' = "DISCONNECTING" => state = "DISCONNECTING"

\* Connection::Connect leaves the states that do not try.
LEMMA ConnectHandled ==
    ASSUME NEW q \in Seq(Handlers), NEW after \in Seq(Posted), NEW force,
           Connect(force, q, after)
    PROVE  /\ Grown(q, queue')
           /\ \A h : Has(after, h) => Has(queue', h)
           /\ loop' = loop
           /\ state' \notin {"DISCONNECTED", "DISCONNECTING"}
<1>1. Grown(q, q)
  BY GrownSelf
<1>2. Grown(q, q \o Aborted(TRUE)) /\ Grown(q, q \o PostIfNoProcess)
      /\ Grown(q, q \o <<"DoConnect">>)
  BY <1>1, PostedSequences, GrownPosts
<1>3. Grown(q, q \o Aborted(TRUE) \o PostIfNoProcess)
  BY <1>2, PostedSequences, GrownPosts
<1>4. \/ queue' = q \o after
      \/ queue' = (q \o Aborted(TRUE) \o PostIfNoProcess) \o after
      \/ queue' = (q \o PostIfNoProcess) \o after
      \/ queue' = (q \o <<"DoConnect">>) \o after
  BY DEF Connect
<1>5. Grown(q, queue') /\ \A h : Has(after, h) => Has(queue', h)
  BY <1>1, <1>2, <1>3, <1>4, GrownAfter
<1>6. state' \notin {"DISCONNECTED", "DISCONNECTING"}
  BY DEF Connect, ConnectUnneeded, SetState, Retriable
<1>. QED
  BY <1>5, <1>6 DEF Connect

\* Connection::Disconnect
LEMMA DisconnectHandled ==
    ASSUME NEW q \in Seq(Handlers), NEW after \in Seq(Posted), Disconnect(q, after)
    PROVE  /\ Grown(q, queue')
           /\ \A h : Has(after, h) => Has(queue', h)
           /\ loop' = loop
           /\ state' \in {"DISCONNECTED", "DISCONNECTING"}
<1>1. Grown(q, q)
  BY GrownSelf
<1>2. Grown(q, q \o Aborted(Resets(state')))
  BY <1>1, PostedSequences, GrownPosts
<1>3. queue' = q \o after \/ queue' = (q \o Aborted(Resets(state'))) \o after
  BY DEF Disconnect
<1>4. Grown(q, queue') /\ \A h : Has(after, h) => Has(queue', h)
  BY <1>1, <1>2, <1>3, GrownAfter
<1>. QED
  BY <1>4 DEF Disconnect, SetState, StateAfterDisconnect

\* Connection::DoConnect
LEMMA DoConnectHandled ==
    ASSUME NEW q \in Seq(Handlers), NEW after \in Seq(Posted), NEW launched,
           DoConnect(launched, q, after), loop = "running"
    PROVE  Handled(q, after)
<1>1. Grown(q, q)
  BY GrownSelf
<1>2. \A restart : Grown(q, q \o Aborted(restart))
  BY <1>1, PostedSequences, GrownPosts
<1>3. queue' = q \o after \/ \E restart : queue' = (q \o Aborted(restart)) \o after
  BY DEF DoConnect, LaunchProcess
<1>4. Grown(q, queue') /\ \A h : Has(after, h) => Has(queue', h)
  BY <1>1, <1>2, <1>3, GrownAfter
<1>5. loop' # "stopped"
  BY DEF DoConnect, LaunchProcess
<1>6. /\ state = "DISCONNECTING" => state' = state
      /\ state' = "DISCONNECTING" => state = "DISCONNECTING"
  <2>1. CASE state \in {"CONNECTED", "DISCONNECTING"}
    BY <2>1 DEF DoConnect
  <2>2. CASE state \notin {"CONNECTED", "DISCONNECTING"}
    <3>1. StateToConnect # "DISCONNECTING"
      BY <2>2 DEF StateToConnect
    <3>2. \A n : SlowState(StateToConnect, n) # "DISCONNECTING"
      BY <3>1 DEF SlowState
    <3>. QED
      BY <2>2, <3>1, <3>2 DEF DoConnect, LaunchProcess
  <2>. QED
    BY <2>1, <2>2
<1>. QED
  BY <1>4, <1>5, <1>6 DEF Handled

\* The timer, the accept handler and the late error of a discarded process.
LEMMA SlowTimeoutHandled ==
    ASSUME NEW q \in Seq(Handlers), NEW after \in Seq(Posted),
           OnSlowConnectionTimeout(q, after), loop = "running"
    PROVE  Handled(q, after)
<1>1. Grown(q, queue') /\ \A h : Has(after, h) => Has(queue', h)
  BY GrownSelf, GrownPosts DEF OnSlowConnectionTimeout
<1>. QED
  BY <1>1 DEF Handled, OnSlowConnectionTimeout

LEMMA AcceptHandled ==
    ASSUME NEW q \in Seq(Handlers), OnManagementAccepted(q), loop = "running"
    PROVE  Handled(q, <<>>)
<1>1. \A h : ~Has(<<>>, h)
  BY HasPosted
<1>. QED
  BY <1>1, GrownSelf DEF OnManagementAccepted, Handled

LEMMA StaleErrorHandled ==
    ASSUME NEW q \in Seq(Handlers), OnStaleError(q, <<>>), loop = "running"
    PROVE  Handled(q, <<>>)
<1>1. Grown(q, q \o PostIfNoProcess)
  BY GrownSelf, GrownPosts, PostedSequences
<1>2. Grown(q, queue') /\ \A h : Has(<<>>, h) => Has(queue', h)
  BY <1>1, GrownPosts, PostedSequences DEF OnStaleError
<1>. QED
  BY <1>2 DEF OnStaleError, Handled

\* OnOpenVPNExited
LEMMA ExitedHandled ==
    ASSUME NEW q \in Seq(Handlers), NEW after \in Seq(Posted), NEW early,
           OnOpenVPNExited(early, q, after), loop = "running"
    PROVE  Handled(q, after)
<1>. DEFINE retry == IF state = "CONNECTED" \/ (Schedules /\ ~early) THEN <<"DoConnect">> ELSE <<>>
            first == Discard(q) \o Aborted(Resets(StateAfterExit))
<1>1. retry \in Seq(Posted)
  BY PostedSequences
<1>2. Grown(q, first)
  BY GrownDiscard, GrownPosts, PostedSequences
<1>3. Grown(q, first \o retry)
  BY <1>1, <1>2, GrownPosts
<1>4. queue' = (first \o retry) \o after
  BY DEF OnOpenVPNExited
<1>5. Grown(q, queue') /\ \A h : Has(after, h) => Has(queue', h)
  BY <1>3, <1>4, GrownPosts
<1>. QED
  BY <1>5 DEF OnOpenVPNExited, StateAfterExit, Handled

\* OnOpenVPNManagement
LEMMA LineHandled ==
    ASSUME NEW q \in Seq(Handlers), NEW after \in Seq(Posted), NEW line \in Lines,
           OnOpenVPNManagement(line, q, after), loop = "running"
    PROVE  Handled(q, after)
<1>1. Grown(q, q)
  BY GrownSelf
<1>2. Grown(q, q \o Aborted(Resets("CONNECTED")))
  BY <1>1, PostedSequences, GrownPosts
<1>3. queue' = q \o after \/ queue' = (q \o Aborted(Resets("CONNECTED"))) \o after
  BY DEF OnOpenVPNManagement, OnOpenVPNConnected, OnOpenVPNState
<1>4. Grown(q, queue') /\ \A h : Has(after, h) => Has(queue', h)
  BY <1>1, <1>2, <1>3, GrownAfter
<1>5. loop' = loop
  BY DEF OnOpenVPNManagement, OnOpenVPNConnected, OnOpenVPNState
<1>6. /\ state = "DISCONNECTING" => state' = state
      /\ state' = "DISCONNECTING" => state = "DISCONNECTING"
  <2>1. CASE line = "CONNECTED"
    BY <2>1 DEF OnOpenVPNManagement, OnOpenVPNConnected, SetState
  <2>2. CASE line # "CONNECTED"
    <3>1. state' = StateAfterLine(line)
      BY <2>2 DEF OnOpenVPNManagement, OnOpenVPNState
    <3>. QED
      BY <3>1 DEF StateAfterLine, SlowState
  <2>. QED
    BY <2>1, <2>2
<1>. QED
  BY <1>4, <1>5, <1>6 DEF Handled

-----------------------------------------------------------------------------
(* Notifications.                                                          *)

\* A handler that only notes what changed, and leaves the killswitch alone.
LEMMA NotedKillswitch ==
    ASSUME KillswitchFollows, GarbageHarmless, NEW raised, Notify(raised),
           killswitch' = killswitch, shouldConnect' => shouldConnect,
           ~(Engaged' <=> Engaged) => "CONNECT" \in raised \/ "FIREWALL" \in raised,
           ~(Engaged' <=> Engaged) => shouldConnect \/ "FIREWALL" \in raised
    PROVE  KillswitchFollows' /\ GarbageHarmless'
<1>1. KillswitchFollows'
  <2>1. CASE Engaged' <=> Engaged
    <3>1. notify \subseteq notify'
      BY DEF Notify
    <3>. QED
      BY <2>1, <3>1 DEF KillswitchFollows
  <2>2. CASE ~(Engaged' <=> Engaged)
    BY <2>2 DEF KillswitchFollows, Notify, FirewallFlags
  <2>. QED
    BY <2>1, <2>2
<1>2. GarbageHarmless'
  <2>. SUFFICES ASSUME notify' # {}, ~notifyScheduled'
                PROVE  notify' \subseteq StateFlags /\ ~shouldConnect' /\ killswitch' = Engaged'
    BY DEF GarbageHarmless
  <2>1. ~notifyScheduled /\ raised \subseteq notify /\ notify' = notify
    BY DEF Notify, MustNotify
  <2>2. notify \subseteq StateFlags /\ ~shouldConnect /\ killswitch = Engaged
    BY <2>1 DEF GarbageHarmless
  <2>3. "FIREWALL" \notin raised
    BY <2>1, <2>2 DEF StateFlags
  <2>4. Engaged' <=> Engaged
    BY <2>2, <2>3
  <2>. QED
    BY <2>1, <2>2, <2>4
<1>. QED
  BY <1>1, <1>2

\* A handler that ends with NotifyChanges.
LEMMA NotifiedKillswitch ==
    ASSUME KillswitchFollows, GarbageHarmless, NEW raised, NotifyChanges(raised),
           ~(Engaged' <=> Engaged) => "CONNECT" \in raised \/ "FIREWALL" \in raised,
           ~(Engaged' <=> Engaged) \/ shouldConnect'
               => shouldConnect \/ "FIREWALL" \in raised \/ "DATA" \in raised
    PROVE  KillswitchFollows' /\ GarbageHarmless'
<1>. DEFINE flags == notify \cup raised
<1>1. CASE MustNotify(raised)
  <2>1. /\ notify' = RaisedByNotify(flags)
        /\ notifyScheduled' = (RaisedByNotify(flags) # {})
        /\ killswitch' = IF flags \cap FirewallFlags # {} THEN Engaged' ELSE killswitch
    BY <1>1 DEF NotifyChanges
  <2>2. GarbageHarmless'
    BY <2>1 DEF GarbageHarmless
  <2>3. CASE flags \cap FirewallFlags # {}
    <3>1. killswitch' = Engaged'
      BY <2>1, <2>3
    <3>. QED
      BY <2>2, <3>1 DEF KillswitchFollows
  <2>4. CASE flags \cap FirewallFlags = {}
    <3>1. "CONNECT" \notin raised /\ "FIREWALL" \notin raised /\ notify \cap FirewallFlags = {}
      BY <2>4 DEF FirewallFlags
    <3>2. killswitch = Engaged /\ (Engaged' <=> Engaged)
      BY <3>1 DEF KillswitchFollows
    <3>3. killswitch' = killswitch
      BY <2>1, <2>4
    <3>. QED
      BY <2>2, <3>2, <3>3 DEF KillswitchFollows
  <2>. QED
    BY <2>2, <2>3, <2>4
<1>2. CASE ~MustNotify(raised)
  <2>1. /\ ~notifyScheduled /\ raised \subseteq notify
        /\ notify' = notify /\ notifyScheduled' = notifyScheduled /\ killswitch' = killswitch
    BY <1>2 DEF NotifyChanges, MustNotify, notifyVars
  <2>2. CASE notify = {}
    <3>1. raised = {}
      BY <2>1, <2>2
    <3>2. Engaged' <=> Engaged
      BY <3>1
    <3>. QED
      BY <2>1, <2>2, <3>2 DEF KillswitchFollows, GarbageHarmless
  <2>3. CASE notify # {}
    <3>1. notify \subseteq StateFlags /\ ~shouldConnect /\ killswitch = Engaged
      BY <2>1, <2>3 DEF GarbageHarmless
    <3>2. "FIREWALL" \notin raised /\ "DATA" \notin raised
      BY <2>1, <3>1 DEF StateFlags
    <3>3. (Engaged' <=> Engaged) /\ ~shouldConnect'
      BY <3>1, <3>2
    <3>4. killswitch' = Engaged'
      <4>1. killswitch' = Engaged
        BY <2>1, <3>1
      <4>2. Engaged' <=> Engaged
        BY <3>3
      <4>. QED
        BY <4>1, <4>2
    <3>5. notify' \subseteq StateFlags
      BY <2>1, <3>1
    <3>. QED
      BY <3>3, <3>4, <3>5 DEF KillswitchFollows, GarbageHarmless
  <2>. QED
    BY <2>2, <2>3
<1>. QED
  BY <1>1, <1>2

\* Clients that are told later.
LEMMA NotedClients ==
    ASSUME ClientsUpToDate, NEW raised, Notify(raised),
           clients' \subseteq clients, \A c \in clients' : told'[c] = told[c],
           Shown'.connect # Shown.connect => "CONNECT" \in raised,
           Shown'.state # Shown.state => "STATE" \in raised,
           Shown'.needsReconnect # Shown.needsReconnect => "NEEDSRECONNECT" \in raised
    PROVE  ClientsUpToDate'
<1>. SUFFICES ASSUME NEW c \in clients'
              PROVE  /\ told'[c].connect # Shown'.connect => "CONNECT" \in notify'
                     /\ told'[c].state # Shown'.state => "STATE" \in notify'
                     /\ told'[c].needsReconnect # Shown'.needsReconnect
                          => "NEEDSRECONNECT" \in notify'
  BY DEF ClientsUpToDate
<1>1. c \in clients /\ told'[c] = told[c] /\ notify' = notify \cup raised
  BY DEF Notify
<1>. QED
  BY <1>1 DEF ClientsUpToDate

\* Clients that are told now.
LEMMA NotifiedClients ==
    ASSUME ClientsUpToDate, NEW raised, NotifyChanges(raised),
           clients \subseteq Clients, clients' = clients, DOMAIN told = Clients,
           Shown'.connect # Shown.connect => "CONNECT" \in raised,
           Shown'.state # Shown.state => "STATE" \in raised,
           Shown'.needsReconnect # Shown.needsReconnect => "NEEDSRECONNECT" \in raised
    PROVE  ClientsUpToDate' /\ DOMAIN told' = Clients
<1>. DEFINE flags == notify \cup raised
<1>1. CASE MustNotify(raised)
  <2>1. told' = [c \in Clients |-> IF c \in clients THEN Tell(told[c], flags) ELSE told[c]]
    BY <1>1 DEF NotifyChanges
  <2>2. ASSUME NEW c \in clients
        PROVE  /\ told'[c].connect = Shown'.connect
               /\ told'[c].state = Shown'.state
               /\ told'[c].needsReconnect = Shown'.needsReconnect
    <3>1. told'[c] = Tell(told[c], flags)
      BY <2>1
    <3>2. /\ told'[c].connect = IF "CONNECT" \in flags THEN Shown'.connect ELSE told[c].connect
          /\ told'[c].state = IF "STATE" \in flags THEN Shown'.state ELSE told[c].state
          /\ told'[c].needsReconnect = IF "NEEDSRECONNECT" \in flags THEN Shown'.needsReconnect
                                       ELSE told[c].needsReconnect
      BY <3>1 DEF Tell
    <3>. QED
      BY <3>2 DEF ClientsUpToDate
  <2>. QED
    BY <2>1, <2>2 DEF ClientsUpToDate
<1>2. CASE ~MustNotify(raised)
  <2>1. raised \subseteq notify /\ notify' = notify /\ told' = told
    BY <1>2 DEF NotifyChanges, MustNotify, notifyVars
  <2>. QED
    BY <2>1 DEF ClientsUpToDate
<1>. QED
  BY <1>1, <1>2

\* A NotifyChanges that is needed is queued, by whoever notes a change first.
LEMMA NotedQueued ==
    ASSUME NotifyChangesQueued, loop = "running", NEW raised, Notify(raised),
           Has(queue, "NotifyChanges") => Has(queue', "NotifyChanges"),
           Has(PostNotify(raised), "NotifyChanges") => Has(queue', "NotifyChanges")
    PROVE  NotifyChangesQueued'
<1>1. CASE notifyScheduled
  BY <1>1 DEF NotifyChangesQueued
<1>2. CASE ~notifyScheduled
  <2>1. Has(<<"NotifyChanges">>, "NotifyChanges")
    BY HasPosted
  <2>2. notifyScheduled' => PostNotify(raised) = <<"NotifyChanges">>
    BY <1>2 DEF Notify, PostNotify
  <2>. QED
    BY <2>1, <2>2 DEF NotifyChangesQueued
<1>. QED
  BY <1>1, <1>2

\* NotifyChanges clears _notify_scheduled, and queues itself for what it raises.
LEMMA NotifiedQueued ==
    ASSUME NEW raised, NotifyChanges(raised),
           Has(PostAgain(raised), "NotifyChanges") => Has(queue', "NotifyChanges")
    PROVE  NotifyChangesQueued'
<1>1. Has(<<"NotifyChanges">>, "NotifyChanges")
  BY HasPosted
<1>2. notifyScheduled' => PostAgain(raised) = <<"NotifyChanges">>
  BY DEF NotifyChanges, MustNotify, PostAgain, notifyVars
<1>. QED
  BY <1>1, <1>2 DEF NotifyChangesQueued

-----------------------------------------------------------------------------
(* Handlers.                                                               *)

\* The rest of the queue, once a handler has run.
LEMMA RunRequests ==
    ASSUME DaemonInv, NEW h, Ready(h), Grown(Tail(queue), queue')
    PROVE  /\ queue' \in Seq(Handlers)
           /\ clients' = clients /\ (shouldConnect' => clients # {}) => RequestsHaveClients'
           /\ h # "NotifyChanges" /\ Has(queue, "NotifyChanges") => Has(queue', "NotifyChanges")
           /\ h # "DoShutdown" /\ Has(queue, "DoShutdown") => Has(queue', "DoShutdown")
           /\ Has(queue', "Terminate") => Has(queue, "Terminate")
           /\ ~exiting' /\ Has(queue', "DoShutdown") => Has(queue, "DoShutdown")
<1>1. queue \in Seq(Handlers) /\ queue # <<>> /\ Head(queue) = h /\ RequestsHaveClients
  BY DEF DaemonInv, Ready
<1>2. /\ "NotifyChanges" \in Tracked /\ "DoShutdown" \in Tracked
      /\ "Terminate" \in Tracked \ Posted /\ "Connect" \in Tracked \ Posted
      /\ ~exiting' => "DoShutdown" \in Tracked \ Posted
  BY DEF Tracked, Posted
<1>3. ASSUME clients' = clients, shouldConnect' => clients # {} PROVE RequestsHaveClients'
  <2>1. /\ Has(queue', "Connect") => clients' # {}
        /\ shouldConnect' => clients' # {}
    BY <1>1, <1>2, <1>3, RunQueue DEF RequestsHaveClients
  <2>2. LateConnect' => Cardinality(clients') > 1
    BY <1>1, <1>3, RunQueue DEF RequestsHaveClients
  <2>3. \A i, j \in DOMAIN queue' : queue'[i] = "Close" /\ queue'[j] = "Close" => i = j
    BY <1>1, RunQueue DEF RequestsHaveClients
  <2>. QED
    BY <2>1, <2>2, <2>3 DEF RequestsHaveClients
<1>4. queue' \in Seq(Handlers)
  BY <1>1, RunQueue
<1>5. /\ h # "NotifyChanges" /\ Has(queue, "NotifyChanges") => Has(queue', "NotifyChanges")
      /\ h # "DoShutdown" /\ Has(queue, "DoShutdown") => Has(queue', "DoShutdown")
      /\ Has(queue', "Terminate") => Has(queue, "Terminate")
      /\ ~exiting' /\ Has(queue', "DoShutdown") => Has(queue, "DoShutdown")
  BY <1>1, <1>2, RunQueue
<1>. QED
  BY <1>3, <1>4, <1>5

LEMMA TailOfQueue ==
    ASSUME DaemonInv, NEW h, Ready(h)
    PROVE  Tail(queue) \in Seq(Handlers) /\ loop = "running"
BY HeadTailProperties DEF DaemonInv, Ready

LEMMA ShownFields ==
    /\ Shown.connect = shouldConnect /\ Shown'.connect = shouldConnect'
    /\ Shown.state = IF exiting THEN "EXITING" ELSE state
    /\ Shown'.state = IF exiting' THEN "EXITING" ELSE state'
    /\ Shown.needsReconnect = needsReconnect /\ Shown'.needsReconnect = needsReconnect'
BY DEF Shown

\* What a handler of the Connection and its listener do.
LEMMA ListenInv ==
    ASSUME DaemonInv, NEW h, Ready(h), h \notin {"NotifyChanges", "DoShutdown"},
           NEW extra, Handled(Tail(queue), ListenerPosts(extra)), Listen(extra),
           needsReconnect' \in BOOLEAN,
           needsReconnect' # needsReconnect => "NEEDSRECONNECT" \in extra
    PROVE  DaemonInv'
<1>. DEFINE raised == RaisedByConnection(shouldConnect) \cup extra
<1>1. /\ Notify(raised)
      /\ shouldConnect' = (shouldConnect /\ ~GivesUp)
      /\ exiting' = exiting /\ clients' = clients /\ told' = told
      /\ firewall' = firewall /\ killswitch' = killswitch
  BY DEF Listen, clientVars
<1>2. /\ queue' \in Seq(Handlers)
      /\ RequestsHaveClients'
      /\ Has(queue, "NotifyChanges") => Has(queue', "NotifyChanges")
      /\ Has(queue, "DoShutdown") => Has(queue', "DoShutdown")
      /\ Has(queue', "Terminate") => Has(queue, "Terminate")
      /\ ~exiting' /\ Has(queue', "DoShutdown") => Has(queue, "DoShutdown")
  <2>1. Grown(Tail(queue), queue')
    BY DEF Handled
  <2>2. shouldConnect' => clients # {}
    BY <1>1 DEF DaemonInv, RequestsHaveClients
  <2>. QED
    BY <2>1, <2>2, <1>1, RunRequests
<1>3. PostNotify(raised) \in Seq(Posted) /\ PostShutdown \in Seq(Posted)
  BY <1>1, PostedSequences, PostedWhileExiting
<1>4. \A x : Has(PostNotify(raised), x) \/ Has(PostShutdown, x) => Has(queue', x)
  <2>1. ListenerPosts(extra) = PostNotify(raised) \o PostShutdown
    BY DEF ListenerPosts
  <2>2. \A x : Has(PostNotify(raised), x) \/ Has(PostShutdown, x) => Has(ListenerPosts(extra), x)
    BY <2>1, <1>3, HasConcat
  <2>. QED
    BY <2>2 DEF Handled
<1>5. loop = "running" /\ loop' # "stopped"
  BY DEF Ready, Handled
<1>6. GivesUp /\ shouldConnect => "CONNECT" \in raised
  BY DEF GivesUp, RaisedByConnection, Raised
<1>7. KillswitchFollows' /\ GarbageHarmless'
  <2>1. ~(Engaged' <=> Engaged) => GivesUp /\ shouldConnect
    BY <1>1 DEF Engaged
  <2>. QED
    BY <2>1, <1>1, <1>6, NotedKillswitch DEF DaemonInv
<1>8. NotifyChangesQueued'
  BY <1>1, <1>2, <1>4, <1>5, NotedQueued DEF DaemonInv
<1>9. ClientsUpToDate'
  <2>1. Shown'.connect # Shown.connect => "CONNECT" \in raised
    BY <1>1, <1>6, ShownFields DEF DaemonInv
  <2>2. Shown'.state # Shown.state => "STATE" \in raised
    BY <1>1, ShownFields DEF RaisedByConnection
  <2>3. Shown'.needsReconnect # Shown.needsReconnect => "NEEDSRECONNECT" \in raised
    BY ShownFields
  <2>. QED
    BY <2>1, <2>2, <2>3, <1>1, NotedClients DEF DaemonInv
<1>10. OnMeansTryingUntilExit'
  <2>1. ASSUME shouldConnect', ~exiting' PROVE state' \notin {"DISCONNECTED", "DISCONNECTING"}
    <3>1. shouldConnect /\ ~GivesUp /\ ~exiting
      BY <2>1, <1>1
    <3>2. state \notin {"DISCONNECTED", "DISCONNECTING"}
      BY <3>1 DEF DaemonInv, OnMeansTryingUntilExit
    <3>. QED
      BY <3>1, <3>2 DEF GivesUp, Handled
  <2>. QED
    BY <2>1, <1>1, <1>2 DEF DaemonInv, OnMeansTryingUntilExit
<1>11. ShutdownPending'
  <2>. SUFFICES ASSUME exiting'
                PROVE  Has(queue', "DoShutdown") \/ state' = "DISCONNECTING" \/ clients' # {}
    BY DEF ShutdownPending
  <2>1. Has(queue, "DoShutdown") \/ state = "DISCONNECTING" \/ clients # {}
    BY <1>1, <1>5 DEF DaemonInv, ShutdownPending
  <2>2. CASE state = "DISCONNECTING" /\ state' # "DISCONNECTING"
    <3>1. PostShutdown = <<"DoShutdown">>
      BY <2>2, <1>1 DEF PostShutdown, Handled
    <3>2. Has(<<"DoShutdown">>, "DoShutdown")
      BY HasPosted
    <3>. QED
      BY <3>1, <3>2, <1>4
  <2>. QED
    BY <2>1, <2>2, <1>1, <1>2
<1>12. shouldConnect' \in BOOLEAN
  BY <1>1
<1>. QED
  BY <1>1, <1>2, <1>5, <1>7, <1>8, <1>9, <1>10, <1>11, <1>12 DEF DaemonInv, KillswitchOffAtExit

\* Handlers that neither the listener nor a client hears of.
LEMMA QuietInv ==
    ASSUME DaemonInv, NEW h, Ready(h), h \notin {"NotifyChanges", "DoShutdown"},
           Grown(Tail(queue), queue'), loop' # "stopped", state' = state,
           needsReconnect' = needsReconnect, UNCHANGED ownVars
    PROVE  DaemonInv'
<1>1. /\ queue' \in Seq(Handlers)
      /\ clients' = clients /\ (shouldConnect' => clients # {}) => RequestsHaveClients'
      /\ Has(queue, "NotifyChanges") => Has(queue', "NotifyChanges")
      /\ Has(queue, "DoShutdown") => Has(queue', "DoShutdown")
      /\ Has(queue', "Terminate") => Has(queue, "Terminate")
      /\ ~exiting' /\ Has(queue', "DoShutdown") => Has(queue, "DoShutdown")
  BY RunRequests
<1>2. /\ exiting' = exiting /\ clients' = clients /\ told' = told
      /\ shouldConnect' = shouldConnect /\ firewall' = firewall
      /\ notify' = notify /\ notifyScheduled' = notifyScheduled /\ killswitch' = killswitch
  BY DEF ownVars, clientVars, notifyVars
<1>3. loop = "running"
  BY DEF Ready
<1>4. RequestsHaveClients' /\ OnMeansTryingUntilExit'
  BY <1>1, <1>2 DEF DaemonInv, RequestsHaveClients, OnMeansTryingUntilExit
<1>5. NotifyChangesQueued' /\ ShutdownPending' /\ KillswitchOffAtExit'
  BY <1>1, <1>2, <1>3
     DEF DaemonInv, NotifyChangesQueued, ShutdownPending, KillswitchOffAtExit
<1>6. GarbageHarmless' /\ KillswitchFollows'
  BY <1>2 DEF DaemonInv, GarbageHarmless, KillswitchFollows, Engaged
<1>7. ClientsUpToDate'
  BY <1>2 DEF DaemonInv, ClientsUpToDate, Shown
<1>. QED
  BY <1>1, <1>2, <1>4, <1>5, <1>6, <1>7 DEF DaemonInv

\* The handlers of module Connection.
LEMMA ConnectionHandlersInv ==
    ASSUME DaemonInv, DDoConnect \/ DSlowTimeout \/ DExited \/ DLine \/ DQuiet
    PROVE  DaemonInv'
<1>0. DDoConnect \/ DSlowTimeout \/ DExited \/ DLine => \A extra : ListenerPosts(extra) \in Seq(Posted)
  <2>1. DDoConnect \/ DSlowTimeout \/ DExited \/ DLine => exiting' = exiting
    BY DEF DDoConnect, DSlowTimeout, DExited, DLine, Listen
  <2>. QED
    BY <2>1, PostedWhileExiting
<1>1. CASE DDoConnect
  <2>1. Ready("DoConnect")
    BY <1>1 DEF DDoConnect
  <2>2. PICK launched \in BOOLEAN :
            DoConnect(launched, Tail(queue), ListenerPosts(RaisedByAttempt))
    BY <1>1 DEF DDoConnect
  <2>3. Handled(Tail(queue), ListenerPosts(RaisedByAttempt))
    BY <2>1, <2>2, <1>1, TailOfQueue, <1>0, DoConnectHandled
  <2>4. /\ needsReconnect' \in BOOLEAN
        /\ needsReconnect' # needsReconnect => "NEEDSRECONNECT" \in RaisedByAttempt
    <3>1. needsReconnect' = needsReconnect \/ needsReconnect' = FALSE
      BY <2>2 DEF DoConnect, LaunchProcess, OnConnectionAttempt
    <3>. QED
      BY <3>1 DEF DaemonInv, RaisedByAttempt, Raised
  <2>. QED
    BY <1>1, <2>1, <2>3, <2>4, ListenInv DEF DDoConnect
<1>2. CASE DSlowTimeout
  <2>1. Ready("SlowTimeout") /\ Listen({}) /\ needsReconnect' = needsReconnect
    BY <1>2 DEF DSlowTimeout, daemonVars
  <2>2. Handled(Tail(queue), ListenerPosts({}))
    BY <1>2, <2>1, TailOfQueue, <1>0, SlowTimeoutHandled DEF DSlowTimeout
  <2>. QED
    BY <2>1, <2>2, ListenInv DEF DaemonInv
<1>3. CASE DExited
  <2>1. Ready("Exited") /\ Listen({}) /\ needsReconnect' = needsReconnect
    BY <1>3 DEF DExited, daemonVars
  <2>2. Handled(Tail(queue), ListenerPosts({}))
    BY <1>3, <2>1, TailOfQueue, <1>0, ExitedHandled DEF DExited
  <2>. QED
    BY <2>1, <2>2, ListenInv DEF DaemonInv
<1>4. CASE DLine
  <2>1. PICK line \in Lines :
            Ready(line) /\ OnOpenVPNManagement(line, Tail(queue), ListenerPosts({}))
    BY <1>4 DEF DLine
  <2>2. Listen({}) /\ needsReconnect' = needsReconnect
    BY <1>4 DEF DLine, daemonVars
  <2>3. Handled(Tail(queue), ListenerPosts({}))
    BY <2>1, <1>4, TailOfQueue, <1>0, LineHandled
  <2>4. line \notin {"NotifyChanges", "DoShutdown"}
    BY <2>1 DEF Lines
  <2>. QED
    BY <2>1, <2>2, <2>3, <2>4, ListenInv DEF DaemonInv
<1>5. CASE DQuiet
  <2>1. CASE RunAccept
    <3>1. Handled(Tail(queue), <<>>) /\ Ready("Accept")
      BY <2>1, TailOfQueue, AcceptHandled DEF RunAccept
    <3>2. state' = state /\ needsReconnect' = needsReconnect
      BY <2>1 DEF RunAccept, OnManagementAccepted, daemonVars
    <3>. QED
      BY <3>1, <3>2, <1>5, QuietInv DEF DQuiet, Handled
  <2>2. CASE RunStaleError
    <3>1. Handled(Tail(queue), <<>>) /\ Ready("StaleError")
      BY <2>2, TailOfQueue, StaleErrorHandled DEF RunStaleError
    <3>2. state' = state /\ needsReconnect' = needsReconnect
      BY <2>2 DEF RunStaleError, OnStaleError, daemonVars
    <3>. QED
      BY <3>1, <3>2, <1>5, QuietInv DEF DQuiet, Handled
  <2>3. CASE RunDiscarded
    <3>1. Ready("Discarded") /\ loop = "running" /\ Grown(Tail(queue), queue')
      BY <2>3, TailOfQueue, GrownSelf DEF RunDiscarded
    <3>2. state' = state /\ needsReconnect' = needsReconnect /\ loop' = loop
      BY <2>3 DEF RunDiscarded, connVars, daemonVars
    <3>. QED
      BY <3>1, <3>2, <1>5, QuietInv DEF DQuiet
  <2>. QED
    BY <1>5, <2>1, <2>2, <2>3 DEF DQuiet
<1>. QED
  BY <1>1, <1>2, <1>3, <1>4, <1>5

LEMMA DRefusedInv == ASSUME DaemonInv, DRefused PROVE DaemonInv'
<1>1. PICK h \in {"Connect", "Disconnect"} : Ready(h)
  BY DEF DRefused
<1>2. Grown(Tail(queue), queue') /\ loop = "running"
  BY <1>1, TailOfQueue, GrownSelf DEF DRefused
<1>. QED
  BY <1>1, <1>2, QuietInv DEF DRefused, connVars, daemonVars

\* What is left to show for a handler that notes its changes.
LEMMA NotedInv ==
    ASSUME DaemonInv, NEW h, Ready(h), h \notin {"NotifyChanges", "DoShutdown"},
           Grown(Tail(queue), queue'), NEW raised, Notify(raised),
           Has(PostNotify(raised), "NotifyChanges") => Has(queue', "NotifyChanges"),
           UNCHANGED <<loop, state, exiting, clients, told, killswitch, shouldConnect>>,
           needsReconnect' \in BOOLEAN,
           firewall' # firewall => "FIREWALL" \in raised,
           needsReconnect' # needsReconnect => "NEEDSRECONNECT" \in raised
    PROVE  DaemonInv'
<1>1. /\ queue' \in Seq(Handlers)
      /\ RequestsHaveClients'
      /\ Has(queue, "NotifyChanges") => Has(queue', "NotifyChanges")
      /\ Has(queue, "DoShutdown") => Has(queue', "DoShutdown")
      /\ Has(queue', "Terminate") => Has(queue, "Terminate")
      /\ ~exiting' /\ Has(queue', "DoShutdown") => Has(queue, "DoShutdown")
  BY RunRequests DEF DaemonInv, RequestsHaveClients
<1>2. KillswitchFollows' /\ GarbageHarmless'
  <2>1. ~(Engaged' <=> Engaged) => firewall' # firewall
    BY DEF Engaged
  <2>. QED
    BY <2>1, NotedKillswitch DEF DaemonInv
<1>3. NotifyChangesQueued'
  BY <1>1, NotedQueued DEF DaemonInv, Ready
<1>4. ClientsUpToDate'
  BY ShownFields, NotedClients DEF DaemonInv
<1>5. OnMeansTryingUntilExit' /\ ShutdownPending'
  BY <1>1 DEF DaemonInv, OnMeansTryingUntilExit, ShutdownPending
<1>6. KillswitchOffAtExit'
  BY DEF DaemonInv, KillswitchOffAtExit, Ready
<1>. QED
  BY <1>1, <1>2, <1>3, <1>4, <1>5, <1>6 DEF DaemonInv

\* What is left to show for a handler that ends with NotifyChanges.
LEMMA NotifiedInv ==
    ASSUME DaemonInv, NEW h, Ready(h), h # "DoShutdown", Grown(Tail(queue), queue'),
           NEW raised, NotifyChanges(raised),
           Has(PostAgain(raised), "NotifyChanges") => Has(queue', "NotifyChanges"),
           loop' # "stopped", exiting' = exiting, clients' = clients,
           shouldConnect' \in BOOLEAN, needsReconnect' \in BOOLEAN,
           exiting => state' = state,
           shouldConnect' => clients # {},
           shouldConnect' /\ ~exiting => state' \notin {"DISCONNECTED", "DISCONNECTING"},
           shouldConnect' # shouldConnect => "CONNECT" \in raised,
           shouldConnect' => shouldConnect \/ "DATA" \in raised,
           firewall' # firewall => "FIREWALL" \in raised,
           state' # state => "STATE" \in raised,
           needsReconnect' # needsReconnect => "NEEDSRECONNECT" \in raised
    PROVE  DaemonInv'
<1>1. /\ queue' \in Seq(Handlers)
      /\ RequestsHaveClients'
      /\ Has(queue, "DoShutdown") => Has(queue', "DoShutdown")
      /\ Has(queue', "Terminate") => Has(queue, "Terminate")
      /\ ~exiting' /\ Has(queue', "DoShutdown") => Has(queue, "DoShutdown")
  BY RunRequests
<1>2. KillswitchFollows' /\ GarbageHarmless'
  <2>1. ~(Engaged' <=> Engaged) => shouldConnect' # shouldConnect \/ firewall' # firewall
    BY DEF Engaged
  <2>2. ~(Engaged' <=> Engaged) => shouldConnect \/ shouldConnect' \/ firewall' # firewall
    BY DEF Engaged, DaemonInv
  <2>. QED
    BY <2>1, <2>2, NotifiedKillswitch DEF DaemonInv
<1>3. NotifyChangesQueued'
  BY NotifiedQueued
<1>4. ClientsUpToDate' /\ DOMAIN told' = Clients
  BY ShownFields, NotifiedClients DEF DaemonInv
<1>5. OnMeansTryingUntilExit' /\ ShutdownPending'
  BY <1>1 DEF DaemonInv, OnMeansTryingUntilExit, ShutdownPending, Ready
<1>. QED
  BY <1>1, <1>2, <1>3, <1>4, <1>5 DEF DaemonInv, KillswitchOffAtExit

\* RPC_connect
LEMMA DConnectInv == ASSUME DaemonInv, DConnect PROVE DaemonInv'
<1>. DEFINE raised == {"DATA"} \cup Raised(~shouldConnect, "CONNECT")
                      \cup Raised(state' # state, "STATE")
                      \cup Raised(needsReconnect, "NEEDSRECONNECT")
<1>1. /\ Ready("Connect") /\ ~exiting /\ shouldConnect' = TRUE /\ needsReconnect' = FALSE
      /\ exiting' = exiting /\ clients' = clients /\ firewall' = firewall
      /\ Connect(needsReconnect, Tail(queue) \o PostNotify({"DATA"}), <<>>)
      /\ NotifyChanges(raised)
  BY DEF DConnect
<1>2. Grown(Tail(queue), Tail(queue) \o PostNotify({"DATA"}))
  BY <1>1, TailOfQueue, GrownSelf, GrownPosts, PostedSequences
<1>3. /\ Grown(Tail(queue) \o PostNotify({"DATA"}), queue')
      /\ loop' = loop /\ state' \notin {"DISCONNECTED", "DISCONNECTING"}
  <2>1. Tail(queue) \o PostNotify({"DATA"}) \in Seq(Handlers)
    BY <1>2 DEF Grown
  <2>. QED
    BY <2>1, <1>1, ConnectHandled, PostedSequences
<1>4. Grown(Tail(queue), queue')
  BY <1>2, <1>3, GrownTwice
<1>5. clients # {}
  <2>1. Has(queue, "Connect")
    BY <1>1, <1>4, RunQueue DEF Ready, DaemonInv
  <2>. QED
    BY <2>1 DEF DaemonInv, RequestsHaveClients
<1>6. PostAgain(raised) = <<>>
  BY <1>3 DEF PostAgain, RaisedByNotify, PingServersRaises
<1>7. ~Has(PostAgain(raised), "NotifyChanges")
  BY <1>6, HasPosted
<1>8. loop' # "stopped"
  BY <1>1, <1>3 DEF Ready
<1>9. /\ shouldConnect' # shouldConnect => "CONNECT" \in raised
      /\ state' # state => "STATE" \in raised
      /\ needsReconnect' # needsReconnect => "NEEDSRECONNECT" \in raised
      /\ "DATA" \in raised
  BY <1>1 DEF Raised, DaemonInv
<1>. HIDE DEF raised
<1>. QED
  BY <1>1, <1>3, <1>4, <1>5, <1>7, <1>8, <1>9, NotifiedInv

\* RPC_disconnect
LEMMA DDisconnectInv == ASSUME DaemonInv, DDisconnect PROVE DaemonInv'
<1>. DEFINE first == Raised(shouldConnect, "CONNECT")
            raised == first \cup RaisedByConnection(FALSE)
            later == IF PostNotify(first) = <<>> THEN PostNotify(raised) ELSE <<>>
<1>1. /\ Ready("Disconnect") /\ ~exiting /\ shouldConnect' = FALSE
      /\ needsReconnect' = needsReconnect
      /\ exiting' = exiting /\ clients' = clients /\ firewall' = firewall
      /\ Disconnect(Tail(queue) \o PostNotify(first), later \o PostAgain(raised))
      /\ NotifyChanges(raised)
  BY DEF DDisconnect, SwitchOff, daemonVars
<1>2. Grown(Tail(queue), Tail(queue) \o PostNotify(first))
  BY <1>1, TailOfQueue, GrownSelf, GrownPosts, PostedSequences
<1>3. /\ later \in Seq(Posted) /\ PostAgain(raised) \in Seq(Posted)
      /\ later \o PostAgain(raised) \in Seq(Posted)
      /\ \A x : Has(PostAgain(raised), x) => Has(later \o PostAgain(raised), x)
  <2>1. later \in Seq(Posted) /\ PostAgain(raised) \in Seq(Posted)
    BY PostedSequences
  <2>2. \A a, b \in Seq(Posted) : a \o b \in Seq(Posted) /\ \A x : Has(b, x) => Has(a \o b, x)
    BY HasConcat
  <2>. HIDE DEF later
  <2>. QED
    BY <2>1, <2>2
<1>4. /\ Grown(Tail(queue) \o PostNotify(first), queue')
      /\ \A x : Has(later \o PostAgain(raised), x) => Has(queue', x)
      /\ loop' = loop
  <2>1. Tail(queue) \o PostNotify(first) \in Seq(Handlers)
    BY <1>2 DEF Grown
  <2>. QED
    BY <2>1, <1>1, <1>3, DisconnectHandled
<1>5. Grown(Tail(queue), queue')
  BY <1>2, <1>4, GrownTwice
<1>6. loop' # "stopped"
  BY <1>1, <1>4 DEF Ready
<1>7. /\ shouldConnect' # shouldConnect => "CONNECT" \in raised
      /\ state' # state => "STATE" \in raised
  BY <1>1 DEF Raised, RaisedByConnection, DaemonInv
<1>8. shouldConnect' \in BOOLEAN /\ ~shouldConnect' /\ needsReconnect' \in BOOLEAN
  BY <1>1 DEF DaemonInv
<1>9. Has(PostAgain(raised), "NotifyChanges") => Has(queue', "NotifyChanges")
  BY <1>3, <1>4
<1>. HIDE DEF raised
<1>. QED
  BY <1>1, <1>5, <1>6, <1>7, <1>8, <1>9, NotifiedInv

\* RPC_applySettings and its like.
LEMMA DApplySettingsInv == ASSUME DaemonInv, DApplySettings PROVE DaemonInv'
<1>. SUFFICES ASSUME NEW keys \in SUBSET DataFlags, NEW asks \in BOOLEAN,
                     AppliesSettings(keys, asks)
              PROVE  DaemonInv'
  BY DEF DApplySettings
<1>. DEFINE queries == asks /\ ~needsReconnect /\ ~exiting
            throws  == queries /\ NeedsReconnectThrows(settings')
            finds   == queries /\ ~throws /\ NeedsReconnect(settings')
            raised  == keys \cup Raised(finds, "NEEDSRECONNECT")
            again   == IF throws THEN <<>> ELSE PostAgain(raised)
<1>1. /\ Ready("ApplySettings")
      /\ firewall' # firewall => "FIREWALL" \in keys
      /\ needsReconnect' = (needsReconnect \/ finds)
      /\ UNCHANGED <<state, loop, exiting, clients, shouldConnect>>
      /\ IF throws
         THEN Notify(raised) /\ UNCHANGED <<told, killswitch>>
         ELSE NotifyChanges(raised)
      /\ queue' = (Tail(queue) \o PostNotify(raised))
                  \o (IF throws THEN <<>> ELSE PostAgain(raised))
  BY DEF AppliesSettings
<1>2. /\ Ready("ApplySettings") /\ loop = "running"
      /\ firewall' # firewall => "FIREWALL" \in raised
      /\ needsReconnect' \in BOOLEAN
      /\ needsReconnect' # needsReconnect => "NEEDSRECONNECT" \in raised
      /\ state' = state /\ loop' = loop /\ exiting' = exiting /\ clients' = clients
      /\ shouldConnect' = shouldConnect
  <2>1. needsReconnect \in BOOLEAN
    BY DEF DaemonInv
  <2>. QED
    BY <1>1, <2>1 DEF Raised, Ready
<1>3. queue' = (Tail(queue) \o PostNotify(raised)) \o again
  BY <1>1
<1>4. /\ Grown(Tail(queue), queue')
      /\ \A x : Has(PostNotify(raised), x) \/ Has(again, x) => Has(queue', x)
  <2>1. again \in Seq(Posted) /\ PostNotify(raised) \in Seq(Posted)
    BY PostedSequences
  <2>2. /\ Grown(Tail(queue), Tail(queue) \o PostNotify(raised))
        /\ \A x : Has(PostNotify(raised), x) => Has(Tail(queue) \o PostNotify(raised), x)
    BY <1>2, <2>1, TailOfQueue, GrownSelf, GrownPosts
  <2>. HIDE DEF again, raised
  <2>. QED
    BY <2>1, <2>2, <1>3, GrownPosts
<1>5. CASE throws
  <2>1. Notify(raised) /\ UNCHANGED <<loop, state, exiting, clients, told, killswitch, shouldConnect>>
    BY <1>1, <1>5
  <2>. HIDE DEF raised, again
  <2>. QED
    BY <2>1, <1>2, <1>4, NotedInv
<1>6. CASE ~throws
  <2>1. NotifyChanges(raised) /\ again = PostAgain(raised)
    BY <1>1, <1>6
  <2>2. /\ Has(PostAgain(raised), "NotifyChanges") => Has(queue', "NotifyChanges")
        /\ shouldConnect \in BOOLEAN
        /\ shouldConnect => clients # {}
        /\ shouldConnect /\ ~exiting => state \notin {"DISCONNECTED", "DISCONNECTING"}
    BY <2>1, <1>4 DEF DaemonInv, RequestsHaveClients, OnMeansTryingUntilExit
  <2>. HIDE DEF raised, again
  <2>. QED
    BY <2>1, <2>2, <1>2, <1>4, NotifiedInv
<1>. QED
  BY <1>5, <1>6

\* NotifyChanges, run from the queue.
LEMMA DNotifyChangesInv == ASSUME DaemonInv, DNotifyChanges PROVE DaemonInv'
<1>1. /\ Ready("NotifyChanges") /\ NotifyChanges({})
      /\ queue' = Tail(queue) \o PostAgain({})
      /\ loop' = loop /\ state' = state /\ exiting' = exiting /\ clients' = clients
      /\ shouldConnect' = shouldConnect /\ firewall' = firewall /\ needsReconnect' = needsReconnect
  BY DEF DNotifyChanges, connVars, daemonVars
<1>2. /\ Grown(Tail(queue), queue')
      /\ Has(PostAgain({}), "NotifyChanges") => Has(queue', "NotifyChanges")
  BY <1>1, TailOfQueue, GrownSelf, GrownPosts, PostedSequences
<1>3. /\ shouldConnect \in BOOLEAN /\ needsReconnect \in BOOLEAN
      /\ shouldConnect => clients # {}
      /\ shouldConnect /\ ~exiting => state \notin {"DISCONNECTED", "DISCONNECTING"}
      /\ loop' # "stopped"
  BY <1>1 DEF DaemonInv, RequestsHaveClients, OnMeansTryingUntilExit, Ready
<1>. QED
  BY <1>1, <1>2, <1>3, NotifiedInv

\* OnFirstClientConnected and OnClientConnected
LEMMA DOpenInv == ASSUME DaemonInv, NEW c \in Clients \ clients, DOpen(c) PROVE DaemonInv'
<1>. DEFINE raised == IF clients = {} THEN PingServersRaises ELSE {}
<1>1. /\ Ready("Open")
      /\ clients' = clients \cup {c} /\ told' = [told EXCEPT ![c] = Shown]
      /\ killswitch' = IF clients = {} THEN KillswitchForClients ELSE killswitch
      /\ Notify(raised)
      /\ queue' = Tail(queue) \o PostNotify(raised)
      /\ loop' = loop /\ state' = state /\ exiting' = exiting
      /\ shouldConnect' = shouldConnect /\ firewall' = firewall /\ needsReconnect' = needsReconnect
  BY DEF DOpen, connVars, daemonVars
<1>2. /\ Grown(Tail(queue), queue')
      /\ Has(PostNotify(raised), "NotifyChanges") => Has(queue', "NotifyChanges")
  <2>. HIDE DEF raised
  <2>. QED
    BY <1>1, TailOfQueue, GrownSelf, GrownPosts, PostedSequences
<1>3. /\ queue' \in Seq(Handlers)
      /\ Has(queue, "NotifyChanges") => Has(queue', "NotifyChanges")
      /\ Has(queue', "Terminate") => Has(queue, "Terminate")
      /\ ~exiting' /\ Has(queue', "DoShutdown") => Has(queue, "DoShutdown")
  BY <1>1, <1>2, RunRequests
<1>4. clients' \subseteq Clients /\ IsFiniteSet(clients') /\ DOMAIN told' = Clients
  BY <1>1, FS_AddElement DEF DaemonInv
<1>5. RequestsHaveClients'
  <2>1. LateConnect' => Cardinality(clients') > 1
    <3>1. LateConnect' => Cardinality(clients) > 1
      BY <1>1, <1>2, RunQueue DEF DaemonInv, RequestsHaveClients, Ready
    <3>2. Cardinality(clients') = Cardinality(clients) + 1 /\ Cardinality(clients) \in Nat
      BY <1>1, FS_AddElement, FS_CardinalityType DEF DaemonInv
    <3>. QED
      BY <3>1, <3>2
  <2>2. \A i, j \in DOMAIN queue' : queue'[i] = "Close" /\ queue'[j] = "Close" => i = j
    BY <1>1, <1>2, RunQueue DEF DaemonInv, RequestsHaveClients, Ready
  <2>. QED
    BY <2>1, <2>2, <1>1 DEF RequestsHaveClients
<1>6. KillswitchFollows' /\ GarbageHarmless'
  <2>1. CASE clients # {}
    <3>1. Engaged' <=> Engaged
      BY <2>1, <1>1 DEF Engaged
    <3>2. killswitch' = killswitch
      BY <2>1, <1>1
    <3>. QED
      BY <3>1, <3>2, <1>1, NotedKillswitch DEF DaemonInv
  <2>2. CASE clients = {}
    <3>1. ~shouldConnect /\ ~Engaged
      BY <2>2 DEF DaemonInv, RequestsHaveClients, Engaged
    <3>2. CASE firewall = "on"
      <4>1. killswitch' = Engaged'
        BY <3>2, <2>2, <1>1 DEF KillswitchForClients
      <4>2. notify' # {} /\ ~notifyScheduled' => notify' \subseteq StateFlags
        BY <1>1 DEF DaemonInv, GarbageHarmless, Notify, MustNotify
      <4>. QED
        BY <4>1, <4>2, <3>1, <1>1 DEF KillswitchFollows, GarbageHarmless
    <3>3. CASE firewall # "on"
      <4>1. ~Engaged'
        BY <3>1, <3>3, <1>1 DEF Engaged
      <4>2. killswitch' = killswitch
        BY <2>2, <3>3, <1>1 DEF KillswitchForClients
      <4>3. Engaged' <=> Engaged
        BY <4>1, <3>1
      <4>. QED
        BY <4>2, <4>3, <1>1, NotedKillswitch DEF DaemonInv
    <3>. QED
      BY <3>2, <3>3
  <2>. QED
    BY <2>1, <2>2
<1>7. NotifyChangesQueued'
  <2>. HIDE DEF raised
  <2>. QED
    BY <1>1, <1>2, <1>3, NotedQueued DEF DaemonInv, Ready
<1>8. ClientsUpToDate'
  <2>. SUFFICES ASSUME NEW d \in clients'
                PROVE  /\ told'[d].connect # Shown'.connect => "CONNECT" \in notify'
                       /\ told'[d].state # Shown'.state => "STATE" \in notify'
                       /\ told'[d].needsReconnect # Shown'.needsReconnect
                            => "NEEDSRECONNECT" \in notify'
    BY DEF ClientsUpToDate
  <2>1. Shown' = Shown
    BY <1>1 DEF Shown
  <2>2. CASE d = c
    <3>1. told'[d] = Shown
      BY <2>2, <1>1 DEF DaemonInv
    <3>. QED
      BY <3>1, <2>1
  <2>3. CASE d # c
    <3>1. d \in clients /\ told'[d] = told[d] /\ notify \subseteq notify'
      BY <2>3, <1>1 DEF DaemonInv, Notify
    <3>. QED
      BY <3>1, <2>1 DEF DaemonInv, ClientsUpToDate
  <2>. QED
    BY <2>2, <2>3
<1>9. OnMeansTryingUntilExit' /\ ShutdownPending' /\ KillswitchOffAtExit'
  BY <1>1, <1>3
     DEF DaemonInv, OnMeansTryingUntilExit, ShutdownPending, KillswitchOffAtExit, Ready
<1>. QED
  BY <1>1, <1>3, <1>4, <1>5, <1>6, <1>7, <1>8, <1>9 DEF DaemonInv

\* A client leaves, and others stay.
LEMMA DCloseInv == ASSUME DaemonInv, NEW c \in clients, DClose(c) PROVE DaemonInv'
<1>1. /\ Ready("Close") /\ clients \ {c} # {}
      /\ clients' = clients \ {c} /\ told' = [told EXCEPT ![c] = NoView]
      /\ queue' = Tail(queue)
      /\ loop' = loop /\ state' = state /\ exiting' = exiting
      /\ shouldConnect' = shouldConnect /\ firewall' = firewall /\ needsReconnect' = needsReconnect
      /\ notify' = notify /\ notifyScheduled' = notifyScheduled /\ killswitch' = killswitch
  BY DEF DClose, Leave, connVars, daemonVars, notifyVars
<1>2. Grown(Tail(queue), queue')
  BY <1>1, TailOfQueue, GrownSelf
<1>3. /\ queue' \in Seq(Handlers)
      /\ Has(queue, "NotifyChanges") => Has(queue', "NotifyChanges")
      /\ Has(queue', "Terminate") => Has(queue, "Terminate")
      /\ ~exiting' /\ Has(queue', "DoShutdown") => Has(queue, "DoShutdown")
  BY <1>1, <1>2, RunRequests
<1>4. clients' \subseteq Clients /\ IsFiniteSet(clients') /\ DOMAIN told' = Clients
  BY <1>1, FS_RemoveElement DEF DaemonInv
<1>5. RequestsHaveClients'
  <2>1. /\ \A i, j \in DOMAIN queue' : queue'[i] = "Close" /\ queue'[j] = "Close" => i = j
        /\ ~LateConnect'
    BY <1>1, <1>2, RunQueue DEF DaemonInv, RequestsHaveClients, Ready
  <2>. QED
    BY <2>1, <1>1 DEF RequestsHaveClients
<1>6. KillswitchFollows' /\ GarbageHarmless'
  <2>1. Engaged' <=> Engaged
    BY <1>1 DEF Engaged
  <2>2. killswitch = Engaged => killswitch' = Engaged'
    BY <2>1, <1>1
  <2>. QED
    BY <2>2, <1>1 DEF DaemonInv, KillswitchFollows, GarbageHarmless
<1>7. NotifyChangesQueued'
  BY <1>1, <1>3 DEF DaemonInv, NotifyChangesQueued
<1>8. ClientsUpToDate'
  <2>1. Shown' = Shown
    BY <1>1 DEF Shown
  <2>2. \A d \in clients' : d \in clients /\ told'[d] = told[d]
    BY <1>1 DEF DaemonInv
  <2>. QED
    BY <2>1, <2>2, <1>1 DEF DaemonInv, ClientsUpToDate
<1>9. OnMeansTryingUntilExit' /\ ShutdownPending' /\ KillswitchOffAtExit'
  BY <1>1, <1>3
     DEF DaemonInv, OnMeansTryingUntilExit, ShutdownPending, KillswitchOffAtExit, Ready
<1>. QED
  BY <1>1, <1>3, <1>4, <1>5, <1>6, <1>7, <1>8, <1>9 DEF DaemonInv

\* OnLastClientDisconnected: the connection goes down, and the killswitch with it.
LEMMA DCloseLastInv == ASSUME DaemonInv, NEW c \in clients, DCloseLast(c) PROVE DaemonInv'
<1>. DEFINE first == Raised(shouldConnect, "CONNECT")
            raised == first \cup RaisedByConnection(FALSE)
            later == IF PostNotify(first) = <<>> THEN PostNotify(raised) ELSE <<>>
            early == Tail(queue) \o PostNotify(first)
<1>1. /\ Ready("Close") /\ clients = {c}
      /\ clients' = clients \ {c} /\ told' = [told EXCEPT ![c] = NoView]
      /\ shouldConnect' = FALSE /\ exiting' = exiting /\ firewall' = firewall
      /\ needsReconnect' = needsReconnect
      /\ Notify(raised)
      /\ killswitch' = KillswitchForClients
      /\ exiting => /\ queue' = early \o <<"DoShutdown">>
                    /\ state' = state /\ loop' = loop
      /\ ~exiting => Disconnect(early, later)
  BY DEF DCloseLast, Leave, SwitchOff, connVars, daemonVars
<1>2. /\ Grown(Tail(queue), early) /\ early \in Seq(Handlers)
      /\ \A x : Has(PostNotify(first), x) => Has(early, x)
  <2>1. Tail(queue) \in Seq(Handlers) /\ PostNotify(first) \in Seq(Posted)
    BY <1>1, TailOfQueue, PostedSequences
  <2>2. Grown(Tail(queue), Tail(queue))
    BY <2>1, GrownSelf
  <2>3. Grown(Tail(queue), early) /\ \A x : Has(PostNotify(first), x) => Has(early, x)
    BY <2>1, <2>2, GrownPosts
  <2>. QED
    BY <2>3 DEF Grown
<1>3. /\ Grown(Tail(queue), queue')
      /\ Has(PostNotify(raised), "NotifyChanges") => Has(queue', "NotifyChanges")
      /\ exiting => Has(queue', "DoShutdown")
      /\ loop' = loop
  <2>1. CASE exiting
    <3>1. <<"DoShutdown">> \in Seq(Posted) /\ Has(<<"DoShutdown">>, "DoShutdown")
      BY <2>1, <1>1, PostedWhileExiting, HasPosted
    <3>2. raised = first
      BY <2>1 DEF RaisedByConnection
    <3>3. queue' = early \o <<"DoShutdown">> /\ loop' = loop
      BY <2>1, <1>1
    <3>. HIDE DEF early
    <3>4. /\ Grown(Tail(queue), queue') /\ Has(queue', "DoShutdown")
          /\ \A x : Has(early, x) => Has(queue', x)
      BY <3>1, <3>3, <1>2, GrownPosts
    <3>. HIDE DEF raised, first
    <3>. QED
      BY <3>2, <3>3, <3>4, <1>2
  <2>2. CASE ~exiting
    <3>1. later \in Seq(Posted)
      BY PostedSequences
    <3>2. /\ Grown(early, queue') /\ loop' = loop
          /\ \A x : Has(later, x) => Has(queue', x)
      <4>. HIDE DEF early, later
      <4>. QED
        BY <2>2, <3>1, <1>1, <1>2, DisconnectHandled
    <3>3. Grown(Tail(queue), queue')
      BY <3>2, <1>2, GrownTwice
    <3>4. CASE PostNotify(first) = <<>>
      BY <2>2, <3>2, <3>3, <3>4
    <3>5. CASE PostNotify(first) # <<>>
      <4>1. PostNotify(first) = <<"NotifyChanges">>
        BY <3>5 DEF PostNotify
      <4>2. Has(early, "NotifyChanges")
        BY <4>1, <1>2, HasPosted
      <4>3. Has(queue', "NotifyChanges")
        BY <4>2, <3>2, GrownKeeps DEF Tracked
      <4>. QED
        BY <2>2, <3>2, <3>3, <4>3
    <3>. QED
      BY <3>4, <3>5
  <2>. QED
    BY <2>1, <2>2
<1>. HIDE DEF early, later
<1>4. /\ queue' \in Seq(Handlers)
      /\ Has(queue, "NotifyChanges") => Has(queue', "NotifyChanges")
      /\ Has(queue', "Terminate") => Has(queue, "Terminate")
      /\ ~exiting' /\ Has(queue', "DoShutdown") => Has(queue, "DoShutdown")
  BY <1>1, <1>3, RunRequests
<1>5. clients' = {} /\ IsFiniteSet(clients') /\ DOMAIN told' = Clients
  BY <1>1, FS_EmptySet DEF DaemonInv
<1>6. RequestsHaveClients'
  <2>1. ~LateConnect
    <3>1. Cardinality(clients) = 1
      BY <1>1, FS_Singleton
    <3>. QED
      BY <3>1 DEF DaemonInv, RequestsHaveClients
  <2>2. /\ \A i, j \in DOMAIN queue' : queue'[i] = "Close" /\ queue'[j] = "Close" => i = j
        /\ ~LateConnect'
        /\ ~Has(queue', "Connect")
    BY <2>1, <1>1, <1>3, RunQueue DEF DaemonInv, RequestsHaveClients, Ready
  <2>. QED
    BY <2>2, <1>1 DEF RequestsHaveClients
<1>7. ~Engaged'
  BY <1>5 DEF Engaged
<1>8. KillswitchFollows' /\ GarbageHarmless'
  <2>1. CASE firewall = "on"
    <3>1. killswitch' = Engaged'
      BY <2>1, <1>1 DEF KillswitchForClients
    <3>2. notify' # {} /\ ~notifyScheduled' => notify' \subseteq StateFlags
      BY <1>1 DEF DaemonInv, GarbageHarmless, Notify, MustNotify
    <3>. QED
      BY <3>1, <3>2, <1>1 DEF KillswitchFollows, GarbageHarmless
  <2>2. CASE firewall # "on"
    <3>1. killswitch' = killswitch
      BY <2>2, <1>1 DEF KillswitchForClients
    <3>2. Engaged => shouldConnect
      BY <2>2 DEF Engaged
    <3>3. shouldConnect => "CONNECT" \in raised
      BY DEF Raised
    <3>4. ~(Engaged' <=> Engaged) => shouldConnect /\ "CONNECT" \in raised
      BY <3>2, <3>3, <1>7
    <3>. HIDE DEF raised
    <3>. QED
      BY <3>1, <3>4, <1>1, NotedKillswitch DEF DaemonInv
  <2>. QED
    BY <2>1, <2>2
<1>9. NotifyChangesQueued'
  <2>. HIDE DEF raised
  <2>. QED
    BY <1>1, <1>3, <1>4, NotedQueued DEF DaemonInv, Ready
<1>10. ClientsUpToDate'
  BY <1>5 DEF ClientsUpToDate
<1>11. OnMeansTryingUntilExit' /\ ShutdownPending' /\ KillswitchOffAtExit'
  BY <1>1, <1>3, <1>4
     DEF DaemonInv, OnMeansTryingUntilExit, ShutdownPending, KillswitchOffAtExit, Ready
<1>. QED
  BY <1>1, <1>4, <1>5, <1>6, <1>8, <1>9, <1>10, <1>11 DEF DaemonInv

\* RequestShutdown
LEMMA DTerminateInv == ASSUME DaemonInv, DTerminate PROVE DaemonInv'
<1>. DEFINE raised == Raised(~exiting, "STATE")
            noted == Tail(queue) \o PostNotify(raised)
<1>1. /\ Ready("Terminate") /\ exiting' = TRUE /\ Notify(raised)
      /\ queue' = noted \o <<"DoShutdown">>
      /\ clients' = clients /\ told' = told /\ killswitch' = killswitch
      /\ shouldConnect' = shouldConnect /\ firewall' = firewall /\ needsReconnect' = needsReconnect
      /\ loop' = loop /\ state' = state
  BY DEF DTerminate, clientVars, connVars, daemonVars
<1>2. Grown(Tail(queue), noted) /\ \A x : Has(PostNotify(raised), x) => Has(noted, x)
  <2>1. Tail(queue) \in Seq(Handlers) /\ PostNotify(raised) \in Seq(Posted)
    BY <1>1, TailOfQueue, PostedSequences
  <2>2. Grown(Tail(queue), Tail(queue))
    BY <2>1, GrownSelf
  <2>. QED
    BY <2>1, <2>2, GrownPosts
<1>. HIDE DEF noted, raised
<1>3. /\ Grown(Tail(queue), queue')
      /\ \A x : Has(PostNotify(raised), x) => Has(queue', x)
      /\ Has(queue', "DoShutdown")
  <2>1. <<"DoShutdown">> \in Seq(Posted) /\ Has(<<"DoShutdown">>, "DoShutdown")
    BY <1>1, PostedWhileExiting, HasPosted
  <2>2. /\ Grown(Tail(queue), noted \o <<"DoShutdown">>)
        /\ \A h : Has(noted, h) \/ Has(<<"DoShutdown">>, h) => Has(noted \o <<"DoShutdown">>, h)
    BY <2>1, <1>2, GrownPosts
  <2>. QED
    BY <2>1, <2>2, <1>1, <1>2
<1>4. /\ queue' \in Seq(Handlers)
      /\ RequestsHaveClients'
      /\ Has(queue, "NotifyChanges") => Has(queue', "NotifyChanges")
      /\ Has(queue', "Terminate") => Has(queue, "Terminate")
  BY <1>1, <1>3, RunRequests DEF DaemonInv, RequestsHaveClients
<1>5. KillswitchFollows' /\ GarbageHarmless'
  <2>1. Engaged' <=> Engaged
    BY <1>1 DEF Engaged
  <2>. QED
    BY <2>1, <1>1, NotedKillswitch DEF DaemonInv
<1>6. NotifyChangesQueued'
  BY <1>1, <1>3, <1>4, NotedQueued DEF DaemonInv, Ready
<1>7. ClientsUpToDate'
  <2>1. Shown'.state # Shown.state => "STATE" \in raised
    BY <1>1, ShownFields DEF raised, Raised
  <2>. QED
    BY <2>1, <1>1, ShownFields, NotedClients DEF DaemonInv
<1>8. OnMeansTryingUntilExit'
  <2>1. Has(queue, "Terminate")
    BY <1>1, <1>3, RunQueue DEF DaemonInv, Ready
  <2>. QED
    BY <2>1, <1>1 DEF DaemonInv, OnMeansTryingUntilExit
<1>9. ShutdownPending' /\ KillswitchOffAtExit'
  BY <1>1, <1>3 DEF ShutdownPending, KillswitchOffAtExit, Ready
<1>. QED
  BY <1>1, <1>4, <1>5, <1>6, <1>7, <1>8, <1>9 DEF DaemonInv

\* DoShutdown, step 1
LEMMA DShutdownConnectionInv == ASSUME DaemonInv, DShutdownConnection PROVE DaemonInv'
<1>. DEFINE raised == Raised(shouldConnect, "CONNECT")
            noted == Tail(queue) \o PostNotify(raised)
<1>1. /\ Ready("DoShutdown") /\ state # "DISCONNECTED" /\ shouldConnect' = FALSE
      /\ Disconnect(noted, PostShutdown) /\ Notify(raised)
      /\ exiting' = exiting /\ clients' = clients /\ told' = told /\ killswitch' = killswitch
      /\ firewall' = firewall /\ needsReconnect' = needsReconnect
  BY DEF DShutdownConnection, SwitchOff, clientVars, daemonVars
<1>2. Grown(Tail(queue), noted) /\ \A x : Has(PostNotify(raised), x) => Has(noted, x)
  <2>1. Tail(queue) \in Seq(Handlers) /\ PostNotify(raised) \in Seq(Posted)
    BY <1>1, TailOfQueue, PostedSequences
  <2>2. Grown(Tail(queue), Tail(queue))
    BY <2>1, GrownSelf
  <2>. QED
    BY <2>1, <2>2, GrownPosts
<1>. HIDE DEF noted, raised
<1>3. /\ Grown(noted, queue') /\ loop' = loop
      /\ \A x : Has(PostShutdown, x) => Has(queue', x)
      /\ state' \in {"DISCONNECTED", "DISCONNECTING"}
  <2>1. noted \in Seq(Handlers) /\ PostShutdown \in Seq(Posted)
    BY <1>1, <1>2, PostedWhileExiting DEF Grown
  <2>. QED
    BY <2>1, <1>1, DisconnectHandled
<1>4. Grown(Tail(queue), queue')
  BY <1>2, <1>3, GrownTwice
<1>5. Has(PostNotify(raised), "NotifyChanges") => Has(queue', "NotifyChanges")
  BY <1>2, <1>3, GrownKeeps DEF Tracked
<1>6. exiting /\ loop = "running"
  <2>1. Has(queue, "DoShutdown")
    BY <1>1, <1>4, RunQueue DEF DaemonInv, Ready
  <2>. QED
    BY <2>1, <1>1 DEF DaemonInv, OnMeansTryingUntilExit, Ready
<1>7. /\ queue' \in Seq(Handlers)
      /\ RequestsHaveClients'
      /\ Has(queue, "NotifyChanges") => Has(queue', "NotifyChanges")
      /\ Has(queue', "Terminate") => Has(queue, "Terminate")
  BY <1>1, <1>4, RunRequests
<1>8. KillswitchFollows' /\ GarbageHarmless'
  <2>1. ~(Engaged' <=> Engaged) => shouldConnect
    BY <1>1 DEF Engaged
  <2>2. shouldConnect => "CONNECT" \in raised
    BY DEF raised, Raised
  <2>. QED
    BY <2>1, <2>2, <1>1, NotedKillswitch DEF DaemonInv
<1>9. NotifyChangesQueued'
  BY <1>1, <1>5, <1>6, <1>7, NotedQueued DEF DaemonInv
<1>10. ClientsUpToDate'
  <2>1. shouldConnect' # shouldConnect => "CONNECT" \in raised
    BY <1>1 DEF raised, Raised, DaemonInv
  <2>. QED
    BY <2>1, <1>1, <1>6, ShownFields, NotedClients DEF DaemonInv
<1>11. OnMeansTryingUntilExit'
  BY <1>1, <1>6, <1>7 DEF DaemonInv, OnMeansTryingUntilExit
<1>12. ShutdownPending'
  <2>1. CASE state' = "DISCONNECTED"
    <3>1. PostShutdown = <<"DoShutdown">>
      BY <2>1, <1>1, <1>6 DEF PostShutdown
    <3>2. Has(queue', "DoShutdown")
      BY <3>1, <1>3, HasPosted
    <3>. QED
      BY <3>2 DEF ShutdownPending
  <2>2. CASE state' = "DISCONNECTING"
    BY <2>2 DEF ShutdownPending
  <2>. QED
    BY <2>1, <2>2, <1>3
<1>13. KillswitchOffAtExit'
  BY <1>3, <1>6 DEF KillswitchOffAtExit
<1>. QED
  BY <1>1, <1>7, <1>8, <1>9, <1>10, <1>11, <1>12, <1>13 DEF DaemonInv

\* DoShutdown, steps 2 and 3: the loop stops once there are no clients, and without
\* clients the NotifyChanges before it has lifted the killswitch.
LEMMA DShutdownClientsInv == ASSUME DaemonInv, DShutdownClients PROVE DaemonInv'
<1>. DEFINE raised == Raised(shouldConnect, "CONNECT")
            noted == Tail(queue) \o PostNotify(raised)
<1>1. /\ Ready("DoShutdown") /\ shouldConnect' = FALSE /\ state' = state
      /\ loop' = IF clients = {} THEN "stopped" ELSE loop
      /\ NotifyChanges(raised)
      /\ queue' = noted \o PostAgain(raised)
      /\ exiting' = exiting /\ clients' = clients /\ firewall' = firewall
      /\ needsReconnect' = needsReconnect
  BY DEF DShutdownClients, SwitchOff, daemonVars
<1>2. /\ Grown(Tail(queue), noted)
      /\ Tail(queue) \in Seq(Handlers) /\ PostAgain(raised) \in Seq(Posted)
  <2>1. /\ Tail(queue) \in Seq(Handlers) /\ PostNotify(raised) \in Seq(Posted)
        /\ PostAgain(raised) \in Seq(Posted)
    BY <1>1, TailOfQueue, PostedSequences
  <2>2. Grown(Tail(queue), Tail(queue))
    BY <2>1, GrownSelf
  <2>. QED
    BY <2>1, <2>2, GrownPosts
<1>. HIDE DEF noted, raised
<1>3. /\ Grown(Tail(queue), queue')
      /\ Has(PostAgain(raised), "NotifyChanges") => Has(queue', "NotifyChanges")
  BY <1>1, <1>2, GrownPosts
<1>4. exiting
  <2>1. Has(queue, "DoShutdown")
    BY <1>1, <1>3, RunQueue DEF DaemonInv, Ready
  <2>. QED
    BY <2>1 DEF DaemonInv, OnMeansTryingUntilExit
<1>5. /\ queue' \in Seq(Handlers)
      /\ RequestsHaveClients'
      /\ Has(queue', "Terminate") => Has(queue, "Terminate")
  BY <1>1, <1>3, RunRequests
<1>6. KillswitchFollows' /\ GarbageHarmless'
  <2>1. ~(Engaged' <=> Engaged) => shouldConnect
    BY <1>1 DEF Engaged
  <2>2. shouldConnect => "CONNECT" \in raised
    BY DEF raised, Raised
  <2>. QED
    BY <2>1, <2>2, <1>1, NotifiedKillswitch DEF DaemonInv
<1>7. NotifyChangesQueued'
  BY <1>1, <1>3, NotifiedQueued
<1>8. ClientsUpToDate' /\ DOMAIN told' = Clients
  <2>1. shouldConnect' # shouldConnect => "CONNECT" \in raised
    BY <1>1 DEF raised, Raised, DaemonInv
  <2>. QED
    BY <2>1, <1>1, <1>4, ShownFields, NotifiedClients DEF DaemonInv
<1>9. OnMeansTryingUntilExit'
  BY <1>1, <1>4, <1>5 DEF DaemonInv, OnMeansTryingUntilExit
<1>10. ShutdownPending'
  BY <1>1 DEF ShutdownPending, Ready
<1>11. KillswitchOffAtExit'
  <2>. SUFFICES ASSUME loop' = "stopped" PROVE ~killswitch'
    BY DEF KillswitchOffAtExit
  <2>1. ~Engaged'
    <3>1. clients' = {}
      BY <1>1 DEF Ready
    <3>. QED
      BY <3>1 DEF Engaged
  <2>2. CASE MustNotify(raised)
    <3>1. notify' = RaisedByNotify(notify \cup raised)
      BY <1>1, <2>2 DEF NotifyChanges
    <3>2. notify' \cap FirewallFlags = {}
      BY <3>1 DEF RaisedByNotify, PingServersRaises, FirewallFlags
    <3>. QED
      BY <3>2, <2>1, <1>6 DEF KillswitchFollows
  <2>3. CASE ~MustNotify(raised)
    <3>1. ~notifyScheduled'
      BY <1>1, <2>3 DEF NotifyChanges, MustNotify, notifyVars
    <3>2. CASE notify' = {}
      BY <3>2, <2>1, <1>6 DEF KillswitchFollows
    <3>3. CASE notify' # {}
      BY <3>1, <3>3, <2>1, <1>6 DEF GarbageHarmless
    <3>. QED
      BY <3>2, <3>3
  <2>. QED
    BY <2>2, <2>3
<1>. QED
  BY <1>1, <1>5, <1>6, <1>7, <1>8, <1>9, <1>10, <1>11 DEF DaemonInv

-----------------------------------------------------------------------------
(* The environment.                                                        *)

\* Something becomes ready.
LEMMA ArrivedInv ==
    ASSUME DaemonInv, loop = "running", NEW x \in Handlers, queue' = Append(queue, x),
           loop' = loop, state' = state, needsReconnect' = needsReconnect, UNCHANGED ownVars,
           x # "DoShutdown",
           x = "Terminate" => "Terminate" \in Incoming,
           x = "Close" => ~Has(queue, "Close"),
           x = "Connect" => clients # {} /\ (Has(queue, "Close") => Cardinality(clients) > 1)
    PROVE  DaemonInv'
<1>1. /\ queue \in Seq(Handlers) /\ RequestsHaveClients
      /\ \A i, j \in DOMAIN queue : queue[i] = "Close" /\ queue[j] = "Close" => i = j
  BY DEF DaemonInv, RequestsHaveClients
<1>2. /\ queue' \in Seq(Handlers)
      /\ \A h : Has(queue', h) <=> Has(queue, h) \/ x = h
      /\ LateConnect' => LateConnect \/ (x = "Connect" /\ Has(queue, "Close"))
      /\ \A i, j \in DOMAIN queue' : queue'[i] = "Close" /\ queue'[j] = "Close" => i = j
  BY <1>1, ReadyQueue
<1>3. /\ exiting' = exiting /\ clients' = clients /\ told' = told
      /\ shouldConnect' = shouldConnect /\ firewall' = firewall
      /\ notify' = notify /\ notifyScheduled' = notifyScheduled /\ killswitch' = killswitch
  BY DEF ownVars, clientVars, notifyVars
<1>4. RequestsHaveClients'
  BY <1>1, <1>2, <1>3 DEF RequestsHaveClients
<1>5. OnMeansTryingUntilExit'
  BY <1>2, <1>3 DEF DaemonInv, OnMeansTryingUntilExit
<1>6. NotifyChangesQueued' /\ ShutdownPending' /\ KillswitchOffAtExit'
  BY <1>2, <1>3 DEF DaemonInv, NotifyChangesQueued, ShutdownPending, KillswitchOffAtExit
<1>7. GarbageHarmless' /\ KillswitchFollows'
  BY <1>3 DEF DaemonInv, GarbageHarmless, KillswitchFollows, Engaged
<1>8. ClientsUpToDate'
  BY <1>3 DEF DaemonInv, ClientsUpToDate, Shown
<1>. QED
  BY <1>2, <1>3, <1>4, <1>5, <1>6, <1>7, <1>8 DEF DaemonInv

LEMMA DEnvironmentInv == ASSUME DaemonInv, DEnvironment PROVE DaemonInv'
<1>1. CASE Background /\ UNCHANGED ownVars
  <2>1. PICK x \in Lines \cup {"SlowTimeout", "DoConnect", "Accept", "StaleError", "Exited"} :
          /\ loop = "running" /\ queue' = Append(queue, x)
          /\ loop' = loop /\ state' = state /\ needsReconnect' = needsReconnect
    BY <1>1 DEF Background, SlowTimerFires, IntervalTimerFires, ProcessConnects, LineArrives,
                StaleErrorArrives, ProcessExits, daemonVars
  <2>2. x \in Handlers /\ x \notin {"DoShutdown", "Terminate", "Close", "Connect"}
    BY <2>1 DEF Handlers, Lines
  <2>. QED
    BY <2>1, <2>2, <1>1, ArrivedInv
<1>2. CASE \E request \in Requests \cap Incoming : ClientAsks(request)
  <2>1. PICK request \in Requests \cap Incoming : ClientAsks(request)
    BY <1>2
  <2>2. /\ loop = "running" /\ queue' = Append(queue, request)
        /\ loop' = loop /\ state' = state /\ needsReconnect' = needsReconnect
        /\ UNCHANGED ownVars
    BY <2>1 DEF ClientAsks, Arrive, connVars, daemonVars
  <2>3. clients # {} /\ (Has(queue, "Close") => Cardinality(clients) > 1)
    BY <2>1 DEF ClientAsks, Attached
  <2>4. request \in Handlers /\ request \notin {"DoShutdown", "Terminate", "Close"}
    BY <2>1 DEF Requests, Handlers
  <2>. QED
    BY <2>2, <2>3, <2>4, ArrivedInv
<1>3. CASE ClientOpens \/ ClientCloses \/ Terminates
  <2>1. PICK x \in DaemonRequests : Becomes(x) /\ (x = "Terminate" => "Terminate" \in Incoming)
    BY <1>3 DEF ClientOpens, ClientCloses, Terminates, DaemonRequests
  <2>2. /\ loop = "running" /\ queue' = Append(queue, x) /\ ~Has(queue, x)
        /\ loop' = loop /\ state' = state /\ needsReconnect' = needsReconnect
        /\ UNCHANGED ownVars
    BY <2>1 DEF Becomes, connVars, daemonVars
  <2>3. x \in Handlers /\ x \notin {"DoShutdown", "Connect"}
    BY <2>1 DEF DaemonRequests, DaemonHandlers, Handlers
  <2>. QED
    BY <2>1, <2>2, <2>3, ArrivedInv
<1>. QED
  BY <1>1, <1>2, <1>3 DEF DEnvironment

LEMMA DStutterInv == ASSUME DaemonInv, UNCHANGED vars PROVE DaemonInv'
<1>1. /\ queue' = queue /\ loop' = loop /\ state' = state /\ needsReconnect' = needsReconnect
      /\ exiting' = exiting /\ clients' = clients /\ told' = told
      /\ shouldConnect' = shouldConnect /\ firewall' = firewall
      /\ notify' = notify /\ notifyScheduled' = notifyScheduled /\ killswitch' = killswitch
  BY DEF vars, ownVars, clientVars, notifyVars, connectionVars, connVars, daemonVars
<1>2. RequestsHaveClients' /\ GarbageHarmless' /\ NotifyChangesQueued' /\ OnMeansTryingUntilExit'
  BY <1>1 DEF DaemonInv, RequestsHaveClients, LateConnect, GarbageHarmless, NotifyChangesQueued,
              OnMeansTryingUntilExit, Engaged
<1>3. ClientsUpToDate' /\ KillswitchFollows' /\ KillswitchOffAtExit' /\ ShutdownPending'
  BY <1>1 DEF DaemonInv, ClientsUpToDate, Shown, KillswitchFollows, Engaged,
              KillswitchOffAtExit, ShutdownPending
<1>. QED
  BY <1>1, <1>2, <1>3 DEF DaemonInv

-----------------------------------------------------------------------------
(* The theorems.                                                           *)

LEMMA DInitInv == ASSUME DaemonInit PROVE DaemonInv
<1>1. /\ queue = <<>> /\ loop = "running" /\ state = "DISCONNECTED" /\ needsReconnect = FALSE
      /\ exiting = FALSE /\ clients = {} /\ DOMAIN told = Clients
      /\ shouldConnect = FALSE /\ killswitch = FALSE /\ notifyScheduled = FALSE
      /\ notify \subseteq StateFlags
  BY DaemonAssumption DEF DaemonInit, Init
<1>2. queue \in Seq(Handlers) /\ \A h : ~Has(queue, h)
  <2>1. "Close" \in Handlers
    BY DEF Handlers, Requests, DaemonHandlers, DaemonRequests
  <2>2. <<>> \in Seq(Handlers) /\ \A h : ~Has(<<>>, h)
    BY <2>1, HasPosted
  <2>. QED
    BY <2>2, <1>1
<1>3. DOMAIN queue = {}
  BY <1>1
<1>4. RequestsHaveClients
  BY <1>1, <1>2, <1>3 DEF RequestsHaveClients, LateConnect
<1>5. GarbageHarmless /\ KillswitchFollows
  BY <1>1 DEF GarbageHarmless, KillswitchFollows, Engaged
<1>6. NotifyChangesQueued /\ OnMeansTryingUntilExit /\ ClientsUpToDate
  BY <1>1, <1>2 DEF NotifyChangesQueued, OnMeansTryingUntilExit, ClientsUpToDate
<1>7. KillswitchOffAtExit /\ ShutdownPending
  BY <1>1 DEF KillswitchOffAtExit, ShutdownPending
<1>8. clients \subseteq Clients /\ IsFiniteSet(clients)
  BY <1>1, FS_EmptySet
<1>. QED
  BY <1>1, <1>2, <1>4, <1>5, <1>6, <1>7, <1>8 DEF DaemonInv

\* Every step of the daemon keeps the invariant.
LEMMA DStepInv == ASSUME DaemonInv, [DaemonNext]_vars PROVE DaemonInv'
<1>1. CASE DRun
  <2>1. CASE DDoConnect \/ DSlowTimeout \/ DExited \/ DLine \/ DQuiet
    BY <2>1, ConnectionHandlersInv
  <2>2. CASE DConnect
    BY <2>2, DConnectInv
  <2>3. CASE DDisconnect
    BY <2>3, DDisconnectInv
  <2>4. CASE DRefused
    BY <2>4, DRefusedInv
  <2>5. CASE DApplySettings
    BY <2>5, DApplySettingsInv
  <2>6. CASE DNotifyChanges
    BY <2>6, DNotifyChangesInv
  <2>7. CASE DOpenAny
    BY <2>7, DOpenInv DEF DOpenAny
  <2>8. CASE DCloseAny
    BY <2>8, DCloseInv, DCloseLastInv DEF DCloseAny
  <2>9. CASE DTerminate
    BY <2>9, DTerminateInv
  <2>10. CASE DShutdownConnection
    BY <2>10, DShutdownConnectionInv
  <2>11. CASE DShutdownClients
    BY <2>11, DShutdownClientsInv
  <2>. QED
    BY <1>1, <2>1, <2>2, <2>3, <2>4, <2>5, <2>6, <2>7, <2>8, <2>9, <2>10, <2>11 DEF DRun
<1>2. CASE DEnvironment
  BY <1>2, DEnvironmentInv
<1>3. CASE DDead \/ UNCHANGED vars
  BY <1>3, DStutterInv DEF DDead
<1>. QED
  BY <1>1, <1>2, <1>3 DEF DaemonNext

\* The invariant holds throughout: RPC, signals, the Connection's handlers and the
\* daemon's own, in whatever order the io_service runs them.
THEOREM DaemonInvariance == DaemonSpec => []DaemonInv
<1>. QED
  BY DInitInv, DStepInv, PTL DEF DaemonSpec

\* Whatever a client has not been told yet is flagged (MakeStateObject,
\* OnClientConnected, OnStateChanged), for any number of clients.
THEOREM ClientsAreToldTheTruth == DaemonSpec => []ClientsUpToDate
<1>1. DaemonInv => ClientsUpToDate
  BY DEF DaemonInv
<1>. QED
  BY <1>1, DaemonInvariance, PTL

\* The killswitch is what settings, switch and clients ask for, or is about to be
\* (ApplyFirewallSettings, NotifyChanges, OnLastClientDisconnected).
THEOREM KillswitchIsRight == DaemonSpec => []KillswitchFollows
<1>1. DaemonInv => KillswitchFollows
  BY DEF DaemonInv
<1>. QED
  BY <1>1, DaemonInvariance, PTL

\* DoShutdown does not stop the loop with the killswitch engaged.
THEOREM NoKillswitchLeftBehind == DaemonSpec => []KillswitchOffAtExit
<1>1. DaemonInv => KillswitchOffAtExit
  BY DEF DaemonInv
<1>. QED
  BY <1>1, DaemonInvariance, PTL

\* A shutdown never runs out of steps (DoShutdown, OnConnectionStateChanged,
\* OnLastClientDisconnected).
THEOREM ShutdownGoesOn == DaemonSpec => []ShutdownPending
<1>1. DaemonInv => ShutdownPending
  BY DEF DaemonInv
<1>. QED
  BY <1>1, DaemonInvariance, PTL

\* Until the daemon is asked to stop, the switch is on only while the connection is up or
\* being made for a client that is there (RPC_connect, OnConnectionStateChanged).
THEOREM OnIsNeverIdle ==
    ASSUME "Terminate" \notin Incoming PROVE DaemonSpec => []OnMeansTrying
<1>1. DaemonInv => OnMeansTrying
  BY DEF DaemonInv, OnMeansTryingUntilExit, RequestsHaveClients, OnMeansTrying
<1>. QED
  BY <1>1, DaemonInvariance, PTL

\* How a step may change what is to be told.
LEMMA NotifySteps ==
    ASSUME [DaemonNext]_vars
    PROVE  \/ \E raised : Notify(raised) \/ NotifyChanges(raised)
           \/ UNCHANGED notifyVars
<1>1. CASE DDoConnect \/ DSlowTimeout \/ DExited \/ DLine
  BY <1>1 DEF DDoConnect, DSlowTimeout, DExited, DLine, Listen
<1>2. CASE DQuiet \/ DRefused \/ DDead \/ UNCHANGED vars
  BY <1>2 DEF DQuiet, DRefused, DDead, vars, ownVars
<1>3. CASE DConnect
  BY <1>3 DEF DConnect
<1>4. CASE DDisconnect
  BY <1>4 DEF DDisconnect
<1>5. CASE DApplySettings
  BY <1>5 DEF DApplySettings, AppliesSettings
<1>6. CASE DNotifyChanges \/ DTerminate
  BY <1>6 DEF DNotifyChanges, DTerminate
<1>7. CASE DOpenAny
  BY <1>7 DEF DOpenAny, DOpen
<1>8. CASE DCloseAny
  BY <1>8 DEF DCloseAny, DClose, DCloseLast
<1>9. CASE DShutdownConnection
  BY <1>9 DEF DShutdownConnection
<1>10. CASE DShutdownClients
  BY <1>10 DEF DShutdownClients
<1>11. CASE DEnvironment
  BY <1>11 DEF DEnvironment, ClientAsks, ClientOpens, ClientCloses, Terminates, Becomes, ownVars
<1>. QED
  BY <1>1, <1>2, <1>3, <1>4, <1>5, <1>6, <1>7, <1>8, <1>9, <1>10, <1>11 DEF DaemonNext, DRun

\* Once _to_notify starts out clear, no wakeup is lost: whatever is still to be told,
\* NotifyChanges is queued for it (OnStateChanged, OnSettingsChanged, NotifyChanges).
THEOREM NoWakeupLost ==
    ASSUME GarbageFlags \subseteq {{}} PROVE DaemonSpec => []NotificationPending
<1>. DEFINE Scheduled == notify # {} => notifyScheduled
<1>1. DaemonInit => Scheduled
  BY DEF DaemonInit
<1>2. Scheduled /\ [DaemonNext]_vars => Scheduled'
  <2>. SUFFICES ASSUME Scheduled, [DaemonNext]_vars PROVE Scheduled'
    OBVIOUS
  <2>1. ASSUME NEW raised, Notify(raised) PROVE Scheduled'
    BY <2>1 DEF Notify, MustNotify
  <2>2. ASSUME NEW raised, NotifyChanges(raised) PROVE Scheduled'
    BY <2>2 DEF NotifyChanges, notifyVars
  <2>3. CASE UNCHANGED notifyVars
    BY <2>3 DEF notifyVars
  <2>. QED
    BY <2>1, <2>2, <2>3, NotifySteps
<1>3. DaemonInv /\ Scheduled => NotificationPending
  BY DEF DaemonInv, NotifyChangesQueued, NotificationPending
<1>. QED
  BY <1>1, <1>2, <1>3, DaemonInvariance, PTL DEF DaemonSpec

-----------------------------------------------------------------------------
(* The Connection keeps its promises inside the daemon: what               *)
(* ConnectionProofs shows of it with a listener that does nothing holds    *)
(* with the daemon as its listener, whatever the clients, the signals and  *)
(* the notifications add to the queue.                                     *)

\* None of what the daemon posts is a handler of the process.
LEMMA DaemonPostsQuiet ==
    /\ Quiet(<<"DoShutdown">>) /\ Quiet(<<>>) /\ Quiet(PostShutdown)
    /\ \A flags : Quiet(PostNotify(flags)) /\ Quiet(PostAgain(flags))
    /\ \A extra : Quiet(ListenerPosts(extra))
    /\ \A a, b : Quiet(a) /\ Quiet(b) => Quiet(a \o b)
<1>1. /\ "NotifyChanges" \in Handlers /\ "NotifyChanges" \notin ProcessHandlers
      /\ "DoShutdown" \in Handlers /\ "DoShutdown" \notin ProcessHandlers
  BY DEF Handlers, DaemonHandlers, ProcessHandlers, Lines
<1>2. /\ <<"NotifyChanges">> \in Seq(Handlers)
      /\ \A h : Has(<<"NotifyChanges">>, h) <=> "NotifyChanges" = h
      /\ <<"DoShutdown">> \in Seq(Handlers)
      /\ \A h : Has(<<"DoShutdown">>, h) <=> "DoShutdown" = h
  BY <1>1, HasPosted
<1>3. Quiet(<<"NotifyChanges">>) /\ Quiet(<<"DoShutdown">>) /\ Quiet(<<>>)
  BY <1>1, <1>2, QuietPosts DEF Quiet
<1>4. Quiet(PostShutdown) /\ \A flags : Quiet(PostNotify(flags)) /\ Quiet(PostAgain(flags))
  BY <1>3 DEF PostShutdown, PostNotify, PostAgain
<1>5. ASSUME NEW a, NEW b, Quiet(a), Quiet(b) PROVE Quiet(a \o b)
  <2>1. a \in Seq(Handlers) /\ b \in Seq(Handlers)
    BY <1>5 DEF Quiet
  <2>2. a \o b \in Seq(Handlers) /\ \A h : Has(a \o b, h) <=> Has(a, h) \/ Has(b, h)
    BY <2>1, HasConcat
  <2>. QED
    BY <2>2, <1>5 DEF Quiet
<1>. QED
  BY <1>3, <1>4, <1>5 DEF ListenerPosts

\* The rest of the queue, with what was posted before the Connection is called.
LEMMA PoppedPosts ==
    ASSUME NEW q, NEW a, Popped(q), Quiet(a) PROVE Popped(q \o a)
BY RestPosts DEF Popped

\* Handlers that leave the Connection alone.
LEMMA AloofInv ==
    ASSUME IInv, Popped(queue'), loop' \in {loop, "stopped"},
           UNCHANGED <<state, ovpn, attempts, timerVars, copyVars, procVars, staleReader, daemonVars>>
    PROVE  IInv'
BY DEF Popped, Rest, ProcessHandlers, IInv, TypeOK, NoStall, DisconnectingHasProcess,
   TimersDisarmed, ConnectedIsUp, FlagsAgree, ProcessTracked, ManagementOpen, timerVars, procVars,
   copyVars, daemonVars

\* What the daemon's requests leave of the queue.
LEMMA DaemonTail ==
    ASSUME IInv, NEW h \in Requests \cup DaemonHandlers, Ready(h)
    PROVE  Popped(Tail(queue))
<1>1. h \in Handlers /\ h # "DoConnect"
  BY DEF Handlers, Requests, DaemonHandlers, DaemonRequests
<1>. QED
  BY <1>1, PoppedTail

LEMMA DApplySettingsKeeps == ASSUME IInv, DApplySettings PROVE IInv'
<1>. SUFFICES ASSUME NEW keys \in SUBSET DataFlags, NEW asks \in BOOLEAN,
                     AppliesSettings(keys, asks)
              PROVE  IInv'
  BY DEF DApplySettings
<1>. DEFINE queries == asks /\ ~needsReconnect /\ ~exiting
            throws  == queries /\ NeedsReconnectThrows(settings')
            finds   == queries /\ ~throws /\ NeedsReconnect(settings')
            raised  == keys \cup Raised(finds, "NEEDSRECONNECT")
            again   == IF throws THEN <<>> ELSE PostAgain(raised)
<1>1. /\ Ready("ApplySettings")
      /\ settings' \in SettingsSpace
      /\ connNeedsReconnect' = IF queries /\ ~throws THEN finds ELSE connNeedsReconnect
      /\ needsReconnect' = (needsReconnect \/ finds)
      /\ UNCHANGED <<state, ovpn, attempts, timerVars, copied, procVars, staleReader, loop>>
      /\ queue' = (Tail(queue) \o PostNotify(raised))
                  \o (IF throws THEN <<>> ELSE PostAgain(raised))
  BY DEF AppliesSettings
<1>2. /\ Ready("ApplySettings") /\ settings' \in SettingsSpace
      /\ UNCHANGED <<state, ovpn, attempts, timerVars, copied, procVars, staleReader, loop>>
      /\ queue' = (Tail(queue) \o PostNotify(raised)) \o again
  BY <1>1
<1>3. /\ needsReconnect' \in BOOLEAN
      /\ connNeedsReconnect' \in BOOLEAN
      /\ needsReconnect' /\ phase # "none" => connNeedsReconnect'
  <2>1. needsReconnect \in BOOLEAN /\ connNeedsReconnect \in BOOLEAN
        /\ (needsReconnect /\ phase # "none" => connNeedsReconnect)
    BY DEF IInv, TypeOK, FlagsAgree
  <2>. QED
    BY <1>1, <2>1
<1>4. Popped(queue')
  <2>1. Popped(Tail(queue)) /\ Quiet(PostNotify(raised)) /\ Quiet(again)
    BY <1>2, DaemonTail, DaemonPostsQuiet DEF Requests
  <2>. HIDE DEF raised, again
  <2>2. Popped(Tail(queue) \o PostNotify(raised))
    BY <2>1, PoppedPosts
  <2>. QED
    BY <1>2, <2>1, <2>2, PoppedPosts
<1>. HIDE DEF queries, throws, finds, raised, again
<1>5. TypeOK'
  <2>1. queue' \in Seq(Handlers)
    BY <1>4 DEF Popped, Rest
  <2>. QED
    BY <1>2, <1>3, <2>1 DEF IInv, TypeOK, timerVars, procVars
<1>6. NoStall' /\ ProcessTracked'
  BY <1>2, <1>4, QueueKeeps DEF IInv, timerVars, procVars
<1>7. DisconnectingHasProcess' /\ TimersDisarmed' /\ ConnectedIsUp'
  BY <1>2 DEF IInv, DisconnectingHasProcess, TimersDisarmed, ConnectedIsUp, timerVars, procVars
<1>8. FlagsAgree'
  BY <1>2, <1>3 DEF FlagsAgree, procVars
<1>. QED
  BY <1>5, <1>6, <1>7, <1>8 DEF IInv

\* The Connection's own handlers, with the daemon listening.
LEMMA ListeningKeeps ==
    ASSUME IInv, DDoConnect \/ DSlowTimeout \/ DExited \/ DLine PROVE IInv'
<1>1. CASE DDoConnect
  <2>1. Rest(Tail(queue))
    BY <1>1, PoppedTail DEF DDoConnect, Handlers
  <2>2. PICK launched \in BOOLEAN :
            DoConnect(launched, Tail(queue), ListenerPosts(RaisedByAttempt))
    BY <1>1 DEF DDoConnect
  <2>. QED
    BY <1>1, <2>1, <2>2, DaemonPostsQuiet, DoConnectInv DEF DDoConnect
<1>2. CASE DSlowTimeout
  <2>1. Popped(Tail(queue))
    BY <1>2, PoppedTail DEF DSlowTimeout, Handlers
  <2>. QED
    BY <1>2, <2>1, DaemonPostsQuiet, SlowTimeoutInv DEF DSlowTimeout
<1>3. CASE DExited
  <2>1. Popped(Tail(queue))
    BY <1>3, PoppedTail DEF DExited, Handlers
  <2>2. PICK early \in BOOLEAN : OnOpenVPNExited(early, Tail(queue), ListenerPosts({}))
    BY <1>3 DEF DExited
  <2>. QED
    BY <1>3, <2>1, <2>2, DaemonPostsQuiet, ExitedInv DEF DExited
<1>4. CASE DLine
  <2>1. PICK line \in Lines :
            Ready(line) /\ OnOpenVPNManagement(line, Tail(queue), ListenerPosts({}))
    BY <1>4 DEF DLine
  <2>2. Popped(Tail(queue)) /\ ManagementOpen
    BY <2>1, PoppedTail DEF Handlers, Lines
  <2>3. CASE line = "CONNECTED"
    BY <1>4, <2>1, <2>2, <2>3, DaemonPostsQuiet, OpenVPNConnectedInv DEF OnOpenVPNManagement, DLine
  <2>4. CASE line # "CONNECTED"
    BY <1>4, <2>1, <2>2, <2>4, DaemonPostsQuiet, OpenVPNStateInv DEF OnOpenVPNManagement, DLine
  <2>. QED
    BY <2>3, <2>4
<1>. QED
  BY <1>1, <1>2, <1>3, <1>4

\* Connect and Disconnect, however the daemon comes to call them.
LEMMA CallsKeep ==
    ASSUME IInv, DConnect \/ DDisconnect \/ DShutdownConnection \/ \E c \in clients : DCloseLast(c)
    PROVE  IInv'
<1>1. CASE DConnect
  <2>1. Popped(Tail(queue) \o PostNotify({"DATA"}))
    BY <1>1, DaemonTail, DaemonPostsQuiet, PoppedPosts DEF DConnect, Requests
  <2>2. /\ Connect(needsReconnect, Tail(queue) \o PostNotify({"DATA"}), <<>>)
        /\ needsReconnect' = FALSE /\ UNCHANGED settings /\ needsReconnect \in BOOLEAN
    BY <1>1 DEF DConnect, IInv, TypeOK
  <2>. QED
    BY <2>1, <2>2, DaemonPostsQuiet, ConnectInv DEF Popped
<1>2. CASE DDisconnect
  <2>. DEFINE first == Raised(shouldConnect, "CONNECT")
              raised == first \cup RaisedByConnection(FALSE)
              later == IF PostNotify(first) = <<>> THEN PostNotify(raised) ELSE <<>>
  <2>1. /\ Ready("Disconnect") /\ UNCHANGED daemonVars
        /\ Disconnect(Tail(queue) \o PostNotify(first), later \o PostAgain(raised))
    BY <1>2 DEF DDisconnect
  <2>2. Quiet(PostNotify(first)) /\ Quiet(later) /\ Quiet(PostAgain(raised))
    BY DaemonPostsQuiet
  <2>. HIDE DEF first, raised, later
  <2>3. Popped(Tail(queue) \o PostNotify(first)) /\ Quiet(later \o PostAgain(raised))
    BY <2>1, <2>2, DaemonTail, DaemonPostsQuiet, PoppedPosts DEF Requests
  <2>. QED
    BY <2>1, <2>3, DisconnectInv DEF Popped
<1>3. CASE DShutdownConnection
  <2>. DEFINE raised == Raised(shouldConnect, "CONNECT")
  <2>1. /\ Ready("DoShutdown") /\ UNCHANGED daemonVars
        /\ Disconnect(Tail(queue) \o PostNotify(raised), PostShutdown)
    BY <1>3 DEF DShutdownConnection
  <2>. HIDE DEF raised
  <2>2. Popped(Tail(queue) \o PostNotify(raised)) /\ Quiet(PostShutdown)
    BY <2>1, DaemonTail, DaemonPostsQuiet, PoppedPosts DEF DaemonHandlers
  <2>. QED
    BY <2>1, <2>2, DisconnectInv DEF Popped
<1>4. ASSUME NEW c \in clients, DCloseLast(c) PROVE IInv'
  <2>. DEFINE first == Raised(shouldConnect, "CONNECT")
              raised == first \cup RaisedByConnection(FALSE)
              later == IF PostNotify(first) = <<>> THEN PostNotify(raised) ELSE <<>>
              noted == Tail(queue) \o PostNotify(first)
  <2>1. /\ Ready("Close") /\ UNCHANGED daemonVars
        /\ exiting => UNCHANGED connVars /\ queue' = noted \o <<"DoShutdown">>
        /\ ~exiting => Disconnect(noted, later)
    BY <1>4 DEF DCloseLast
  <2>2. Quiet(PostNotify(first)) /\ Quiet(later)
    BY DaemonPostsQuiet
  <2>. HIDE DEF first, raised, later
  <2>3. Popped(noted)
    BY <2>1, <2>2, DaemonTail, PoppedPosts DEF DaemonHandlers, DaemonRequests
  <2>. HIDE DEF noted
  <2>4. CASE exiting
    <3>1. Popped(queue')
      BY <2>1, <2>3, <2>4, DaemonPostsQuiet, PoppedPosts
    <3>. QED
      BY <2>1, <2>4, <3>1, AloofInv DEF connVars
  <2>5. CASE ~exiting
    BY <2>1, <2>2, <2>3, <2>5, DisconnectInv DEF Popped
  <2>. QED
    BY <2>4, <2>5
<1>. QED
  BY <1>1, <1>2, <1>3, <1>4

\* Handlers of the daemon that do not call the Connection.
LEMMA OwnHandlersKeep ==
    ASSUME IInv, DRefused \/ DNotifyChanges \/ DTerminate \/ DShutdownClients
                 \/ \E c : DOpen(c) \/ DClose(c)
    PROVE  IInv'
<1>1. PICK h \in Requests \cup DaemonHandlers : \E a, b :
        /\ Ready(h) /\ Quiet(a) /\ Quiet(b)
        /\ queue' = Tail(queue) \/ queue' = Tail(queue) \o a \/ queue' = (Tail(queue) \o a) \o b
  <2>1. CASE DRefused
    BY <2>1, DaemonPostsQuiet DEF DRefused, Requests
  <2>2. CASE DNotifyChanges
    BY <2>2, DaemonPostsQuiet DEF DNotifyChanges, DaemonHandlers
  <2>3. CASE DTerminate
    BY <2>3, DaemonPostsQuiet DEF DTerminate, DaemonHandlers, DaemonRequests
  <2>4. CASE DShutdownClients
    BY <2>4, DaemonPostsQuiet DEF DShutdownClients, DaemonHandlers
  <2>5. CASE \E c : DOpen(c)
    BY <2>5, DaemonPostsQuiet DEF DOpen, DaemonHandlers, DaemonRequests
  <2>6. CASE \E c : DClose(c)
    BY <2>6, DaemonPostsQuiet DEF DClose, DaemonHandlers, DaemonRequests
  <2>. QED
    BY <2>1, <2>2, <2>3, <2>4, <2>5, <2>6
<1>2. Popped(queue')
  BY <1>1, DaemonTail, PoppedPosts
<1>3. /\ loop' \in {loop, "stopped"}
      /\ UNCHANGED <<state, ovpn, attempts, timerVars, copyVars, procVars, staleReader, daemonVars>>
  BY DEF DRefused, DNotifyChanges, DTerminate, DShutdownClients, DOpen, DClose, connVars
<1>. QED
  BY <1>2, <1>3, AloofInv

\* What becomes ready.
LEMMA EnvironmentKeeps == ASSUME IInv, DEnvironment PROVE IInv'
<1>1. CASE Background \/ \E request \in Requests : Arrive(request)
  BY <1>1, EnvironmentInv DEF Environment
<1>2. ASSUME NEW h \in DaemonRequests, Becomes(h) PROVE IInv'
  <2>1. h \in Handlers /\ h \notin ProcessHandlers
    BY DEF Handlers, DaemonHandlers, DaemonRequests, ProcessHandlers, Lines
  <2>2. queue' = Append(queue, h) /\ queue \in Seq(Handlers)
    BY <1>2 DEF Becomes, IInv, TypeOK
  <2>3. queue' \in Seq(Handlers) /\ \A x : Has(queue', x) <=> Has(queue, x) \/ h = x
    BY <2>1, <2>2, HasAppend
  <2>4. Popped(queue')
    BY <2>1, <2>3 DEF Popped, Rest, IInv, ProcessTracked, ManagementOpen, ProcessHandlers
  <2>. QED
    BY <1>2, <2>4, AloofInv DEF Becomes, connVars
<1>. QED
  BY <1>1, <1>2 DEF DEnvironment, ClientAsks, ClientOpens, ClientCloses, Terminates, DaemonRequests

\* The Connection's invariant holds inside the daemon, too: no retry is lost, no process
\* runs beside another one, CONNECTED means that OpenVPN is up, no timer is left over,
\* whatever RPC, signals and notifications come between its handlers.
THEOREM ConnectionInDaemon == DaemonSpec => []IInv
<1>1. DaemonInit => IInv
  BY InitInv DEF DaemonInit
<1>2. IInv /\ [DaemonNext]_vars => IInv'
  <2>. SUFFICES ASSUME IInv, [DaemonNext]_vars PROVE IInv'
    OBVIOUS
  <2>1. CASE DRun
    <3>1. CASE DQuiet
      BY <3>1, RunInv DEF DQuiet, Run
    <3>2. CASE DOpenAny \/ DCloseAny
      BY <3>2, OwnHandlersKeep, CallsKeep DEF DOpenAny, DCloseAny
    <3>. QED
      BY <2>1, <3>1, <3>2, ListeningKeeps, CallsKeep, DApplySettingsKeeps, OwnHandlersKeep DEF DRun
  <2>2. CASE DEnvironment
    BY <2>2, EnvironmentKeeps
  <2>3. CASE DDead \/ UNCHANGED vars
    BY <2>3, StutterInv DEF DDead, vars
  <2>. QED
    BY <2>1, <2>2, <2>3 DEF DaemonNext
<1>. QED
  BY <1>1, <1>2, PTL DEF DaemonSpec

\* In particular no client, signal or notification makes the daemon lose a retry: with no
\* process, a DoConnect is queued or the timer will queue one (ScheduleConnect, SignalError).
THEOREM NoStallInDaemon == DaemonSpec => []NoStall
<1>1. IInv => NoStall
  BY DEF IInv
<1>. QED
  BY <1>1, ConnectionInDaemon, PTL

\* A client that is told CONNECTED has a process that is up behind it, or one that is on its
\* own way back (SetOpenVPNState, OnOpenVPNExited).
THEOREM ConnectedIsUpInDaemon == DaemonSpec => []ConnectedIsUp
<1>1. IInv => ConnectedIsUp
  BY DEF IInv
<1>. QED
  BY <1>1, ConnectionInDaemon, PTL

\* A step of the daemon is one of Lifecycle, or none, as the Connection's are.
LEMMA DaemonLives == ASSUME IInv, [DaemonNext]_vars PROVE LifeStep
<1>1. ASSUME UNCHANGED connVars, settings' \in SettingsSpace PROVE LifeStep
  BY <1>1, LifeStays DEF connVars, procVars, copyVars
<1>2. settings \in SettingsSpace
  BY DEF IInv, TypeOK
<1>3. CASE DDoConnect
  BY <1>3, DoConnectLives DEF DDoConnect
<1>4. CASE DSlowTimeout
  BY <1>4, SlowTimeoutLives DEF DSlowTimeout
<1>5. CASE DExited
  BY <1>5, ExitedLives DEF DExited
<1>6. CASE DLine
  <2>1. PICK line \in Lines :
             Ready(line) /\ OnOpenVPNManagement(line, Tail(queue), ListenerPosts({}))
    BY <1>6 DEF DLine
  <2>2. ManagementOpen
    BY <2>1, PoppedTail DEF Handlers
  <2>. QED
    BY <1>6, <2>1, <2>2, LineLives DEF DLine
<1>7. CASE DQuiet
  BY <1>7, RunLives DEF DQuiet, Run
<1>8. CASE DConnect
  BY <1>8, ConnectLives DEF DConnect
<1>9. CASE DDisconnect
  BY <1>9, DisconnectLives DEF DDisconnect
<1>10. CASE DApplySettings
  <2>1. UNCHANGED <<phase, copied, state>> /\ settings' \in SettingsSpace
    BY <1>10 DEF DApplySettings, AppliesSettings, procVars
  <2>. QED
    BY <2>1, LifeStays
<1>11. CASE DCloseAny
  <2>1. PICK c \in clients : DClose(c) \/ DCloseLast(c)
    BY <1>11 DEF DCloseAny
  <2>2. CASE UNCHANGED connVars /\ UNCHANGED daemonVars
    BY <1>1, <1>2, <2>2 DEF daemonVars
  <2>3. ASSUME NEW q, NEW after, Disconnect(q, after), UNCHANGED daemonVars PROVE LifeStep
    BY <2>3, DisconnectLives
  <2>. QED
    BY <2>1, <2>2, <2>3 DEF DClose, DCloseLast
<1>12. CASE DShutdownConnection
  BY <1>12, DisconnectLives DEF DShutdownConnection
<1>13. CASE DShutdownClients
  BY <1>2, <1>13, LifeStays DEF DShutdownClients, procVars, copyVars, daemonVars
<1>14. CASE DRefused \/ DNotifyChanges \/ DOpenAny \/ DTerminate
  BY <1>1, <1>2, <1>14 DEF DRefused, DNotifyChanges, DOpenAny, DOpen, DTerminate, daemonVars
<1>15. CASE DEnvironment
  <2>1. UNCHANGED settings /\ (Background \/ UNCHANGED connVars)
    BY <1>15 DEF DEnvironment, ClientAsks, ClientOpens, ClientCloses, Terminates, Becomes,
       Background, Arrive, SlowTimerFires, IntervalTimerFires, ProcessConnects, LineArrives,
       StaleErrorArrives, ProcessExits, daemonVars
  <2>. QED
    BY <1>1, <1>2, <2>1, BackgroundLives
<1>16. CASE DDead \/ UNCHANGED vars
  BY <1>1, <1>2, <1>16 DEF DDead, vars, connectionVars, daemonVars
<1>. QED
  BY <1>3, <1>4, <1>5, <1>6, <1>7, <1>8, <1>9, <1>10, <1>11, <1>12, <1>13, <1>14, <1>15, <1>16
  DEF DaemonNext, DRun

\* The Connection is that switch inside the daemon, too: neither a client that leaves, nor a
\* signal, nor a shutdown that takes several rounds launches a second process, changes the
\* settings of the one that runs, or shows DISCONNECTED while one that was up is still there.
THEOREM LifecycleInDaemon == DaemonSpec => LifecycleImplemented
<1>1. DaemonInit => Life!LifeInit
  BY LifeInitially DEF DaemonInit
<1>2. IInv /\ [DaemonNext]_vars => [Life!LifeNext]_(Life!lifeVars)
  BY DaemonLives DEF LifeStep
<1>. QED
  BY <1>1, <1>2, ConnectionInDaemon, PTL DEF DaemonSpec, LifecycleImplemented, Life!LifeSpec

-----------------------------------------------------------------------------
(* Types.                                                                  *)

\* The daemon's own variables.  Whoever is connected has been told a state.
OwnTypes ==
    /\ exiting \in BOOLEAN
    /\ clients \in SUBSET Clients
    /\ closing \in SUBSET clients
    /\ shouldConnect \in BOOLEAN
    /\ firewall \in FirewallModes
    /\ notify \in SUBSET Flags
    /\ notifyScheduled \in BOOLEAN
    /\ killswitch \in BOOLEAN
    /\ told \in [Clients -> View \cup {NoView}]
    /\ \A c \in clients : told[c] \in View

\* What is told is a view.
LEMMA TellView ==
    ASSUME IInv', exiting' \in BOOLEAN, shouldConnect' \in BOOLEAN
    PROVE  Shown' \in View /\ \A view \in View : \A flags : Tell(view, flags) \in View
<1>1. state' \in State /\ needsReconnect' \in BOOLEAN
  BY DEF IInv, TypeOK
<1>2. Shown' \in View
  BY <1>1 DEF Shown, View
<1>3. ASSUME NEW view \in View, NEW flags PROVE Tell(view, flags) \in View
  BY <1>2 DEF Tell, View
<1>. QED
  BY <1>2, <1>3

\* NotifyChanges keeps the types.
LEMMA NotifiedTypes ==
    ASSUME OwnTypes, IInv', NEW raised \in SUBSET Flags, NotifyChanges(raised),
           exiting' \in BOOLEAN, shouldConnect' \in BOOLEAN, clients' = clients,
           firewall' \in FirewallModes, closing' \in SUBSET clients
    PROVE  OwnTypes'
<1>1. CASE MustNotify(raised)
  <2>1. /\ notify' = RaisedByNotify(notify \cup raised)
        /\ notifyScheduled' = (RaisedByNotify(notify \cup raised) # {})
        /\ told' = [c \in Clients |-> IF c \in clients THEN Tell(told[c], notify \cup raised)
                                      ELSE told[c]]
        /\ killswitch' = IF (notify \cup raised) \cap FirewallFlags # {} THEN Engaged'
                         ELSE killswitch
    BY <1>1 DEF NotifyChanges
  <2>2. notify' \in SUBSET Flags /\ notifyScheduled' \in BOOLEAN
    BY <2>1 DEF RaisedByNotify, PingServersRaises, Flags, StateFlags
  <2>3. killswitch' \in BOOLEAN
    BY <2>1 DEF OwnTypes, Engaged
  <2>4. \A c \in clients : told'[c] \in View
    BY <2>1, TellView DEF OwnTypes
  <2>5. told' \in [Clients -> View \cup {NoView}]
    BY <2>1, TellView DEF OwnTypes
  <2>. QED
    BY <2>2, <2>3, <2>4, <2>5 DEF OwnTypes
<1>2. CASE ~MustNotify(raised)
  BY <1>2 DEF NotifyChanges, notifyVars, OwnTypes
<1>. QED
  BY <1>1, <1>2

\* What is only noted keeps them as well.
LEMMA NotedTypes ==
    ASSUME OwnTypes, NEW raised \in SUBSET Flags, Notify(raised)
    PROVE  notify' \in SUBSET Flags /\ notifyScheduled' \in BOOLEAN
BY DEF Notify, MustNotify, OwnTypes

LEMMA RaisedFlags ==
    /\ \A wanted : RaisedByConnection(wanted) \in SUBSET Flags
    /\ \A condition : \A flag \in Flags : Raised(condition, flag) \in SUBSET Flags
    /\ PingServersRaises \in SUBSET Flags /\ RaisedByAttempt \in SUBSET Flags
    /\ {"CONNECT", "STATE", "NEEDSRECONNECT", "DATA"} \in SUBSET Flags
    /\ DataFlags \in SUBSET Flags
BY DEF RaisedByConnection, Raised, PingServersRaises, RaisedByAttempt, Flags, StateFlags, DataFlags

\* Every handler keeps the types.
LEMMA TypeStep == ASSUME OwnTypes, IInv, IInv', [DaemonNext]_vars PROVE OwnTypes'
<1>0. state \in State /\ state' \in State /\ needsReconnect \in BOOLEAN
  BY DEF IInv, TypeOK
<1>1. CASE DDoConnect \/ DSlowTimeout \/ DExited \/ DLine
  <2>1. PICK extra \in SUBSET Flags : Listen(extra)
    BY <1>1, RaisedFlags DEF DDoConnect, DSlowTimeout, DExited, DLine
  <2>2. PICK raised \in SUBSET Flags : Notify(raised)
    BY <2>1, RaisedFlags DEF Listen
  <2>3. shouldConnect' \in BOOLEAN
    BY <2>1 DEF Listen
  <2>. QED
    BY <2>1, <2>2, <2>3, NotedTypes DEF Listen, clientVars, OwnTypes
<1>2. CASE DQuiet \/ DRefused \/ DDead \/ UNCHANGED vars
  BY <1>2 DEF DQuiet, DRefused, DDead, vars, ownVars, clientVars, notifyVars, OwnTypes
<1>3. CASE DConnect
  <2>1. PICK raised \in SUBSET Flags : NotifyChanges(raised)
    BY <1>3, RaisedFlags DEF DConnect
  <2>. QED
    BY <1>3, <2>1, NotifiedTypes DEF DConnect, OwnTypes
<1>4. CASE DDisconnect
  <2>1. PICK raised \in SUBSET Flags : NotifyChanges(raised)
    BY <1>4, RaisedFlags DEF DDisconnect
  <2>. QED
    BY <1>4, <2>1, NotifiedTypes DEF DDisconnect, SwitchOff, OwnTypes
<1>5. CASE DApplySettings
  <2>1. PICK raised \in SUBSET Flags : NotifyChanges(raised)
                                       \/ (Notify(raised) /\ UNCHANGED <<told, killswitch>>)
    BY <1>5, RaisedFlags DEF DApplySettings, AppliesSettings
  <2>2. firewall' \in FirewallModes /\ UNCHANGED <<exiting, clients, closing, shouldConnect>>
    BY <1>5 DEF DApplySettings, AppliesSettings
  <2>3. CASE NotifyChanges(raised)
    BY <2>2, <2>3, NotifiedTypes DEF OwnTypes
  <2>4. CASE Notify(raised) /\ UNCHANGED <<told, killswitch>>
    BY <2>2, <2>4, NotedTypes DEF OwnTypes
  <2>. QED
    BY <2>1, <2>3, <2>4
<1>6. CASE DNotifyChanges
  BY <1>6, NotifiedTypes DEF DNotifyChanges, OwnTypes
<1>7. CASE DTerminate
  <2>1. PICK raised \in SUBSET Flags : Notify(raised)
    BY <1>7, RaisedFlags DEF DTerminate
  <2>. QED
    BY <1>7, <2>1, NotedTypes DEF DTerminate, clientVars, OwnTypes
<1>8. ASSUME NEW c \in Clients \ clients, DOpen(c) PROVE OwnTypes'
  <2>1. PICK raised \in SUBSET Flags : Notify(raised)
    BY <1>8, RaisedFlags DEF DOpen
  <2>2. Shown' = Shown /\ Shown' \in View
    <3>1. exiting' = exiting /\ shouldConnect' = shouldConnect /\ state' = state
          /\ needsReconnect' = needsReconnect
      BY <1>8 DEF DOpen, connVars, daemonVars
    <3>. QED
      BY <3>1, TellView DEF Shown, OwnTypes
  <2>3. killswitch' \in BOOLEAN
    BY <1>8 DEF DOpen, KillswitchForClients, Engaged, OwnTypes
  <2>4. told' \in [Clients -> View \cup {NoView}] /\ \A d \in clients' : told'[d] \in View
    BY <1>8, <2>2 DEF DOpen, OwnTypes
  <2>. QED
    BY <1>8, <2>1, <2>3, <2>4, NotedTypes DEF DOpen, OwnTypes
<1>9. ASSUME NEW c \in clients, DClose(c) PROVE OwnTypes'
  BY <1>9 DEF DClose, Leave, notifyVars, OwnTypes
<1>10. ASSUME NEW c \in clients, DCloseLast(c) PROVE OwnTypes'
  <2>1. PICK raised \in SUBSET Flags : Notify(raised)
    BY <1>10, RaisedFlags DEF DCloseLast
  <2>2. killswitch' \in BOOLEAN
    BY <1>10 DEF DCloseLast, KillswitchForClients, Engaged, OwnTypes
  <2>. QED
    BY <1>10, <2>1, <2>2, NotedTypes DEF DCloseLast, Leave, SwitchOff, OwnTypes
<1>11. CASE DShutdownConnection
  <2>1. PICK raised \in SUBSET Flags : Notify(raised)
    BY <1>11, RaisedFlags DEF DShutdownConnection
  <2>. QED
    BY <1>11, <2>1, NotedTypes DEF DShutdownConnection, SwitchOff, clientVars, OwnTypes
<1>12. CASE DShutdownClients
  <2>1. PICK raised \in SUBSET Flags : NotifyChanges(raised)
    BY <1>12, RaisedFlags DEF DShutdownClients
  <2>. QED
    BY <1>12, <2>1, NotifiedTypes DEF DShutdownClients, SwitchOff, OwnTypes
<1>13. CASE DEnvironment
  BY <1>13 DEF DEnvironment, ClientAsks, ClientOpens, ClientCloses, Terminates, Becomes,
               ownVars, clientVars, notifyVars, OwnTypes
<1>. QED
  BY <1>1, <1>2, <1>3, <1>4, <1>5, <1>6, <1>7, <1>8, <1>9, <1>10, <1>11, <1>12, <1>13
     DEF DaemonNext, DRun, DOpenAny, DCloseAny

\* Every variable of the daemon and of its Connection keeps its type; a client is told
\* complete states only (MakeStateObject).
THEOREM DaemonTypeCorrect == DaemonSpec => []DaemonTypeOK
<1>1. DaemonInit => OwnTypes
  BY DaemonAssumption DEF DaemonInit, OwnTypes, Flags
<1>2. OwnTypes /\ IInv /\ IInv' /\ [DaemonNext]_vars => OwnTypes'
  BY TypeStep
<1>3. OwnTypes /\ IInv => DaemonTypeOK
  BY DEF OwnTypes, IInv, DaemonTypeOK
<1>. QED
  BY <1>1, <1>2, <1>3, ConnectionInDaemon, PTL DEF DaemonSpec
=============================================================================
