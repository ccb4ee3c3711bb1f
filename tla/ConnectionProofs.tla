--------------------------- MODULE ConnectionProofs ---------------------------
(***************************************************************************)
(* Proofs about Connection, for every SettingsSpace, MaxAttempts and        *)
(* MaxRequests.                                                             *)
(***************************************************************************)
EXTENDS Connection, SequenceTheorems, TLAPS

-----------------------------------------------------------------------------
(* The handler queue.                                                      *)

\* Popping the head keeps every other handler queued (the loop of io_service).
LEMMA HasTail ==
    ASSUME NEW S, NEW q \in Seq(S), q # <<>>, NEW h
    PROVE  /\ Tail(q) \in Seq(S)
           /\ Head(q) \in S
           /\ Has(Tail(q), h) => Has(q, h)
           /\ Head(q) # h /\ Has(q, h) => Has(Tail(q), h)
<1>1. /\ Tail(q) \in Seq(S)
      /\ Head(q) = q[1]
      /\ Len(Tail(q)) = Len(q) - 1
      /\ \A i \in 1..Len(Tail(q)) : Tail(q)[i] = q[i + 1]
  BY HeadTailProperties
<1>2. /\ DOMAIN q = 1..Len(q)
      /\ DOMAIN Tail(q) = 1..Len(Tail(q))
      /\ Len(q) \in Nat \ {0}
  BY <1>1, LenProperties, EmptySeq
<1>3. Head(q) \in S
  BY <1>1, <1>2, ElementOfSeq
<1>4. ASSUME Has(Tail(q), h) PROVE Has(q, h)
  <2>1. PICK i \in DOMAIN Tail(q) : Tail(q)[i] = h
    BY <1>4 DEF Has
  <2>2. i + 1 \in DOMAIN q /\ q[i + 1] = h
    BY <2>1, <1>1, <1>2
  <2>. QED
    BY <2>2 DEF Has
<1>5. ASSUME Head(q) # h, Has(q, h) PROVE Has(Tail(q), h)
  <2>1. PICK i \in DOMAIN q : q[i] = h
    BY <1>5 DEF Has
  <2>2. i # 1
    BY <2>1, <1>5, <1>1
  <2>3. i - 1 \in DOMAIN Tail(q) /\ Tail(q)[i - 1] = h
    BY <2>1, <2>2, <1>1, <1>2
  <2>. QED
    BY <2>3 DEF Has
<1>. QED
  BY <1>1, <1>3, <1>4, <1>5

\* Posting to the end (_io.post) keeps what is queued.
LEMMA HasConcat ==
    ASSUME NEW S, NEW p \in Seq(S), NEW q \in Seq(S), NEW h
    PROVE  /\ p \o q \in Seq(S)
           /\ Has(p \o q, h) <=> Has(p, h) \/ Has(q, h)
<1>1. /\ p \o q \in Seq(S)
      /\ Len(p \o q) = Len(p) + Len(q)
      /\ \A i \in 1..Len(p) + Len(q) :
            (p \o q)[i] = IF i <= Len(p) THEN p[i] ELSE q[i - Len(p)]
  BY ConcatProperties
<1>2. /\ Len(p) \in Nat /\ DOMAIN p = 1..Len(p)
      /\ Len(q) \in Nat /\ DOMAIN q = 1..Len(q)
      /\ DOMAIN (p \o q) = 1..Len(p \o q)
  BY <1>1, LenProperties
<1>3. ASSUME Has(p \o q, h) PROVE Has(p, h) \/ Has(q, h)
  <2>1. PICK i \in 1..Len(p) + Len(q) : (p \o q)[i] = h
    BY <1>3, <1>1, <1>2 DEF Has
  <2>2. CASE i <= Len(p)
    <3>1. i \in DOMAIN p /\ p[i] = h
      BY <2>1, <2>2, <1>1, <1>2
    <3>. QED
      BY <3>1 DEF Has
  <2>3. CASE ~ (i <= Len(p))
    <3>1. i - Len(p) \in DOMAIN q /\ q[i - Len(p)] = h
      BY <2>1, <2>3, <1>1, <1>2
    <3>. QED
      BY <3>1 DEF Has
  <2>. QED
    BY <2>2, <2>3
<1>4. ASSUME Has(p, h) PROVE Has(p \o q, h)
  <2>1. PICK i \in DOMAIN p : p[i] = h
    BY <1>4 DEF Has
  <2>2. i \in DOMAIN (p \o q) /\ (p \o q)[i] = h
    BY <2>1, <1>1, <1>2
  <2>. QED
    BY <2>2 DEF Has
<1>5. ASSUME Has(q, h) PROVE Has(p \o q, h)
  <2>1. PICK i \in DOMAIN q : q[i] = h
    BY <1>5 DEF Has
  <2>2. i + Len(p) \in DOMAIN (p \o q) /\ (p \o q)[i + Len(p)] = h
    <3>1. i + Len(p) \in 1..Len(p) + Len(q) /\ ~ (i + Len(p) <= Len(p))
      BY <2>1, <1>2
    <3>2. (i + Len(p)) - Len(p) = i
      BY <2>1, <1>2
    <3>. QED
      BY <2>1, <3>1, <3>2, <1>1, <1>2
  <2>. QED
    BY <2>2 DEF Has
<1>. QED
  BY <1>1, <1>3, <1>4, <1>5

\* The sequences that the handlers post.
LEMMA HasPosted ==
    ASSUME NEW S, NEW x \in S, NEW h
    PROVE  /\ <<>> \in Seq(S)
           /\ ~ Has(<<>>, h)
           /\ <<x>> \in Seq(S)
           /\ Has(<<x>>, h) <=> x = h
<1>1. <<>> \in Seq(S) /\ DOMAIN <<>> = {}
  BY EmptySeq
<1>2. <<x>> \in Seq(S) /\ DOMAIN <<x>> = {1} /\ <<x>>[1] = x
  OBVIOUS
<1>. QED
  BY <1>1, <1>2 DEF Has

\* A handler that becomes ready is appended (Append of the environment's actions).
LEMMA HasAppend ==
    ASSUME NEW S, NEW q \in Seq(S), NEW x \in S, NEW h
    PROVE  /\ Append(q, x) \in Seq(S)
           /\ Has(Append(q, x), h) <=> Has(q, h) \/ x = h
<1>1. Append(q, x) = q \o <<x>>
  BY AppendIsConcat
<1>2. <<x>> \in Seq(S) /\ (Has(<<x>>, h) <=> x = h)
  BY HasPosted
<1>3. q \o <<x>> \in Seq(S) /\ (Has(q \o <<x>>, h) <=> Has(q, h) \/ Has(<<x>>, h))
  BY <1>2, HasConcat
<1>. QED
  BY <1>1, <1>2, <1>3

\* Discard touches the handlers of the current process only.
LEMMA HasDiscard ==
    ASSUME NEW q \in Seq(Handlers)
    PROVE  /\ Discard(q) \in Seq(Handlers)
           /\ Has(Discard(q), "DoConnect") <=> Has(q, "DoConnect")
           /\ \A h \in Lines \cup {"Accept"} : ~ Has(Discard(q), h)
<1>1. Len(q) \in Nat /\ DOMAIN q = 1..Len(q) /\ \A i \in DOMAIN q : q[i] \in Handlers
  BY LenProperties, ElementOfSeq
<1>2. DOMAIN Discard(q) = DOMAIN q
  BY DEF Discard
<1>3. \A i \in DOMAIN q : /\ Discard(q)[i] \in Handlers
                          /\ Discard(q)[i] \notin Lines \cup {"Accept"}
                          /\ Discard(q)[i] = "DoConnect" <=> q[i] = "DoConnect"
  BY <1>1 DEF Discard, Handlers, Lines, Requests
<1>4. Discard(q) \in Seq(Handlers)
  <2>1. Discard(q) \in [1..Len(q) -> Handlers]
    BY <1>1, <1>3 DEF Discard
  <2>. QED
    BY <2>1, <1>1, SeqDef
<1>. QED
  BY <1>2, <1>3, <1>4 DEF Has

-----------------------------------------------------------------------------
(* What a handler does to the queue, as far as the invariant is concerned.  *)

\* Handlers of the current process.
ProcessHandlers == Lines \cup {"Accept"}

\* What is left of the queue while one of its handlers runs.
Rest(q) ==
    /\ q \in Seq(Handlers)
    /\ \A h \in ProcessHandlers : Has(q, h) => Has(queue, h)

\* Neither the Connection nor its listener posts handlers of the process.
Quiet(posts) ==
    /\ posts \in Seq(Handlers)
    /\ \A h \in ProcessHandlers : ~ Has(posts, h)

\* Posting to the rest of the queue keeps it free of handlers of another process.
LEMMA RestPosts ==
    ASSUME NEW q, NEW a, Rest(q), Quiet(a)
    PROVE  /\ Rest(q \o a)
           /\ Quiet(q) => Quiet(q \o a)
           /\ Has(q \o a, "DoConnect") <=> Has(q, "DoConnect") \/ Has(a, "DoConnect")
<1>1. q \in Seq(Handlers) /\ a \in Seq(Handlers)
  BY DEF Rest, Quiet
<1>2. q \o a \in Seq(Handlers) /\ \A h : Has(q \o a, h) <=> Has(q, h) \/ Has(a, h)
  BY <1>1, HasConcat
<1>. QED
  BY <1>2 DEF Rest, Quiet

\* What Connection itself posts.
LEMMA QuietPosts ==
    ASSUME NEW cancelled
    PROVE  /\ Quiet(<<>>) /\ ~ Has(<<>>, "DoConnect")
           /\ Quiet(<<"DoConnect">>) /\ Has(<<"DoConnect">>, "DoConnect")
           /\ Quiet(Aborted(cancelled))
           /\ Quiet(PostIfNoProcess)
           /\ phase = "none" => Has(PostIfNoProcess, "DoConnect")
<1>1. /\ "SlowTimeout" \in Handlers /\ "SlowTimeout" \notin ProcessHandlers
      /\ "DoConnect" \in Handlers /\ "DoConnect" \notin ProcessHandlers
  BY DEF Handlers, ProcessHandlers, Lines
<1>2. Quiet(<<>>) /\ ~ Has(<<>>, "DoConnect")
  <2>1. <<>> \in Seq(Handlers) /\ \A h : ~ Has(<<>>, h)
    BY <1>1, HasPosted
  <2>. QED
    BY <2>1 DEF Quiet
<1>3. Quiet(<<"DoConnect">>) /\ Has(<<"DoConnect">>, "DoConnect")
  <2>1. <<"DoConnect">> \in Seq(Handlers) /\ \A h : Has(<<"DoConnect">>, h) <=> "DoConnect" = h
    BY <1>1, HasPosted
  <2>. QED
    BY <2>1, <1>1 DEF Quiet
<1>4. Quiet(<<"SlowTimeout">>)
  <2>1. /\ <<"SlowTimeout">> \in Seq(Handlers)
        /\ \A h : Has(<<"SlowTimeout">>, h) <=> "SlowTimeout" = h
    BY <1>1, HasPosted
  <2>. QED
    BY <2>1, <1>1 DEF Quiet
<1>5. Aborted(cancelled) = <<>> \/ Aborted(cancelled) = <<"SlowTimeout">>
  BY DEF Aborted
<1>6. PostIfNoProcess = IF phase = "none" THEN <<"DoConnect">> ELSE <<>>
  BY DEF PostIfNoProcess
<1>7. Quiet(PostIfNoProcess) /\ (phase = "none" => Has(PostIfNoProcess, "DoConnect"))
  <2>1. CASE phase = "none"
    BY <2>1, <1>3, <1>6
  <2>2. CASE phase # "none"
    BY <2>2, <1>2, <1>6
  <2>. QED
    BY <2>1, <2>2
<1>8. Quiet(Aborted(cancelled))
  BY <1>2, <1>4, <1>5
<1>. QED
  BY <1>2, <1>3, <1>7, <1>8

-----------------------------------------------------------------------------
(* Each operation and handler preserves the invariant, whatever else is in the *)
(* queue and whatever the listener posts.                                      *)

\* Every other handler pops itself and leaves every DoConnect queued.
Popped(q) == Rest(q) /\ (Has(queue, "DoConnect") => Has(q, "DoConnect"))

\* The queue's part of the invariant, while the Connection stays as it is.
LEMMA QueueKeeps ==
    ASSUME IInv, Popped(queue'), loop' \in {loop, "stopped"},
           state' = state, phase' = phase, ovpn' = ovpn, intervalTimer' = intervalTimer
    PROVE  NoStall' /\ ProcessTracked'
<1>1. NoStall /\ ProcessTracked
  BY DEF IInv
<1>2. Has(queue, "DoConnect") => Has(queue', "DoConnect")
  BY DEF Popped
<1>3. NoStall'
  BY <1>1, <1>2 DEF NoStall
<1>4. \A h \in Lines \cup {"Accept"} : Has(queue', h) => Has(queue, h)
  BY DEF Popped, Rest, ProcessHandlers
<1>5. ProcessTracked'
  BY <1>1, <1>4 DEF ProcessTracked, ManagementOpen
<1>. QED
  BY <1>3, <1>5

\* What is left of the queue is still that of a process which is there.
LEMMA TrackedKeeps ==
    ASSUME IInv, Rest(queue'), phase' = phase, ovpn' = ovpn \/ ManagementOpen
    PROVE  ProcessTracked'
<1>1. ManagementOpen' = ManagementOpen
  BY DEF ManagementOpen
<1>2. ProcessTracked
  BY DEF IInv
<1>3. \A h \in Lines \cup {"Accept"} : Has(queue', h) => Has(queue, h)
  BY DEF Rest, ProcessHandlers
<1>. QED
  BY <1>1, <1>2, <1>3 DEF ProcessTracked

\* What SetState leaves behind.
LEMMA SetStateEffect ==
    ASSUME IInv, NEW new \in State, SetState(new)
    PROVE  /\ state' = new
           /\ attempts' \in 0..(MaxAttempts + 1)
           /\ slowTimer' \in BOOLEAN /\ intervalTimer' \in BOOLEAN
           /\ slowTimer' => slowTimer /\ new \notin Resting
           /\ intervalTimer' => intervalTimer /\ new \notin Resting
<1>1. state' = new /\ attempts' \in 0..(MaxAttempts + 1)
  BY ConnectionAssumption DEF SetState, IInv, TypeOK
<1>2. slowTimer' \in BOOLEAN /\ intervalTimer' \in BOOLEAN
  BY DEF SetState
<1>3. slowTimer \/ intervalTimer => state \notin Resting
  BY DEF IInv, TimersDisarmed, Retrying, Resting
<1>4. (slowTimer' => slowTimer /\ ~Resets(new)) /\ (intervalTimer' => intervalTimer /\ ~Resets(new))
  BY DEF SetState
<1>5. ~Resets(new) => new = state \/ new \notin Resting
  BY DEF Resets
<1>. QED
  BY <1>1, <1>2, <1>3, <1>4, <1>5

\* OpenVPNProcess::Shutdown leaves the process where it is.
LEMMA ShutdownEffect ==
    ASSUME IInv, NEW condition, ShutdownIf(condition)
    PROVE  phase' = phase /\ exited' = exited /\ signaled' \in BOOLEAN /\ sigterm' \in BOOLEAN
<1>1. CASE condition
  BY <1>1 DEF ShutdownIf, Shutdown, ManagementOpen, IInv, TypeOK
<1>2. CASE ~condition
  BY <1>2 DEF ShutdownIf, procVars, IInv, TypeOK
<1>. QED
  BY <1>1, <1>2

\* Connection::Connect keeps the invariant.
LEMMA ConnectInv ==
    ASSUME IInv, NEW q, NEW after, NEW force \in BOOLEAN,
           Rest(q), Has(queue, "DoConnect") => Has(q, "DoConnect"), Quiet(after),
           Connect(force, q, after), UNCHANGED settings, needsReconnect' = FALSE
    PROVE  IInv'
<1>1. CASE /\ ConnectUnneeded(force)
           /\ queue' = q \o after
           /\ UNCHANGED <<state, attempts, timerVars, procVars>>
  <2>1. Popped(queue')
    BY <1>1, RestPosts DEF Popped
  <2>2. /\ UNCHANGED <<state, ovpn, attempts, timerVars, procVars, staleReader, loop, settings>>
        /\ UNCHANGED copied /\ connNeedsReconnect' \in BOOLEAN
    BY <1>1 DEF Connect, copyVars, NeedsReconnect, IInv, TypeOK
  <2>3. TypeOK'
    BY <2>1, <2>2 DEF IInv, TypeOK, Popped, Rest, timerVars, procVars
  <2>4. NoStall' /\ ProcessTracked'
    BY <2>1, <2>2, QueueKeeps DEF timerVars, procVars
  <2>5. DisconnectingHasProcess' /\ TimersDisarmed' /\ ConnectedIsUp'
    BY <2>2 DEF IInv, DisconnectingHasProcess, TimersDisarmed, ConnectedIsUp, timerVars, procVars
  <2>. QED
    BY <2>3, <2>4, <2>5 DEF IInv, FlagsAgree
<1>2. CASE /\ state \in Retriable \cup {"DISCONNECTING"}
           /\ SetState("DISCONNECTING_TO_RECONNECT")
           /\ ShutdownOrPost
           /\ queue' = q \o Aborted(TRUE) \o PostIfNoProcess \o after
  <2>1. Rest(q \o Aborted(TRUE) \o PostIfNoProcess)
    BY QuietPosts, RestPosts
  <2>2. phase = "none" => Has(q \o Aborted(TRUE) \o PostIfNoProcess, "DoConnect")
    <3>1. Rest(q \o Aborted(TRUE))
      BY QuietPosts, RestPosts
    <3>. QED
      BY <3>1, QuietPosts, RestPosts
  <2>3. Rest(queue') /\ (phase = "none" => Has(queue', "DoConnect"))
    BY <2>1, <2>2, <1>2, RestPosts
  <2>4. phase' = phase /\ exited' = exited /\ signaled' \in BOOLEAN /\ sigterm' \in BOOLEAN
    BY <1>2, ShutdownEffect DEF ShutdownOrPost
  <2>5. /\ state' = "DISCONNECTING_TO_RECONNECT" /\ attempts' \in 0..(MaxAttempts + 1)
        /\ slowTimer' = FALSE /\ intervalTimer' = FALSE
    BY <1>2, SetStateEffect DEF State, Resting
  <2>6. connNeedsReconnect' \in BOOLEAN
    BY DEF Connect, NeedsReconnect, IInv, TypeOK
  <2>. QED
    BY <2>3, <2>4, <2>5, <2>6 DEF Connect, State, Retrying, Rest, ProcessHandlers, IInv, TypeOK,
       NoStall, DisconnectingHasProcess, TimersDisarmed, ConnectedIsUp, FlagsAgree, ProcessTracked,
       ManagementOpen
<1>3. CASE /\ state = "INTERRUPTED"
           /\ ShutdownOrPost
           /\ queue' = q \o PostIfNoProcess \o after
           /\ UNCHANGED <<state, attempts, timerVars>>
  <2>1. /\ Rest(q \o PostIfNoProcess)
        /\ Has(queue, "DoConnect") => Has(q \o PostIfNoProcess, "DoConnect")
    BY QuietPosts, RestPosts
  <2>2. Rest(queue') /\ (Has(queue, "DoConnect") => Has(queue', "DoConnect"))
    BY <2>1, <1>3, RestPosts
  <2>3. phase' = phase /\ exited' = exited /\ signaled' \in BOOLEAN /\ sigterm' \in BOOLEAN
    BY <1>3, ShutdownEffect DEF ShutdownOrPost
  <2>4. connNeedsReconnect' = connNeedsReconnect
    BY <1>3 DEF Connect, Retriable
  <2>. QED
    BY <2>2, <2>3, <2>4, <1>3 DEF Connect, Retrying, Rest, ProcessHandlers, IInv, TypeOK,
       NoStall, DisconnectingHasProcess, TimersDisarmed, ConnectedIsUp, FlagsAgree, ProcessTracked,
       ManagementOpen, timerVars
<1>4. CASE /\ state \in {"DISCONNECTED", "DISCONNECTING_TO_RECONNECT"}
           /\ SetState("CONNECTING")
           /\ queue' = q \o <<"DoConnect">> \o after
           /\ UNCHANGED procVars
  <2>1. Rest(q \o <<"DoConnect">>) /\ Has(q \o <<"DoConnect">>, "DoConnect")
    BY QuietPosts, RestPosts
  <2>2. Rest(queue') /\ Has(queue', "DoConnect")
    BY <2>1, <1>4, RestPosts
  <2>3. /\ state' = "CONNECTING" /\ attempts' \in 0..(MaxAttempts + 1)
        /\ slowTimer' \in BOOLEAN /\ (slowTimer' => slowTimer)
        /\ intervalTimer' \in BOOLEAN /\ (intervalTimer' => intervalTimer)
    BY <1>4, SetStateEffect DEF State
  <2>4. connNeedsReconnect' = connNeedsReconnect
    BY <1>4 DEF Connect, Retriable
  <2>5. ProcessTracked'
    BY <2>2, <1>4, TrackedKeeps DEF Connect, procVars
  <2>. QED
    BY <2>2, <2>3, <2>4, <2>5, <1>4 DEF Connect, State, Retrying, Rest, IInv, TypeOK, NoStall,
       DisconnectingHasProcess, TimersDisarmed, ConnectedIsUp, FlagsAgree, procVars
<1>. QED
  BY <1>1, <1>2, <1>3, <1>4 DEF Connect

\* Connection::Disconnect keeps the invariant.
LEMMA DisconnectInv ==
    ASSUME IInv, NEW q, NEW after,
           Rest(q), Has(queue, "DoConnect") => Has(q, "DoConnect"), Quiet(after),
           Disconnect(q, after), UNCHANGED daemonVars
    PROVE  IInv'
<1>1. CASE /\ state = "DISCONNECTED"
           /\ queue' = q \o after
           /\ UNCHANGED <<state, attempts, timerVars, procVars>>
  <2>1. Rest(queue')
    BY <1>1, RestPosts
  <2>. QED
    BY <2>1, <1>1 DEF Disconnect, Retrying, Rest, ProcessHandlers, IInv, TypeOK, NoStall,
       DisconnectingHasProcess, TimersDisarmed, ConnectedIsUp, FlagsAgree, ProcessTracked,
       ManagementOpen, timerVars, procVars, copyVars, daemonVars
<1>2. CASE /\ state # "DISCONNECTED"
           /\ SetState(StateAfterDisconnect)
           /\ ShutdownIf(phase # "none" /\ ovpn \notin {"EXITING", "EXITED"})
           /\ queue' = q \o Aborted(Resets(state')) \o after
  <2>1. Rest(q \o Aborted(Resets(state')))
    BY QuietPosts, RestPosts
  <2>2. Rest(queue')
    BY <2>1, <1>2, RestPosts
  <2>3. phase' = phase /\ exited' = exited /\ signaled' \in BOOLEAN /\ sigterm' \in BOOLEAN
    BY <1>2, ShutdownEffect
  <2>4. /\ state' = IF ovpn = "EXITED" THEN "DISCONNECTED" ELSE "DISCONNECTING"
        /\ attempts' \in 0..(MaxAttempts + 1)
        /\ slowTimer' = FALSE /\ intervalTimer' = FALSE
    BY <1>2, SetStateEffect DEF StateAfterDisconnect, State, Resting
  <2>5. ProcessTracked'
    BY <2>2, <2>3, TrackedKeeps DEF Disconnect
  <2>6. ovpn # "EXITED" => phase # "none"
    BY DEF IInv, ProcessTracked, ManagementOpen
  <2>. QED
    BY <2>2, <2>3, <2>4, <2>5, <2>6 DEF Disconnect, State, Retrying, Rest, IInv, TypeOK, NoStall,
       DisconnectingHasProcess, TimersDisarmed, ConnectedIsUp, FlagsAgree, copyVars, daemonVars
<1>. QED
  BY <1>1, <1>2 DEF Disconnect

\* DoConnect keeps the invariant, whether it gives up, throws or launches OpenVPN.
LEMMA DoConnectInv ==
    ASSUME IInv, NEW q, NEW after, NEW launched \in BOOLEAN,
           Rest(q), Quiet(after), DoConnect(launched, q, after), UNCHANGED settings
    PROVE  IInv'
<1>1. StateToConnect \in State /\ AttemptsToConnect \in 0..(MaxAttempts + 1)
  BY ConnectionAssumption DEF StateToConnect, AttemptsToConnect, State, IInv, TypeOK
<1>2. CASE /\ state \in {"CONNECTED", "DISCONNECTING"}
           /\ queue' = q \o after
           /\ UNCHANGED <<state, attempts, timerVars, copyVars, procVars, needsReconnect, loop>>
  <2>1. Rest(queue')
    BY <1>2, RestPosts
  <2>. QED
    BY <2>1, <1>2 DEF DoConnect, Retrying, Rest, ProcessHandlers, IInv, TypeOK, NoStall,
       DisconnectingHasProcess, TimersDisarmed, ConnectedIsUp, FlagsAgree, ProcessTracked,
       ManagementOpen, timerVars, procVars, copyVars
<1>3. CASE /\ state \notin {"CONNECTED", "DISCONNECTING"}
           /\ phase # "none"
           /\ state' = StateToConnect
           /\ attempts' = AttemptsToConnect
           /\ queue' = q \o after
           /\ UNCHANGED <<timerVars, copyVars, procVars, needsReconnect, loop>>
  <2>1. Rest(queue')
    BY <1>3, RestPosts
  <2>2. state' \notin {"CONNECTED", "DISCONNECTING"} /\ (state \in Retrying => state' = state)
    BY <1>3 DEF StateToConnect, Retrying
  <2>. QED
    BY <1>1, <2>1, <2>2, <1>3 DEF DoConnect, Rest, ProcessHandlers, IInv, TypeOK, NoStall,
       DisconnectingHasProcess, TimersDisarmed, ConnectedIsUp, FlagsAgree, ProcessTracked,
       ManagementOpen, timerVars, procVars, copyVars
<1>4. CASE /\ state \notin {"CONNECTED", "DISCONNECTING"}
           /\ phase = "none"
           /\ state' = StateToConnect
           /\ attempts' = AttemptsToConnect
           /\ loop' = "threw"
           /\ queue' = q \o after
           /\ UNCHANGED <<timerVars, copyVars, procVars, needsReconnect>>
  <2>1. Rest(queue')
    BY <1>4, RestPosts
  <2>2. state' \notin {"CONNECTED", "DISCONNECTING"} /\ (state \in Retrying => state' = state)
    BY <1>4 DEF StateToConnect, Retrying
  <2>. QED
    BY <1>1, <2>1, <2>2, <1>4 DEF DoConnect, Rest, ProcessHandlers, IInv, TypeOK, NoStall,
       DisconnectingHasProcess, TimersDisarmed, ConnectedIsUp, FlagsAgree, ProcessTracked,
       ManagementOpen, timerVars, procVars, copyVars
<1>5. CASE /\ state \notin {"CONNECTED", "DISCONNECTING"}
           /\ phase = "none"
           /\ LaunchProcess(launched, q, after)
  <2>1. PICK restart \in BOOLEAN :
             /\ queue' = q \o Aborted(restart) \o after
             /\ slowTimer' = (slowTimer \/ restart)
             /\ restart => StateToConnect \in {"CONNECTING", "RECONNECTING"}
    BY <1>5 DEF LaunchProcess
  <2>2. Rest(queue') /\ \A h \in ProcessHandlers : ~ Has(queue, h)
    <3>1. Rest(q \o Aborted(restart))
      BY QuietPosts, RestPosts
    <3>2. Rest(queue')
      BY <2>1, <3>1, RestPosts
    <3>. QED
      BY <3>2, <1>5 DEF IInv, ProcessTracked, ManagementOpen, ProcessHandlers
  <2>3. PICK first \in 0..(MaxAttempts + 1) :
             /\ attempts' = Increment(first)
             /\ state' = SlowState(StateToConnect, Increment(first))
    BY <1>1, <1>5, ConnectionAssumption DEF LaunchProcess
  <2>4. attempts' \in 0..(MaxAttempts + 1)
    BY <2>3, ConnectionAssumption DEF Increment
  <2>5. StateToConnect \in Retrying
    BY <1>5 DEF StateToConnect, State, Retrying, IInv, TypeOK
  <2>6. state' \in Retrying
    BY <2>3, <2>5 DEF SlowState, Retrying
  <2>7. copied' \in CopySpace
    <3>1. settings \in SettingsSpace /\ settings.cypherplay \in BOOLEAN
      BY ConnectionAssumption DEF IInv, TypeOK
    <3>2. CopyOf(settings) \in CopySpace
      BY <3>1 DEF CopyOf, CopySpace
    <3>. QED
      BY <3>2, <1>5 DEF LaunchProcess
  <2>. QED
    BY <2>1, <2>2, <2>4, <2>6, <2>7, <1>5 DEF DoConnect, LaunchProcess, OnConnectionAttempt, State,
       Phase, Retrying, Rest, ProcessHandlers, IInv, TypeOK, NoStall, DisconnectingHasProcess,
       TimersDisarmed, ConnectedIsUp, FlagsAgree, ProcessTracked,
       ManagementOpen
<1>. QED
  BY <1>2, <1>3, <1>4, <1>5 DEF DoConnect, AlreadyRunning

\* OnSlowConnectionTimeout keeps the invariant, whether the wait ended or was cancelled.
LEMMA SlowTimeoutInv ==
    ASSUME IInv, NEW q, NEW after, Popped(q), Quiet(after),
           OnSlowConnectionTimeout(q, after), UNCHANGED daemonVars
    PROVE  IInv'
<1>1. Rest(queue') /\ (Has(queue, "DoConnect") => Has(queue', "DoConnect"))
  BY RestPosts DEF OnSlowConnectionTimeout, Popped
<1>2. /\ state' \in State
      /\ state \in Retrying <=> state' \in Retrying
      /\ state \notin Retrying => state' = state
  BY DEF OnSlowConnectionTimeout, State, Retrying, IInv, TypeOK
<1>. QED
  BY <1>1, <1>2 DEF OnSlowConnectionTimeout, Retrying, Rest, ProcessHandlers, IInv, TypeOK,
     NoStall, DisconnectingHasProcess, TimersDisarmed, ConnectedIsUp, FlagsAgree, ProcessTracked,
     ManagementOpen, timerVars, procVars, copyVars, daemonVars

\* The accept handler keeps the invariant.
LEMMA AcceptInv ==
    ASSUME IInv, NEW q, Popped(q), phase # "none", OnManagementAccepted(q), UNCHANGED daemonVars
    PROVE  IInv'
BY DEF OnManagementAccepted, Popped, Rest, ProcessHandlers, Phase, IInv, TypeOK, NoStall,
   DisconnectingHasProcess, TimersDisarmed, ConnectedIsUp, FlagsAgree, ProcessTracked,
   ManagementOpen, timerVars, copyVars, daemonVars

\* The exit of the process keeps the invariant: every state that wants a connection gets
\* a DoConnect or the interval timer.
LEMMA ExitedInv ==
    ASSUME IInv, NEW q, NEW after, NEW early \in BOOLEAN, Popped(q), Quiet(after),
           OnOpenVPNExited(early, q, after), UNCHANGED daemonVars
    PROVE  IInv'
<1> DEFINE retry == IF state = "CONNECTED" \/ (Schedules /\ ~early) THEN <<"DoConnect">> ELSE <<>>
<1>1. /\ Quiet(retry)
      /\ Has(retry, "DoConnect") <=> state = "CONNECTED" \/ (Schedules /\ ~early)
  BY QuietPosts
<1>2. queue' = Discard(q) \o Aborted(Resets(StateAfterExit)) \o retry \o after
  BY DEF OnOpenVPNExited
<1>3. Quiet(queue') /\ (Has(retry, "DoConnect") => Has(queue', "DoConnect"))
  <2>1. Rest(Discard(q)) /\ Quiet(Discard(q))
    BY HasDiscard DEF Popped, Rest, Quiet, ProcessHandlers
  <2>2. /\ Rest(Discard(q) \o Aborted(Resets(StateAfterExit)))
        /\ Quiet(Discard(q) \o Aborted(Resets(StateAfterExit)))
    BY <2>1, QuietPosts, RestPosts
  <2>3. /\ Rest(Discard(q) \o Aborted(Resets(StateAfterExit)) \o retry)
        /\ Quiet(Discard(q) \o Aborted(Resets(StateAfterExit)) \o retry)
        /\ Has(retry, "DoConnect")
             => Has(Discard(q) \o Aborted(Resets(StateAfterExit)) \o retry, "DoConnect")
    BY <2>2, <1>1, RestPosts
  <2>. QED
    BY <2>3, <1>2, RestPosts
<1>4. /\ StateAfterExit \in State
      /\ StateAfterExit \notin {"CONNECTED", "DISCONNECTING"}
      /\ StateAfterExit \in Retrying \cup {"INTERRUPTED", "DISCONNECTING_TO_RECONNECT"}
           => state \notin {"DISCONNECTING", "DISCONNECTED"}
      /\ Schedules => StateAfterExit \in Retrying
      /\ slowTimer \/ intervalTimer => StateAfterExit \in Retrying
  BY DEF StateAfterExit, Schedules, State, Retrying, IInv, TypeOK, TimersDisarmed
<1>5. /\ attempts' \in 0..(MaxAttempts + 1)
      /\ slowTimer' \in BOOLEAN /\ (slowTimer' => slowTimer)
      /\ intervalTimer' \in BOOLEAN
      /\ intervalTimer' => (Schedules /\ early) \/ intervalTimer
      /\ Schedules /\ early => intervalTimer'
  BY ConnectionAssumption DEF OnOpenVPNExited, IInv, TypeOK
<1>6. NoStall'
  <2>1. ASSUME state' \in Retrying \cup {"INTERRUPTED", "DISCONNECTING_TO_RECONNECT"}
        PROVE  intervalTimer' \/ Has(queue', "DoConnect")
    BY <2>1, <1>1, <1>3, <1>4, <1>5 DEF OnOpenVPNExited, Schedules
  <2>. QED
    BY <2>1 DEF NoStall
<1>7. staleReader' \in BOOLEAN
  BY DEF OnOpenVPNExited
<1>. QED
  BY <1>3, <1>4, <1>5, <1>6, <1>7 DEF OnOpenVPNExited, OpenVPNState, Phase, Quiet, ProcessHandlers,
     IInv, TypeOK, DisconnectingHasProcess, TimersDisarmed, ConnectedIsUp, FlagsAgree,
     ProcessTracked, ManagementOpen, copyVars, daemonVars

\* The line CONNECTED keeps the invariant.
LEMMA OpenVPNConnectedInv ==
    ASSUME IInv, NEW q, NEW after, Popped(q), Quiet(after), ManagementOpen,
           OnOpenVPNConnected(q, after), UNCHANGED daemonVars
    PROVE  IInv'
<1>1. CASE /\ state \in {"DISCONNECTING", "DISCONNECTED"}
           /\ Shutdown
           /\ queue' = q \o after
           /\ UNCHANGED <<state, attempts, timerVars>>
  <2>1. Rest(queue')
    BY <1>1, RestPosts DEF Popped
  <2>2. phase' = phase /\ exited' = exited /\ signaled' \in BOOLEAN /\ sigterm' \in BOOLEAN
    BY <1>1, ShutdownEffect DEF ShutdownIf
  <2>3. ProcessTracked'
    BY <2>1, <2>2, TrackedKeeps
  <2>4. phase # "none" /\ ovpn' = "CONNECTED" /\ state' = state
    BY <1>1 DEF OnOpenVPNConnected, ManagementOpen
  <2>5. NoStall' /\ DisconnectingHasProcess' /\ ConnectedIsUp'
    BY <2>2, <2>4 DEF NoStall, DisconnectingHasProcess, ConnectedIsUp
  <2>6. TypeOK' /\ TimersDisarmed' /\ FlagsAgree'
    BY <2>1, <2>2, <2>4, <1>1 DEF OnOpenVPNConnected, OpenVPNState, Rest, IInv, TypeOK,
       TimersDisarmed, FlagsAgree, timerVars, copyVars, daemonVars
  <2>. QED
    BY <2>3, <2>5, <2>6 DEF IInv
<1>2. CASE /\ SetState("CONNECTED")
           /\ queue' = q \o Aborted(Resets("CONNECTED")) \o after
           /\ UNCHANGED procVars
  <2>1. Rest(q \o Aborted(Resets("CONNECTED")))
    BY QuietPosts, RestPosts DEF Popped
  <2>2. Rest(queue')
    BY <2>1, <1>2, RestPosts
  <2>3. /\ state' = "CONNECTED" /\ attempts' \in 0..(MaxAttempts + 1)
        /\ slowTimer' = FALSE /\ intervalTimer' = FALSE
    BY <1>2, SetStateEffect DEF State, Resting
  <2>4. ProcessTracked'
    BY <2>2, <1>2, TrackedKeeps DEF procVars
  <2>5. phase # "none"
    BY DEF ManagementOpen
  <2>. QED
    BY <2>2, <2>3, <2>4, <2>5, <1>2 DEF OnOpenVPNConnected, OpenVPNState, State, Rest, IInv, TypeOK,
       NoStall, DisconnectingHasProcess, TimersDisarmed, ConnectedIsUp, FlagsAgree, procVars,
       copyVars, daemonVars
<1>. QED
  BY <1>1, <1>2 DEF OnOpenVPNConnected

\* Every other line keeps the invariant.
LEMMA OpenVPNStateInv ==
    ASSUME IInv, NEW q, NEW after, NEW line \in Lines \ {"CONNECTED"}, Popped(q), Quiet(after),
           ManagementOpen, OnOpenVPNState(line, q, after), UNCHANGED daemonVars
    PROVE  IInv'
<1>1. Rest(queue')
  BY RestPosts DEF OnOpenVPNState, Popped
<1>2. phase' = phase /\ exited' = exited /\ signaled' \in BOOLEAN /\ sigterm' \in BOOLEAN
  BY ShutdownEffect DEF OnOpenVPNState
<1>3. attempts' \in 0..(MaxAttempts + 1)
  BY ConnectionAssumption DEF OnOpenVPNState, Increment, IInv, TypeOK
<1>4. /\ state' \in State
      /\ state \in Retrying => state' \in Retrying
      /\ state' = "DISCONNECTING" => state = "DISCONNECTING"
      /\ state' = "CONNECTED" => state = "CONNECTED" /\ line \notin {"EXITING", "TLS_ERROR"}
  BY DEF OnOpenVPNState, StateAfterLine, SlowState, State, Retrying, IInv, TypeOK
<1>5. /\ ovpn' \in OpenVPNState
      /\ ovpn' = "EXITED" => ovpn = "EXITED"
      /\ ovpn' = "EXITING" => ovpn = "EXITING" \/ line \in {"EXITING", "TLS_ERROR"}
  BY DEF OnOpenVPNState, OpenVPNState, Lines, IInv, TypeOK
<1>6. ProcessTracked'
  BY <1>1, <1>2, TrackedKeeps
<1>7. phase # "none"
  BY DEF ManagementOpen
<1>. QED
  BY <1>1, <1>2, <1>3, <1>4, <1>5, <1>6, <1>7 DEF OnOpenVPNState, Rest, IInv, TypeOK, NoStall,
     DisconnectingHasProcess, TimersDisarmed, ConnectedIsUp, FlagsAgree, timerVars, copyVars,
     daemonVars

\* The late error of a discarded process keeps the invariant.
LEMMA StaleErrorInv ==
    ASSUME IInv, NEW q, NEW after, Popped(q), Quiet(after), OnStaleError(q, after),
           UNCHANGED daemonVars
    PROVE  IInv'
<1>1. /\ Rest(q \o PostIfNoProcess)
      /\ (Has(queue, "DoConnect") => Has(q \o PostIfNoProcess, "DoConnect"))
  BY QuietPosts, RestPosts DEF Popped
<1>2. Rest(queue') /\ (Has(queue, "DoConnect") => Has(queue', "DoConnect"))
  BY <1>1, RestPosts DEF OnStaleError
<1>3. phase' = phase /\ exited' = exited /\ signaled' \in BOOLEAN /\ sigterm' \in BOOLEAN
  BY ShutdownEffect DEF OnStaleError, ShutdownOrPost
<1>. QED
  BY <1>2, <1>3 DEF OnStaleError, Rest, ProcessHandlers, IInv, TypeOK, NoStall,
     DisconnectingHasProcess, TimersDisarmed, ConnectedIsUp, FlagsAgree, ProcessTracked,
     ManagementOpen, timerVars, copyVars, daemonVars

-----------------------------------------------------------------------------
(* The loop and the environment.                                           *)

\* What is left of the queue once the loop has popped its head.
LEMMA PoppedTail ==
    ASSUME IInv, NEW h \in Handlers, Ready(h)
    PROVE  /\ Rest(Tail(queue))
           /\ h # "DoConnect" => Popped(Tail(queue))
           /\ h \in ProcessHandlers => phase # "none"
           /\ h \in Lines => ManagementOpen
<1>1. queue \in Seq(Handlers) /\ queue # <<>> /\ Head(queue) = h
  BY DEF IInv, TypeOK, Ready
<1>2. /\ Tail(queue) \in Seq(Handlers)
      /\ \A g : Has(Tail(queue), g) => Has(queue, g)
      /\ \A g : h # g /\ Has(queue, g) => Has(Tail(queue), g)
  BY <1>1, HasTail
<1>3. Has(queue, h)
  <2>1. 1 \in DOMAIN queue /\ queue[1] = h
    BY <1>1, LenProperties, EmptySeq, HeadTailProperties
  <2>. QED
    BY <2>1 DEF Has
<1>. QED
  BY <1>2, <1>3 DEF Rest, Popped, IInv, ProcessTracked, ManagementOpen, ProcessHandlers

\* Running the handler at the head of the queue keeps the invariant.
LEMMA RunInv == ASSUME IInv, Run PROVE IInv'
<1>1. Quiet(<<>>)
  BY QuietPosts
<1>2. ASSUME RunConnect PROVE IInv'
  <2>1. Rest(Tail(queue)) /\ Popped(Tail(queue))
    BY <1>2, PoppedTail DEF RunConnect, Handlers, Requests
  <2>2. CASE Connect(needsReconnect, Tail(queue), <<>>) /\ needsReconnect' = FALSE
    <3>1. needsReconnect \in BOOLEAN
      BY DEF IInv, TypeOK
    <3>. QED
      BY <1>1, <1>2, <2>1, <2>2, <3>1, ConnectInv DEF RunConnect, Popped
  <2>3. CASE queue' = Tail(queue) /\ UNCHANGED <<connVars, needsReconnect>>
    BY <1>2, <2>1, <2>3 DEF RunConnect, Popped, Rest, ProcessHandlers, IInv, TypeOK, NoStall,
       DisconnectingHasProcess, TimersDisarmed, ConnectedIsUp, FlagsAgree, ProcessTracked,
       ManagementOpen, connVars, timerVars, procVars, copyVars
  <2>. QED
    BY <1>2, <2>2, <2>3 DEF RunConnect
<1>3. ASSUME RunDisconnect PROVE IInv'
  <2>1. Popped(Tail(queue))
    BY <1>3, PoppedTail DEF RunDisconnect, Handlers, Requests
  <2>. QED
    BY <1>1, <1>3, <2>1, DisconnectInv DEF RunDisconnect, Popped
<1>4. ASSUME RunApplySettings PROVE IInv'
  <2>1. Popped(Tail(queue))
    BY <1>4, PoppedTail DEF RunApplySettings, Handlers, Requests
  <2>2. /\ connNeedsReconnect' \in BOOLEAN /\ needsReconnect' \in BOOLEAN
        /\ needsReconnect' /\ phase # "none" => connNeedsReconnect'
    BY <1>4 DEF RunApplySettings, NeedsReconnect, IInv, TypeOK, FlagsAgree
  <2>. QED
    BY <1>4, <2>1, <2>2 DEF RunApplySettings, Popped, Rest, ProcessHandlers, IInv, TypeOK, NoStall,
       DisconnectingHasProcess, TimersDisarmed, ConnectedIsUp, FlagsAgree, ProcessTracked,
       ManagementOpen, timerVars, procVars
<1>5. ASSUME RunDoConnect PROVE IInv'
  <2>1. Rest(Tail(queue))
    BY <1>5, PoppedTail DEF RunDoConnect, Handlers
  <2>2. PICK launched \in BOOLEAN : DoConnect(launched, Tail(queue), <<>>)
    BY <1>5 DEF RunDoConnect
  <2>. QED
    BY <1>1, <1>5, <2>1, <2>2, DoConnectInv DEF RunDoConnect
<1>6. ASSUME RunSlowTimeout PROVE IInv'
  <2>1. Popped(Tail(queue))
    BY <1>6, PoppedTail DEF RunSlowTimeout, Handlers
  <2>. QED
    BY <1>1, <1>6, <2>1, SlowTimeoutInv DEF RunSlowTimeout
<1>7. ASSUME RunAccept PROVE IInv'
  <2>1. Popped(Tail(queue)) /\ phase # "none"
    BY <1>7, PoppedTail DEF RunAccept, Handlers, ProcessHandlers
  <2>. QED
    BY <1>7, <2>1, AcceptInv DEF RunAccept
<1>8. ASSUME RunExited PROVE IInv'
  <2>1. Popped(Tail(queue))
    BY <1>8, PoppedTail DEF RunExited, Handlers
  <2>2. PICK early \in BOOLEAN : OnOpenVPNExited(early, Tail(queue), <<>>)
    BY <1>8 DEF RunExited
  <2>. QED
    BY <1>1, <1>8, <2>1, <2>2, ExitedInv DEF RunExited
<1>9. ASSUME RunLine PROVE IInv'
  <2>1. PICK line \in Lines : Ready(line) /\ OnOpenVPNManagement(line, Tail(queue), <<>>)
    BY <1>9 DEF RunLine
  <2>2. Popped(Tail(queue)) /\ ManagementOpen
    BY <2>1, PoppedTail DEF Handlers, Lines
  <2>3. CASE line = "CONNECTED"
    BY <1>1, <1>9, <2>1, <2>2, <2>3, OpenVPNConnectedInv DEF OnOpenVPNManagement, RunLine
  <2>4. CASE line # "CONNECTED"
    BY <1>1, <1>9, <2>1, <2>2, <2>4, OpenVPNStateInv DEF OnOpenVPNManagement, RunLine
  <2>. QED
    BY <2>3, <2>4
<1>10. ASSUME RunStaleError PROVE IInv'
  <2>1. Popped(Tail(queue))
    BY <1>10, PoppedTail DEF RunStaleError, Handlers
  <2>. QED
    BY <1>1, <1>10, <2>1, StaleErrorInv DEF RunStaleError
<1>11. ASSUME RunDiscarded PROVE IInv'
  <2>1. Popped(Tail(queue))
    BY <1>11, PoppedTail DEF RunDiscarded, Handlers
  <2>. QED
    BY <1>11, <2>1 DEF RunDiscarded, Popped, Rest, ProcessHandlers, IInv, TypeOK, NoStall,
       DisconnectingHasProcess, TimersDisarmed, ConnectedIsUp, FlagsAgree, ProcessTracked,
       ManagementOpen, connVars, timerVars, procVars, copyVars, daemonVars
<1>. QED
  BY <1>2, <1>3, <1>4, <1>5, <1>6, <1>7, <1>8, <1>9, <1>10, <1>11 DEF Run

\* Whatever becomes ready keeps the invariant.
LEMMA EnvironmentInv == ASSUME IInv, Environment PROVE IInv'
<1>1. /\ \A x \in Handlers : Append(queue, x) \in Seq(Handlers)
                             /\ \A h : Has(Append(queue, x), h) <=> Has(queue, h) \/ x = h
      /\ \A x \in Handlers \ ProcessHandlers : Rest(Append(queue, x))
  <2>1. \A x \in Handlers : Append(queue, x) \in Seq(Handlers)
                             /\ \A h : Has(Append(queue, x), h) <=> Has(queue, h) \/ x = h
    BY HasAppend DEF IInv, TypeOK
  <2>. QED
    BY <2>1 DEF Rest
<1>2. ASSUME NEW request \in Requests, Arrive(request) PROVE IInv'
  <2>1. request \in Handlers \ ProcessHandlers
    BY DEF Handlers, Requests, Lines, ProcessHandlers
  <2>2. ProcessTracked'
    BY <1>1, <1>2, <2>1, TrackedKeeps DEF Arrive, connVars, procVars
  <2>. QED
    BY <1>1, <1>2, <2>1, <2>2 DEF Arrive, IInv, TypeOK, NoStall, DisconnectingHasProcess,
       TimersDisarmed, ConnectedIsUp, FlagsAgree, connVars, timerVars, procVars, copyVars,
       daemonVars
<1>3. ASSUME SlowTimerFires PROVE IInv'
  <2>1. "SlowTimeout" \in Handlers \ ProcessHandlers
    BY DEF Handlers, Lines, ProcessHandlers
  <2>2. ProcessTracked'
    BY <1>1, <1>3, <2>1, TrackedKeeps DEF SlowTimerFires, procVars
  <2>. QED
    BY <1>1, <1>3, <2>1, <2>2 DEF SlowTimerFires, IInv, TypeOK, NoStall, DisconnectingHasProcess,
       TimersDisarmed, ConnectedIsUp, FlagsAgree, procVars, copyVars,
       daemonVars
<1>4. ASSUME IntervalTimerFires PROVE IInv'
  <2>1. "DoConnect" \in Handlers \ ProcessHandlers
    BY DEF Handlers, Lines, ProcessHandlers
  <2>2. ProcessTracked'
    BY <1>1, <1>4, <2>1, TrackedKeeps DEF IntervalTimerFires, procVars
  <2>. QED
    BY <1>1, <1>4, <2>1, <2>2 DEF IntervalTimerFires, IInv, TypeOK, NoStall,
       DisconnectingHasProcess, TimersDisarmed, ConnectedIsUp, FlagsAgree, procVars, copyVars,
       daemonVars
<1>5. ASSUME ProcessConnects PROVE IInv'
  <2>1. "Accept" \in Handlers /\ "Accept" \notin Lines /\ "Accept" # "DoConnect"
    BY DEF Handlers, Lines
  <2>2. ~ ManagementOpen /\ phase' = "accepting"
    BY <1>5 DEF ProcessConnects, ManagementOpen
  <2>3. ovpn = "EXITED" /\ \A line \in Lines : ~ Has(queue, line)
    BY <2>2 DEF IInv, ProcessTracked
  <2>4. ProcessTracked'
    BY <1>1, <1>5, <2>1, <2>2, <2>3 DEF ProcessConnects, ProcessTracked
  <2>. QED
    BY <1>1, <1>5, <2>1, <2>2, <2>3, <2>4 DEF ProcessConnects, Phase, IInv, TypeOK, NoStall,
       DisconnectingHasProcess, TimersDisarmed, ConnectedIsUp, FlagsAgree, timerVars, copyVars,
       daemonVars
<1>6. ASSUME NEW line \in Lines, LineArrives(line) PROVE IInv'
  <2>1. line \in Handlers /\ line # "DoConnect"
    BY DEF Handlers, Lines
  <2>2. ManagementOpen' /\ phase' \in Phase \ {"none"} /\ phase # "none"
    BY <1>6 DEF LineArrives, NextLines, PhaseAfter, Phase, ManagementOpen
  <2>3. ProcessTracked'
    BY <2>2 DEF ProcessTracked
  <2>. QED
    BY <1>1, <1>6, <2>1, <2>2, <2>3 DEF LineArrives, IInv, TypeOK, NoStall,
       DisconnectingHasProcess, TimersDisarmed, ConnectedIsUp, FlagsAgree, timerVars, copyVars,
       daemonVars
<1>7. ASSUME StaleErrorArrives PROVE IInv'
  <2>1. "StaleError" \in Handlers \ ProcessHandlers
    BY DEF Handlers, Lines, ProcessHandlers
  <2>2. ProcessTracked'
    BY <1>1, <1>7, <2>1, TrackedKeeps DEF StaleErrorArrives, procVars
  <2>. QED
    BY <1>1, <1>7, <2>1, <2>2 DEF StaleErrorArrives, IInv, TypeOK, NoStall, DisconnectingHasProcess,
       TimersDisarmed, ConnectedIsUp, FlagsAgree, timerVars, procVars, copyVars, daemonVars
<1>8. ASSUME ProcessExits PROVE IInv'
  <2>1. "Exited" \in Handlers \ ProcessHandlers
    BY DEF Handlers, Lines, ProcessHandlers
  <2>2. ProcessTracked'
    BY <1>1, <1>8, <2>1, TrackedKeeps DEF ProcessExits, procVars
  <2>. QED
    BY <1>1, <1>8, <2>1, <2>2 DEF ProcessExits, IInv, TypeOK, NoStall, DisconnectingHasProcess,
       TimersDisarmed, ConnectedIsUp, FlagsAgree, timerVars, copyVars, daemonVars
<1>. QED
  BY <1>2, <1>3, <1>4, <1>5, <1>6, <1>7, <1>8 DEF Environment, Background

\* A step that changes nothing the invariant speaks of.
LEMMA StutterInv == ASSUME IInv, UNCHANGED connectionVars PROVE IInv'
BY DEF connectionVars, connVars, timerVars, procVars, copyVars, daemonVars, IInv, TypeOK, NoStall,
   DisconnectingHasProcess, TimersDisarmed, ConnectedIsUp, FlagsAgree, ProcessTracked,
   ManagementOpen, Has

\* Connection's constructor establishes the invariant.
LEMMA InitInv == ASSUME Init PROVE IInv
<1>1. queue \in Seq(Handlers) /\ \A h : ~ Has(queue, h)
  <2>1. <<>> \in Seq(Handlers) /\ DOMAIN <<>> = {}
    BY EmptySeq
  <2>. QED
    BY <2>1 DEF Init, Has
<1>2. TypeOK
  <2>1. 0 \in 0..(MaxAttempts + 1)
    BY ConnectionAssumption
  <2>. QED
    BY <1>1, <2>1 DEF Init, TypeOK, State, OpenVPNState, Phase
<1>. QED
  BY <1>1, <1>2 DEF Init, IInv, NoStall, DisconnectingHasProcess, TimersDisarmed, ConnectedIsUp,
     FlagsAgree, ProcessTracked, ManagementOpen, Retrying

-----------------------------------------------------------------------------
(* What each operation and handler is to Lifecycle.                        *)

\* What a step of the Connection is to its clients: one of Lifecycle, or none.
LifeStep == [Life!LifeNext]_(Life!lifeVars)

\* What the Connection copies of the settings is always one of the copies.
LEMMA CopyTyped == ASSUME NEW s \in SettingsSpace PROVE CopyOf(s) \in CopySpace
  BY ConnectionAssumption DEF CopyOf, CopySpace

\* The mode and the process stay, whatever is chosen.
LEMMA LifeStays ==
    ASSUME IInv, settings' \in SettingsSpace, UNCHANGED <<phase, copied, state>>
    PROVE  LifeStep
<1>1. CopyOf(settings') \in CopySpace
  BY CopyTyped
<1>2. Life!Choose
  BY <1>1 DEF Life!Choose, Mode, Process
<1>. QED
  BY <1>2 DEF LifeStep, Life!LifeNext

\* The mode changes, and nothing else does.
LEMMA LifeModeChanges ==
    ASSUME IInv, UNCHANGED <<phase, copied, settings>>, state' \in State,
           \/ state' \notin {"CONNECTED", "DISCONNECTING", "DISCONNECTED"}
           \/ state' = "DISCONNECTED" /\ state \notin {"CONNECTED", "DISCONNECTING"}
           \/ state' = "DISCONNECTING" /\ ManagementOpen /\ state # "DISCONNECTED"
           \/ /\ state' = "CONNECTED" /\ ManagementOpen
              /\ state \notin {"DISCONNECTING", "DISCONNECTED"}
    PROVE  LifeStep
<1>. USE DEF State, Mode, Process, ManagementOpen
<1>1. UNCHANGED <<Process, IF phase = "none" THEN NotCopied ELSE copied, CopyOf(settings)>>
  BY DEF CopyOf
<1>2. CASE state' \notin {"CONNECTED", "DISCONNECTING", "DISCONNECTED"}
  BY <1>1, <1>2 DEF LifeStep, Life!LifeNext, Life!Try
<1>3. CASE Mode' = Mode
  BY <1>1, <1>3 DEF LifeStep, Life!lifeVars
<1>4. CASE state' \in {"DISCONNECTING", "DISCONNECTED"} /\ Mode' # Mode
  BY <1>1, <1>4 DEF LifeStep, Life!LifeNext, Life!Stop
<1>5. CASE state' = "CONNECTED" /\ Mode' # Mode
  BY <1>1, <1>5 DEF LifeStep, Life!LifeNext, Life!Succeed
<1>. QED
  BY <1>2, <1>3, <1>4, <1>5

\* Connect asks for a new attempt, if it does anything.
LEMMA ConnectLives ==
    ASSUME IInv, NEW q, NEW after, NEW force, Connect(force, q, after), UNCHANGED settings
    PROVE  LifeStep
<1>1. phase' = phase /\ copied' = copied
  BY DEF Connect, ShutdownOrPost, ShutdownIf, Shutdown, procVars
<1>2. state' = state \/ state' \in {"DISCONNECTING_TO_RECONNECT", "CONNECTING"}
  BY DEF Connect, SetState
<1>3. CASE state' = state
  BY <1>1, <1>3, LifeStays DEF IInv, TypeOK
<1>4. CASE state' \in {"DISCONNECTING_TO_RECONNECT", "CONNECTING"}
  BY <1>1, <1>4, LifeModeChanges DEF State
<1>. QED
  BY <1>2, <1>3, <1>4

\* Disconnect waits for a process that was heard of, and for every one that is up.
LEMMA DisconnectLives ==
    ASSUME IInv, NEW q, NEW after, Disconnect(q, after), UNCHANGED daemonVars
    PROVE  LifeStep
<1>1. phase' = phase /\ copied' = copied /\ settings' = settings
  BY DEF Disconnect, ShutdownIf, Shutdown, procVars, copyVars, daemonVars
<1>2. CASE state' = state
  BY <1>1, <1>2, LifeStays DEF IInv, TypeOK
<1>3. CASE state # "DISCONNECTED" /\ SetState(StateAfterDisconnect)
  <2>1. state' = IF ovpn = "EXITED" THEN "DISCONNECTED" ELSE "DISCONNECTING"
    BY <1>3 DEF SetState, StateAfterDisconnect
  <2>2. ovpn # "EXITED" => ManagementOpen
    BY DEF IInv, ProcessTracked
  <2>3. ovpn = "EXITED" => state \notin {"CONNECTED", "DISCONNECTING"}
    BY DEF IInv, ConnectedIsUp, DisconnectingHasProcess
  <2>. QED
    BY <2>1, <2>2, <2>3, <1>1, <1>3, LifeModeChanges DEF State
<1>. QED
  BY <1>2, <1>3 DEF Disconnect

\* DoConnect launches where there is no process, with the settings of the moment.
LEMMA DoConnectLives ==
    ASSUME IInv, NEW q, NEW after, NEW launched, DoConnect(launched, q, after), UNCHANGED settings
    PROVE  LifeStep
<1>1. /\ StateToConnect \in State
      /\ state \notin {"CONNECTED", "DISCONNECTING"} =>
            StateToConnect \notin {"CONNECTED", "DISCONNECTING", "DISCONNECTED"}
  BY DEF StateToConnect, State, IInv, TypeOK
<1>2. CASE state' = state /\ UNCHANGED <<phase, copied>>
  BY <1>2, LifeStays DEF IInv, TypeOK
<1>3. CASE /\ state \notin {"CONNECTED", "DISCONNECTING"} /\ state' = StateToConnect
           /\ UNCHANGED <<phase, copied>>
  BY <1>1, <1>3, LifeModeChanges
<1>4. CASE /\ state \notin {"CONNECTED", "DISCONNECTING"} /\ ~AlreadyRunning
           /\ LaunchProcess(launched, q, after)
  <2>1. state' \in State \ {"CONNECTED", "DISCONNECTING", "DISCONNECTED"}
    BY <1>1, <1>4 DEF LaunchProcess, SlowState, State
  <2>2. phase = "none" /\ phase' = "launched" /\ copied' = CopyOf(settings)
    BY <1>4 DEF LaunchProcess, AlreadyRunning
  <2>3. CopyOf(settings)' = CopyOf(settings)
    BY DEF CopyOf
  <2>4. Life!Launch
    BY <1>4, <2>1, <2>2, <2>3 DEF Life!Launch, Mode, Process, State
  <2>. QED
    BY <2>4 DEF LifeStep, Life!LifeNext
<1>. QED
  BY <1>2, <1>3, <1>4 DEF DoConnect, copyVars, procVars

\* A slow connection is still one that is tried.
LEMMA SlowTimeoutLives ==
    ASSUME IInv, NEW q, NEW after, OnSlowConnectionTimeout(q, after), UNCHANGED daemonVars
    PROVE  LifeStep
<1>1. phase' = phase /\ copied' = copied /\ settings' = settings
  BY DEF OnSlowConnectionTimeout, procVars, copyVars, daemonVars
<1>2. CASE state' = state
  BY <1>1, <1>2, LifeStays DEF IInv, TypeOK
<1>3. CASE state' \in {"STILL_CONNECTING", "STILL_RECONNECTING"}
  BY <1>1, <1>3, LifeModeChanges DEF State
<1>. QED
  BY <1>2, <1>3 DEF OnSlowConnectionTimeout

\* From then on the process is heard of.
LEMMA AcceptLives ==
    ASSUME IInv, NEW q, phase # "none", OnManagementAccepted(q), UNCHANGED daemonVars
    PROVE  LifeStep
<1>1. /\ UNCHANGED <<state, copied, settings>> /\ phase' = "open"
  BY DEF OnManagementAccepted, copyVars, daemonVars
<1>2. UNCHANGED <<Mode, IF phase = "none" THEN NotCopied ELSE copied, CopyOf(settings)>>
  BY <1>1 DEF Mode, CopyOf
<1>3. Process' = "heard" /\ Process \in {"launched", "calling", "heard"}
  BY <1>1 DEF Process
<1>. QED
  BY <1>2, <1>3 DEF LifeStep, Life!LifeNext, Life!Speak, Life!lifeVars

\* The process is gone.
LEMMA ExitedLives ==
    ASSUME IInv, NEW q, NEW after, NEW early, OnOpenVPNExited(early, q, after),
           UNCHANGED daemonVars
    PROVE  LifeStep
<1>1. phase' = "none" /\ state' = StateAfterExit /\ copied' = copied /\ UNCHANGED settings
  BY DEF OnOpenVPNExited, daemonVars, copyVars
<1>2. CASE phase = "none"
  <2>1. state \notin {"CONNECTED", "DISCONNECTING"}
    BY <1>2 DEF IInv, ConnectedIsUp, DisconnectingHasProcess
  <2>2. state' = state \/ state' \in {"RECONNECTING", "CONNECTING"}
    BY <1>1, <2>1 DEF StateAfterExit
  <2>. QED
    BY <1>1, <1>2, <2>2, LifeStays, LifeModeChanges DEF State, IInv, TypeOK
<1>3. CASE phase # "none"
  <2>1. Process # "none" /\ Process' = "none"
    BY <1>1, <1>3 DEF Process
  <2>3. UNCHANGED CopyOf(settings)
    BY <1>1 DEF CopyOf
  <2>2. Mode' = CASE Mode = "up" -> "trying" [] Mode = "stopping" -> "idle" [] OTHER -> Mode
    BY <1>1 DEF Mode, StateAfterExit, IInv, TypeOK, State
  <2>. QED
    BY <1>1, <1>3, <2>1, <2>2, <2>3 DEF LifeStep, Life!LifeNext, Life!Exit
<1>. QED
  BY <1>2, <1>3

\* A line: the connection is up, interrupted, or what it was.
LEMMA LineLives ==
    ASSUME IInv, NEW q, NEW after, NEW line \in Lines, ManagementOpen,
           OnOpenVPNManagement(line, q, after), UNCHANGED daemonVars
    PROVE  LifeStep
<1>1. phase' = phase /\ copied' = copied /\ settings' = settings
  BY DEF OnOpenVPNManagement, OnOpenVPNConnected, OnOpenVPNState, ShutdownIf, Shutdown, procVars,
         copyVars, daemonVars
<1>2. CASE state' = state
  BY <1>1, <1>2, LifeStays DEF IInv, TypeOK
<1>3. CASE state' # state
  <2>1. CASE line = "CONNECTED"
    <3>1. state \notin {"DISCONNECTING", "DISCONNECTED"} /\ state' = "CONNECTED"
      BY <2>1, <1>3 DEF OnOpenVPNManagement, OnOpenVPNConnected, SetState
    <3>. QED
      BY <3>1, <1>1, LifeModeChanges DEF State
  <2>2. CASE line # "CONNECTED"
    <3>1. state' \in {"INTERRUPTED", "STILL_CONNECTING", "STILL_RECONNECTING"}
      BY <2>2, <1>3 DEF OnOpenVPNManagement, OnOpenVPNState, StateAfterLine, SlowState
    <3>. QED
      BY <3>1, <1>1, LifeModeChanges DEF State
  <2>. QED
    BY <2>1, <2>2
<1>. QED
  BY <1>2, <1>3

\* The late error of a discarded process changes nothing of this.
LEMMA StaleErrorLives ==
    ASSUME IInv, NEW q, NEW after, OnStaleError(q, after), UNCHANGED daemonVars
    PROVE  LifeStep
<1>1. UNCHANGED <<phase, copied, state, settings>>
  BY DEF OnStaleError, ShutdownOrPost, ShutdownIf, Shutdown, procVars, copyVars, daemonVars
<1>. QED
  BY <1>1, LifeStays DEF IInv, TypeOK

\* What comes ready changes neither, but for a process that connects.
LEMMA BackgroundLives == ASSUME IInv, Background, UNCHANGED settings PROVE LifeStep
<1>1. CASE UNCHANGED <<phase, copied, state>>
  BY <1>1, LifeStays DEF IInv, TypeOK
<1>2. CASE ProcessConnects
  <2>1. UNCHANGED <<state, copied>> /\ phase = "launched" /\ phase' = "accepting"
    BY <1>2 DEF ProcessConnects, copyVars
  <2>2. Life!Call
    BY <2>1 DEF Life!Call, Mode, Process, CopyOf
  <2>. QED
    BY <2>2 DEF LifeStep, Life!LifeNext
<1>3. ASSUME NEW line \in Lines, LineArrives(line) PROVE LifeStep
  <2>1. /\ UNCHANGED <<state, copied>>
        /\ phase \notin {"none", "launched", "accepting"}
        /\ phase' \notin {"none", "launched", "accepting"}
    BY <1>3 DEF LineArrives, NextLines, PhaseAfter, copyVars
  <2>2. UNCHANGED Life!lifeVars
    BY <2>1 DEF Life!lifeVars, Mode, Process, CopyOf
  <2>. QED
    BY <2>2 DEF LifeStep
<1>. QED
  BY <1>1, <1>2, <1>3 DEF Background, SlowTimerFires, IntervalTimerFires, StaleErrorArrives,
                          ProcessExits, procVars, copyVars

\* At first there is neither a process nor a wish.
LEMMA LifeInitially == ASSUME Init PROVE Life!LifeInit
<1>1. CopyOf(settings) \in CopySpace
  BY CopyTyped DEF Init
<1>. QED
  BY <1>1 DEF Init, Life!LifeInit, Mode, Process

\* Each handler that the loop runs is a step of Lifecycle, or none.
LEMMA RunLives == ASSUME IInv, Run PROVE LifeStep
<1>1. ASSUME RunConnect PROVE LifeStep
  <2>1. CASE Connect(needsReconnect, Tail(queue), <<>>)
    BY <1>1, <2>1, ConnectLives DEF RunConnect
  <2>2. CASE UNCHANGED connVars
    BY <1>1, <2>2, LifeStays DEF RunConnect, connVars, procVars, copyVars, IInv, TypeOK
  <2>. QED
    BY <1>1, <2>1, <2>2 DEF RunConnect
<1>2. ASSUME RunDisconnect PROVE LifeStep
  BY <1>2, DisconnectLives DEF RunDisconnect
<1>3. ASSUME RunApplySettings PROVE LifeStep
  BY <1>3, LifeStays DEF RunApplySettings, procVars
<1>4. ASSUME RunDoConnect PROVE LifeStep
  BY <1>4, DoConnectLives DEF RunDoConnect
<1>5. ASSUME RunSlowTimeout PROVE LifeStep
  BY <1>5, SlowTimeoutLives DEF RunSlowTimeout
<1>6. ASSUME RunAccept PROVE LifeStep
  <2>1. phase # "none"
    BY <1>6, PoppedTail DEF RunAccept, Handlers, ProcessHandlers
  <2>. QED
    BY <1>6, <2>1, AcceptLives DEF RunAccept
<1>7. ASSUME RunExited PROVE LifeStep
  BY <1>7, ExitedLives DEF RunExited
<1>8. ASSUME RunLine PROVE LifeStep
  <2>1. PICK line \in Lines : Ready(line) /\ OnOpenVPNManagement(line, Tail(queue), <<>>)
    BY <1>8 DEF RunLine
  <2>2. ManagementOpen
    BY <2>1, PoppedTail DEF Handlers
  <2>. QED
    BY <1>8, <2>1, <2>2, LineLives DEF RunLine
<1>9. ASSUME RunStaleError PROVE LifeStep
  BY <1>9, StaleErrorLives DEF RunStaleError
<1>10. ASSUME RunDiscarded PROVE LifeStep
  BY <1>10, LifeStays DEF RunDiscarded, connVars, daemonVars, procVars, copyVars, IInv, TypeOK
<1>. QED
  BY <1>1, <1>2, <1>3, <1>4, <1>5, <1>6, <1>7, <1>8, <1>9, <1>10 DEF Run

-----------------------------------------------------------------------------
(* Theorems.                                                               *)

\* IInv holds of every state of every run: each of the Connection's handlers keeps it
\* (SetState, SetOpenVPNState, Connect, Disconnect, DoConnect, SignalError).
THEOREM Invariance == Spec => []IInv
<1>1. Init => IInv
  BY InitInv
<1>2. IInv /\ [Next]_connectionVars => IInv'
  BY RunInv, EnvironmentInv, StutterInv DEF Next, Dead
<1>. QED
  BY <1>1, <1>2, PTL DEF Spec

\* Every variable keeps its type: in particular the saved settings are always what
\* CopySettings makes of settings the daemon really had.
THEOREM TypeCorrect == Spec => []TypeOK
<1>1. IInv => TypeOK
  BY DEF IInv
<1>. QED
  BY <1>1, Invariance, PTL

\* A connection that should be up and has no process always has a retry pending
\* (ScheduleConnect, and the DoConnect posts of Connect, SignalError and SetOpenVPNState).
THEOREM RetryPending == Spec => []NoStall
<1>1. IInv => NoStall
  BY DEF IInv
<1>. QED
  BY <1>1, Invariance, PTL

\* A connection that is going down always has a process to wait for: Disconnect never
\* leaves it in DISCONNECTING with nothing whose exit could end that.
THEOREM DisconnectingWaits == Spec => []DisconnectingHasProcess
<1>1. IInv => DisconnectingHasProcess
  BY DEF IInv
<1>. QED
  BY <1>1, Invariance, PTL

\* Both timers are armed while retrying only: SetState cancels them on every way out, and
\* DoConnect cancels the interval timer when it launches.
THEOREM TimersBelong == Spec => []TimersDisarmed
<1>1. IInv => TimersDisarmed
  BY DEF IInv
<1>. QED
  BY <1>1, Invariance, PTL

\* CONNECTED is never shown for a process that is gone or going (SetOpenVPNState for
\* EXITING and EXITED).
THEOREM ConnectedMeansUp == Spec => []ConnectedIsUp
<1>1. IInv => ConnectedIsUp
  BY DEF IInv
<1>. QED
  BY <1>1, Invariance, PTL

\* The daemon's memory of a settings change never outlives the Connection's (NeedsReconnect,
\* CopySettings, OnConnectionAttempt).
THEOREM FlagsAgreement == Spec => []FlagsAgree
<1>1. IInv => FlagsAgree
  BY DEF IInv
<1>. QED
  BY <1>1, Invariance, PTL

\* No queued line or accept finds that its process is gone: OnOpenVPNExited and the weak
\* callbacks of OpenVPNProcess see to that.
THEOREM Tracking == Spec => []ProcessTracked
<1>1. IInv => ProcessTracked
  BY DEF IInv
<1>. QED
  BY <1>1, Invariance, PTL

\* A client of the Connection sees a switch with one process behind it: the same one is kept
\* with the settings it was launched with until it is gone, CONNECTED follows only upon an
\* attempt whose process has spoken, and nothing that a process says too late is taken for
\* the word of another (Connect, Disconnect, DoConnect, SetOpenVPNState, OnOpenVPNExited).
THEOREM LifecycleKept == Spec => LifecycleImplemented
<1>1. Init => Life!LifeInit
  BY LifeInitially
<1>2. IInv /\ [Next]_connectionVars => [Life!LifeNext]_(Life!lifeVars)
  <2>1. ASSUME IInv, Run PROVE LifeStep
    BY <2>1, RunLives
  <2>2. ASSUME IInv, Environment PROVE LifeStep
    <3>1. UNCHANGED settings /\ (Background \/ UNCHANGED connVars)
      BY <2>2 DEF Environment, Background, Arrive, SlowTimerFires, IntervalTimerFires,
         ProcessConnects, LineArrives, StaleErrorArrives, ProcessExits, daemonVars
    <3>2. CASE UNCHANGED connVars
      BY <2>2, <3>1, <3>2, LifeStays DEF connVars, procVars, copyVars, IInv, TypeOK
    <3>. QED
      BY <2>2, <3>1, <3>2, BackgroundLives
  <2>3. ASSUME IInv, UNCHANGED connectionVars PROVE LifeStep
    BY <2>3, LifeStays DEF connectionVars, connVars, daemonVars, procVars, copyVars, IInv, TypeOK
  <2>. QED
    BY <2>1, <2>2, <2>3 DEF Next, Dead, LifeStep
<1>. QED
  BY <1>1, <1>2, Invariance, PTL DEF Spec, LifecycleImplemented, Life!LifeSpec
=============================================================================
