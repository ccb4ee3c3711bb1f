----------------------------- MODULE RpcClient ------------------------------
(***************************************************************************)
(* WebSocketImpl (client/src/rpc.js): JSON-RPC requests over a websocket   *)
(* that is opened again after every loss, until disconnect() is called.    *)
(*                                                                         *)
(* Requests are numbered in the order of the calls of send().  A request   *)
(* with a callback is a call, one without is a post.  What the daemon      *)
(* sends is a sequence of messages; this module knows the answers to       *)
(* calls, and a module that extends it adds its own.                       *)
(*                                                                         *)
(* The socket is the ws package's: it changes readyState and calls the     *)
(* listener in one step, and a refused connection calls onerror while      *)
(* readyState is still CONNECTING, then onclose.  reconnect() depends on   *)
(* that second event, since it looks for CLOSING or CLOSED.                *)
(***************************************************************************)
EXTENDS Naturals, Sequences

CONSTANT MaxRequests  \* bound on the requests of a behaviour

ASSUME RpcAssumption == MaxRequests \in Nat

VARIABLES
    socket,     \* self.socket: "none" after disconnect(), else its readyState
    reconnectTimeout,  \* the timer of reconnect() is armed
    queue,      \* self._queue: requests to send when the socket opens
    callbacks,  \* the keys of self._callbacks
    issued,     \* how many requests were passed to send()
    status,     \* request -> what its caller has seen of it
    upstream,   \* requests on their way to the daemon
    downstream, \* messages on their way from the daemon
    executed    \* the requests the daemon carried out, in that order

socketVars == <<socket, reconnectTimeout>>
requestVars == <<queue, callbacks, issued, status>>
wireVars == <<upstream, downstream, executed>>
rpcVars == <<socketVars, requestVars, wireVars>>

Requests == 1..MaxRequests
Answer(r) == [type |-> "result", request |-> r]
Members(s) == {s[i] : i \in DOMAIN s}

RpcTypeOK ==
    /\ socket \in {"connecting", "open", "closing", "closed", "none"}
    /\ reconnectTimeout \in BOOLEAN
    /\ queue \in Seq(Requests)
    /\ callbacks \subseteq Requests
    /\ issued \in 0..MaxRequests
    /\ status \in [Requests -> {"new", "call", "post", "answered", "failed"}]
    /\ upstream \in Seq(Requests)
    /\ executed \in Seq(Requests)

RpcInit ==
    /\ socket = "connecting"
    /\ reconnectTimeout = FALSE
    /\ queue = <<>>
    /\ callbacks = {}
    /\ issued = 0
    /\ status = [r \in Requests |-> "new"]
    /\ upstream = <<>>
    /\ downstream = <<>>
    /\ executed = <<>>

-----------------------------------------------------------------------------
\* sendInternal for each request of s: a call's callback is registered when
\* the request is sent, not when send() was called.
Transmit(s, st) ==
    /\ upstream' = upstream \o s
    /\ callbacks' = callbacks \union {r \in Members(s) : st[r] = "call"}

\* send() with a callback (kind "call") or without one ("post").
Send(kind) ==
    LET r == issued + 1 IN
    /\ r \in Requests
    /\ issued' = r
    /\ \/ /\ socket = "none"
          /\ status' = [status EXCEPT ![r] = IF kind = "call" THEN "failed" ELSE kind]
          /\ UNCHANGED <<queue, callbacks, upstream>>
       \/ /\ socket = "open"
          /\ status' = [status EXCEPT ![r] = kind]
          /\ Transmit(<<r>>, status')
          /\ UNCHANGED queue
       \/ /\ socket \in {"connecting", "closing", "closed"}
          /\ status' = [status EXCEPT ![r] = kind]
          /\ queue' = Append(queue, r)
          /\ UNCHANGED <<callbacks, upstream>>
    /\ UNCHANGED <<socketVars, downstream, executed>>

\* Mutant: a flushed queue that is not emptied.
FlushedStays == queue' = queue

\* What _onopen leaves of the queue.
Flushed == queue' = <<>>

\* The connection is established: _onopen sends what is queued, and the daemon
\* begins with a greeting.
Opens(greeting) ==
    /\ socket = "connecting"
    /\ socket' = "open"
    /\ Transmit(queue, status)
    /\ Flushed
    /\ downstream' = greeting
    /\ UNCHANGED <<reconnectTimeout, issued, status, executed>>

-----------------------------------------------------------------------------
\* Mutant: reconnect() looks for CLOSING only.
ClosingOnly(s) == s = "closing" /\ ~reconnectTimeout

\* The condition of reconnect(), for the readyState s at the event.
MayReconnect(s) == s \in {"closing", "closed"} /\ ~reconnectTimeout

\* _onerror for an event at readyState s.
OnError(s) == reconnectTimeout' = (reconnectTimeout \/ MayReconnect(s))

\* What is on the wire of a socket that is gone is lost.
WireLost == upstream' = <<>> /\ downstream' = <<>>

\* The connection is refused: error at CONNECTING, then close at CLOSED.
Refused ==
    /\ socket = "connecting"
    /\ socket' = "closed"
    /\ OnError("closed")
    /\ UNCHANGED <<requestVars, wireVars>>

\* The other side starts the closing handshake, which calls no listener.
ServerCloses ==
    /\ socket = "open"
    /\ socket' = "closing"
    /\ WireLost
    /\ UNCHANGED <<reconnectTimeout, requestVars, executed>>

\* A protocol error closes the socket and is reported before it is closed.
SocketError ==
    /\ socket = "open"
    /\ socket' = "closing"
    /\ OnError("closing")
    /\ WireLost
    /\ UNCHANGED <<requestVars, executed>>

\* The socket is closed, by a handshake or by the loss of the connection.
Closes ==
    /\ socket \in {"open", "closing"}
    /\ socket' = "closed"
    /\ OnError("closed")
    /\ WireLost
    /\ UNCHANGED <<requestVars, executed>>

\* The timer of reconnect(): a socket that is still closing is abandoned.
ReconnectTimer ==
    /\ reconnectTimeout
    /\ reconnectTimeout' = FALSE
    /\ socket' = IF socket \in {"closing", "closed"} THEN "connecting" ELSE socket
    /\ UNCHANGED <<requestVars, wireVars>>

\* disconnect(): "ignoring all future calls".  The closing handshake follows
\* what was sent before, so that the daemon still gets it.
Disconnect ==
    /\ socket' = "none"
    /\ queue' = <<>>
    /\ callbacks' = {}
    /\ UNCHANGED <<reconnectTimeout, issued, status, wireVars>>

\* The socket given up by disconnect() is closed.
HandshakeEnds ==
    /\ socket = "none"
    /\ upstream # <<>> \/ downstream # <<>>
    /\ WireLost
    /\ UNCHANGED <<socketVars, requestVars, executed>>

-----------------------------------------------------------------------------
\* The daemon carries out the next request and sends back msgs.
Executes(msgs) ==
    /\ upstream # <<>>
    /\ upstream' = Tail(upstream)
    /\ executed' = Append(executed, Head(upstream))
    /\ downstream' = downstream \o msgs

\* The answer a request gets: none for a post.
AnswerTo(r) == IF status[r] = "call" THEN <<Answer(r)>> ELSE <<>>

\* _onmessage for a result: the callback is removed, then called.
OnResult(r) ==
    /\ callbacks' = callbacks \ {r}
    /\ status' = [status EXCEPT ![r] = IF r \in callbacks THEN "answered" ELSE @]

-----------------------------------------------------------------------------
\* The daemon carries out no request twice, and in the order of the calls of
\* send(), however often the connection is lost while some are queued and
\* others are on their way.
ExecutedInOrder ==
    \A i, j \in DOMAIN executed : i < j => executed[i] < executed[j]

\* A call is answered only if it was carried out, and one that was reported as
\* failed is not and never will be; a callback is kept exactly for the calls
\* that were sent, and neither answered nor given up by disconnect().
CallsAccounted ==
    \A r \in Requests :
        /\ status[r] = "answered" => r \in Members(executed)
        /\ status[r] = "failed" => r \notin Members(executed) \union Members(queue \o upstream)
        /\ r \in callbacks => status[r] = "call" /\ r \notin Members(queue)
        /\ (status[r] = "call" /\ socket # "none") => r \in callbacks \/ r \in Members(queue)

\* No request is lost, repeated or overtaken except by the loss of the connection it was
\* sent on, and a call is told what became of it as far as the client can know (send,
\* reconnect, disconnect).
RequestsKept == ExecutedInOrder /\ CallsAccounted

\* A socket that failed or was closed by the other side is replaced, or given
\* up by disconnect(): reconnect() looks at the state of the socket at an event
\* and again half a second later, and one timer serves all events.
Reconnects == socket \in {"closing", "closed"} ~> socket \in {"connecting", "none"}
=============================================================================
