---------------------------- MODULE MirrorProofs ----------------------------
(***************************************************************************)
(* The copies of the daemon's data in the client never fall behind for     *)
(* good, and no request is lost, repeated or overtaken but with the        *)
(* connection it was sent on: the invariants of RpcClient and ClientMirror *)
(* for any number of requests, fields, changes and unread messages.        *)
(***************************************************************************)
EXTENDS ClientMirror, SequenceTheorems, FiniteSetTheorems, TLAPS

-----------------------------------------------------------------------------
(* The inductive invariant.                                                *)

Positive == 1..MaxChanges
Complete == [Keys -> Positive]
Deltas == UNION {[keys -> Positive] : keys \in SUBSET Keys}
Answers == {Answer(r) : r \in Requests}

\* What travels from the daemon to main, and from main to the window.
DaemonMessages == {Data(delta) : delta \in Deltas} \cup Answers
WindowMessages ==
    {Up(data) : data \in Complete} \cup {Post(delta) : delta \in Deltas} \cup {Down} \cup Answers

Typed ==
    /\ MirrorTypeOK
    /\ real \in Complete

\* Requests leave the queue, go over the wire and are carried out in the order of their
\* numbers, and what is on its way is accounted for once.
Increasing(s) == \A i, j \in DOMAIN s : i < j => s[i] < s[j]
Below(s, t) == \A a \in Members(s), b \in Members(t) : a < b

InOrder ==
    /\ Increasing(executed) /\ Increasing(upstream) /\ Increasing(queue)
    /\ Below(executed, upstream) /\ Below(executed, queue) /\ Below(upstream, queue)
    /\ \A r \in Members(executed) \cup Members(upstream) \cup Members(queue) : r <= issued

\* An answer is on its way only for what was carried out.
AnswersCarried ==
    \A m \in Members(downstream) : m.type = "result" => m.request \in Members(executed)

NewAbove == \A r \in Requests : status[r] = "new" <=> r > issued

\* CallsAccounted, with the queue and the wire apart.
Accounts ==
    \A r \in Requests :
        /\ status[r] = "answered" => r \in Members(executed)
        /\ status[r] = "failed" => r \notin Members(executed) \cup Members(queue) \cup Members(upstream)
        /\ r \in callbacks => status[r] = "call" /\ r \notin Members(queue)
        /\ status[r] = "call" /\ socket # "none" => r \in callbacks \/ r \in Members(queue)

RequestsInv ==
    /\ RpcTypeOK
    /\ downstream \in Seq(DaemonMessages)
    /\ InOrder
    /\ AnswersCarried
    /\ NewAbove
    /\ Accounts
    /\ socket = "none" => callbacks = {}
    /\ socket = "open" => queue = <<>>

\* The wire is empty between two connections, and the first message of a connection waits
\* until main counts itself as connected.
WireKept ==
    /\ socket \in {"connecting", "closing", "closed"} => upstream = <<>> /\ downstream = <<>>
    /\ socket = "open" /\ ~isopen =>
          downstream # <<>> /\ Head(downstream).type = "data" /\ IsComplete(Head(downstream).delta)

\* The window exists once main has data, and calls only after it has them, too.
PagesKept ==
    /\ page = "none" => ipc = <<>>
    /\ page # "loaded" => ~opened /\ loaderOn
    /\ page # "none" => connected = "resolved"
    /\ isopen \/ connected = "resolved" => main \in Complete
    /\ opened => window \in Complete
    /\ issued > 0 => page = "loaded" /\ opened

\* What the window is told last about main's connection, when it believes b before.
Said(s, b) == IF Signals(s) = {} THEN b ELSE s[LastIn(Signals(s))].type = "up"

\* The values of Setting on their way in s only grow, from low to high.
GrowsIn(s, low, high) ==
    /\ low <= high
    /\ \A i \in About(s, Setting) :
          /\ low <= s[i].delta[Setting] /\ s[i].delta[Setting] <= high
          /\ \A j \in About(s, Setting) : i < j => s[i].delta[Setting] <= s[j].delta[Setting]

\* An answer on its way in s to a call of calls comes after the value that the call wrote,
\* or where low is as new already.
ToldIn(s, low, calls, written) ==
    \A i \in DOMAIN s :
        LET r == s[i].request IN
        s[i].type = "result" /\ r \in calls =>
            /\ written[r] > 0
            /\ \/ low >= written[r]
               \/ \E j \in About(s, Setting) : j < i /\ s[j].delta[Setting] >= written[r]

\* From position n on nothing older than w is on its way in s, and at position n there is
\* w or something newer (when n = 0, x is).
FreshIn(s, x, n, w) ==
    /\ IF n = 0 THEN x >= w ELSE n \in About(s, Setting) /\ s[n].delta[Setting] >= w
    /\ \A j \in About(s, Setting) : j > n => s[j].delta[Setting] >= w

\* The daemon carried r out, and main knows what it wrote.
Settled(r) == r \in Members(executed) /\ wrote[r] > 0 /\ main[Setting] >= wrote[r]

\* An answer reaches a window whose Setting is x after the value that its call wrote, and
\* what was answered is as new there for good.
ToldTo(s, x) ==
    \A i \in DOMAIN s :
        LET r == s[i].request IN
        s[i].type = "result" => Settled(r) /\ \E n \in 0..(i - 1) : FreshIn(s, x, n, wrote[r])
ReturnedTo(s, x) == \A r \in returned : Settled(r) /\ FreshIn(s, x, 0, wrote[r])

WireInv ==
    /\ WireKept
    /\ MainFollows
    /\ GrowsIn(downstream, main[Setting], real[Setting])
    /\ ToldIn(downstream, main[Setting], callbacks, wrote)

\* What the messages s tell the window, in the end, is that main has the data and is
\* connected, or not; nothing in s contradicts that to a page which has it already.
Tells(s, data, up) ==
    /\ s \in Seq(WindowMessages)
    /\ page = "loaded" /\ opened => \A k \in Keys : Latest(s, k, window[k]) = data[k]
    /\ page = "loaded" => Said(s, ~loaderOn) = up
    /\ \A k \in Keys : Latest(s, k, data[k]) = data[k]
    /\ Said(s, up) = up
    /\ ToldTo(s, window[Setting])
    /\ ReturnedTo(s, window[Setting])

WindowInv == PagesKept /\ Tells(ipc, main, isopen)

MirrorInv == Typed /\ RequestsInv /\ WireInv /\ WindowInv

-----------------------------------------------------------------------------
(* Sequences of requests: what is in them, and in which order.             *)

\* What a sequence holds, once something is appended to it or taken from its front.
LEMMA MembersOf ==
    ASSUME NEW S, NEW s \in Seq(S)
    PROVE  /\ Members(<<>>) = {} /\ Members(s) \subseteq S
           /\ \A x \in S : Append(s, x) \in Seq(S) /\ Members(Append(s, x)) = Members(s) \cup {x}
           /\ s # <<>> => /\ Head(s) \in S /\ Tail(s) \in Seq(S)
                          /\ Members(s) = {Head(s)} \cup Members(Tail(s))
<1>1. Len(s) \in Nat /\ DOMAIN s = 1..Len(s) /\ \A i \in 1..Len(s) : s[i] \in S
  BY LenProperties, ElementOfSeq
<1>2. Members(<<>>) = {} /\ Members(s) \subseteq S
  BY <1>1 DEF Members
<1>3. ASSUME NEW x \in S
      PROVE  Append(s, x) \in Seq(S) /\ Members(Append(s, x)) = Members(s) \cup {x}
  <2>1. /\ Append(s, x) \in Seq(S) /\ DOMAIN Append(s, x) = 1..(Len(s) + 1)
        /\ \A i \in 1..Len(s) : Append(s, x)[i] = s[i]
        /\ Append(s, x)[Len(s) + 1] = x
    BY <1>1, AppendProperties, LenProperties
  <2>2. 1..(Len(s) + 1) = 1..Len(s) \cup {Len(s) + 1}
    BY <1>1
  <2>. QED
    BY <2>1, <2>2, <1>1 DEF Members
<1>4. ASSUME s # <<>>
      PROVE  /\ Head(s) \in S /\ Tail(s) \in Seq(S)
             /\ Members(s) = {Head(s)} \cup Members(Tail(s))
  <2>1. /\ Head(s) \in S /\ Head(s) = s[1] /\ Tail(s) \in Seq(S) /\ Len(s) >= 1
        /\ DOMAIN Tail(s) = 1..(Len(s) - 1)
        /\ \A i \in 1..(Len(s) - 1) : Tail(s)[i] = s[i + 1]
    BY <1>1, <1>4, HeadTailProperties, LenProperties, EmptySeq
  <2>2. ASSUME NEW i \in 1..Len(s), i # 1 PROVE i - 1 \in 1..(Len(s) - 1) /\ Tail(s)[i - 1] = s[i]
    BY <2>1, <2>2, <1>1
  <2>3. ASSUME NEW i \in 1..Len(s) PROVE s[i] \in {Head(s)} \cup Members(Tail(s))
    <3>1. CASE i = 1
      BY <2>1, <3>1
    <3>2. CASE i # 1
      BY <2>1, <2>2, <3>2 DEF Members
    <3>. QED
      BY <3>1, <3>2
  <2>4. ASSUME NEW i \in 1..(Len(s) - 1) PROVE Tail(s)[i] \in Members(s)
    <3>1. i + 1 \in 1..Len(s)
      BY <1>1, <2>4
    <3>. QED
      BY <3>1, <2>1, <1>1 DEF Members
  <2>5. Head(s) \in Members(s)
    BY <2>1, <1>1 DEF Members
  <2>6. Members(s) \subseteq {Head(s)} \cup Members(Tail(s))
    BY <2>3, <1>1 DEF Members
  <2>7. Members(Tail(s)) \subseteq Members(s)
    BY <2>1, <2>4 DEF Members
  <2>. QED
    BY <2>1, <2>5, <2>6, <2>7
<1>. QED
  BY <1>2, <1>3, <1>4

\* What _onopen moves from the queue to the wire is what either held.
LEMMA MembersConcat ==
    ASSUME NEW S, NEW s \in Seq(S), NEW t \in Seq(S)
    PROVE  s \o t \in Seq(S) /\ Members(s \o t) = Members(s) \cup Members(t)
<1>1. /\ s \o t \in Seq(S)
      /\ DOMAIN s = 1..Len(s) /\ DOMAIN t = 1..Len(t) /\ DOMAIN (s \o t) = 1..(Len(s) + Len(t))
      /\ Len(s) \in Nat /\ Len(t) \in Nat
      /\ \A i \in 1..(Len(s) + Len(t)) : (s \o t)[i] = IF i <= Len(s) THEN s[i] ELSE t[i - Len(s)]
  BY ConcatProperties, LenProperties
<1>2. ASSUME NEW i \in 1..(Len(s) + Len(t)) PROVE (s \o t)[i] \in Members(s) \cup Members(t)
  BY <1>1, <1>2 DEF Members
<1>3. ASSUME NEW i \in 1..Len(s) PROVE s[i] \in Members(s \o t)
  BY <1>1, <1>3 DEF Members
<1>4. ASSUME NEW i \in 1..Len(t) PROVE t[i] \in Members(s \o t)
  <2>1. /\ i + Len(s) \in 1..(Len(s) + Len(t)) /\ ~ (i + Len(s) <= Len(s))
        /\ (i + Len(s)) - Len(s) = i
    BY <1>1, <1>4
  <2>. QED
    BY <1>1, <2>1 DEF Members
<1>. QED
  BY <1>1, <1>2, <1>3, <1>4 DEF Members

\* An increasing sequence stays one when something greater follows it or its front goes.
LEMMA IncreasingKept ==
    ASSUME NEW s \in Seq(Nat), Increasing(s)
    PROVE  /\ \A x \in Nat : (\A a \in Members(s) : a < x) => Increasing(Append(s, x))
           /\ s # <<>> => Increasing(Tail(s)) /\ \A a \in Members(Tail(s)) : Head(s) < a
<1>1. Len(s) \in Nat /\ DOMAIN s = 1..Len(s) /\ \A i \in 1..Len(s) : s[i] \in Nat
  BY LenProperties, ElementOfSeq
<1>2. ASSUME NEW x \in Nat, \A a \in Members(s) : a < x PROVE Increasing(Append(s, x))
  <2>1. /\ DOMAIN Append(s, x) = 1..(Len(s) + 1)
        /\ \A i \in 1..Len(s) : Append(s, x)[i] = s[i] /\ s[i] < x
        /\ Append(s, x)[Len(s) + 1] = x
    BY <1>1, <1>2, AppendProperties, LenProperties DEF Members
  <2>. SUFFICES ASSUME NEW i \in 1..(Len(s) + 1), NEW j \in 1..(Len(s) + 1), i < j
                PROVE  Append(s, x)[i] < Append(s, x)[j]
    BY <2>1 DEF Increasing
  <2>2. CASE j = Len(s) + 1
    BY <2>1, <2>2, <1>1
  <2>3. CASE j \in 1..Len(s)
    <3>1. i \in 1..Len(s) /\ s[i] < s[j]
      BY <2>3, <1>1 DEF Increasing
    <3>. QED
      BY <3>1, <2>1, <2>3
  <2>. QED
    BY <2>2, <2>3, <1>1
<1>3. ASSUME s # <<>> PROVE Increasing(Tail(s)) /\ \A a \in Members(Tail(s)) : Head(s) < a
  <2>1. /\ Head(s) = s[1] /\ Len(s) >= 1 /\ DOMAIN Tail(s) = 1..(Len(s) - 1)
        /\ \A i \in 1..(Len(s) - 1) : Tail(s)[i] = s[i + 1]
    BY <1>1, <1>3, HeadTailProperties, LenProperties, EmptySeq
  <2>2. \A i \in 1..(Len(s) - 1) : i + 1 \in DOMAIN s /\ 1 \in DOMAIN s /\ 1 < i + 1
    BY <1>1, <2>1
  <2>3. ASSUME NEW i \in 1..(Len(s) - 1), NEW j \in 1..(Len(s) - 1), i < j
        PROVE  Tail(s)[i] < Tail(s)[j]
    <3>1. i + 1 < j + 1
      BY <2>3
    <3>. QED
      BY <3>1, <2>1, <2>2 DEF Increasing
  <2>. QED
    BY <2>1, <2>2, <2>3 DEF Increasing, Members
<1>. QED
  BY <1>2, <1>3

\* So does one that another, greater one follows.
LEMMA IncreasingConcat ==
    ASSUME NEW s \in Seq(Nat), NEW t \in Seq(Nat), Increasing(s), Increasing(t), Below(s, t)
    PROVE  Increasing(s \o t)
<1>1. /\ DOMAIN s = 1..Len(s) /\ DOMAIN t = 1..Len(t) /\ DOMAIN (s \o t) = 1..(Len(s) + Len(t))
      /\ Len(s) \in Nat /\ Len(t) \in Nat
      /\ \A i \in 1..(Len(s) + Len(t)) : (s \o t)[i] = IF i <= Len(s) THEN s[i] ELSE t[i - Len(s)]
  BY ConcatProperties, LenProperties
<1>. SUFFICES ASSUME NEW i \in 1..(Len(s) + Len(t)), NEW j \in 1..(Len(s) + Len(t)), i < j
              PROVE  (s \o t)[i] < (s \o t)[j]
  BY <1>1 DEF Increasing
<1>2. CASE j <= Len(s)
  <2>1. i \in 1..Len(s) /\ j \in 1..Len(s) /\ i <= Len(s)
    BY <1>1, <1>2
  <2>2. s[i] < s[j]
    BY <2>1, <1>1 DEF Increasing
  <2>. QED
    BY <2>1, <2>2, <1>1, <1>2
<1>3. CASE i <= Len(s) /\ j > Len(s)
  <2>1. i \in 1..Len(s) /\ j - Len(s) \in 1..Len(t)
    BY <1>1, <1>3
  <2>2. s[i] \in Members(s) /\ t[j - Len(s)] \in Members(t)
    BY <1>1, <2>1 DEF Members
  <2>3. s[i] < t[j - Len(s)]
    BY <2>2 DEF Below
  <2>4. (s \o t)[i] = s[i] /\ (s \o t)[j] = t[j - Len(s)]
    BY <1>1, <1>3
  <2>. QED
    BY <2>3, <2>4
<1>4. CASE i > Len(s)
  <2>1. i - Len(s) \in 1..Len(t) /\ j - Len(s) \in 1..Len(t) /\ i - Len(s) < j - Len(s)
    BY <1>1, <1>4
  <2>2. t[i - Len(s)] < t[j - Len(s)]
    BY <2>1, <1>1 DEF Increasing
  <2>3. (s \o t)[i] = t[i - Len(s)] /\ (s \o t)[j] = t[j - Len(s)]
    BY <1>1, <1>4
  <2>. QED
    BY <2>2, <2>3
<1>. QED
  BY <1>1, <1>2, <1>3, <1>4

-----------------------------------------------------------------------------
(* Sequences of messages: the last word about a key.                       *)

\* A set of positions that is not empty has a last one.
LEMMA LastExists ==
    ASSUME NEW n \in Nat, NEW S, S \subseteq 1..n, S # {}
    PROVE  LastIn(S) \in S /\ \A j \in S : j <= LastIn(S)
<1>. DEFINE T == {(i + 1)..n : i \in S}
<1>1. IsWellFoundedOn(StrictSubsetOrdering(1..n), SUBSET (1..n))
  <2>1. IsFiniteSet(1..n)
    BY FS_Interval
  <2>. QED
    BY <2>1, FS_FiniteSubsetsOfFinite, FS_StrictSubsetOrderingWellFounded
<1>2. T \subseteq SUBSET (1..n) /\ T # {}
  <2>1. ASSUME NEW i \in S PROVE (i + 1)..n \subseteq 1..n
    <3>1. i \in 1..n
      OBVIOUS
    <3>. QED
      BY <3>1
  <2>. QED
    BY <2>1
<1>3. \A V \in T : \E j \in S : V = (j + 1)..n
  OBVIOUS
<1>4. \A j \in S : (j + 1)..n \in T
  OBVIOUS
<1>. HIDE DEF T
<1>5. PICK U \in T : \A V \in T : <<V, U>> \notin StrictSubsetOrdering(1..n)
  BY <1>1, <1>2, WFMin
<1>6. PICK i \in S : U = (i + 1)..n
  BY <1>3
<1>7. ASSUME NEW j \in S, j > i PROVE FALSE
  <2>1. i \in 1..n /\ j \in 1..n
    OBVIOUS
  <2>2. j \in U /\ j \notin (j + 1)..n /\ (j + 1)..n \subseteq U
    BY <1>6, <1>7, <2>1
  <2>3. <<(j + 1)..n, U>> \in StrictSubsetOrdering(1..n)
    BY <2>2, <1>2, <1>4 DEF StrictSubsetOrdering
  <2>. QED
    BY <2>3, <1>4, <1>5
<1>8. \A j \in S : j <= i
  <2>1. \A j \in S : j \in Nat /\ i \in Nat
    OBVIOUS
  <2>. QED
    BY <1>7, <2>1
<1>. QED
  BY <1>8 DEF LastIn

\* There is only one last position.
LEMMA LastIs ==
    ASSUME NEW S, S \subseteq Nat, NEW i \in S, \A j \in S : j <= i
    PROVE  LastIn(S) = i
<1>1. LastIn(S) \in S /\ \A j \in S : j <= LastIn(S)
  BY DEF LastIn
<1>2. i \in Nat /\ LastIn(S) \in Nat /\ LastIn(S) <= i /\ i <= LastIn(S)
  BY <1>1
<1>. QED
  BY <1>2

\* The last position stays the last when all but the last m places of l are cut off.
LEMMA LastShift ==
    ASSUME NEW l \in Nat, NEW m \in 0..l, NEW S, S \subseteq 1..l, NEW T, T \subseteq 1..m,
           T # {}, \A i \in 1..m : i \in T <=> i + (l - m) \in S
    PROVE  LastIn(T) \in T /\ LastIn(S) = LastIn(T) + (l - m)
<1>. DEFINE i == LastIn(T)
<1>1. i \in T /\ \A j \in T : j <= i
  <2>1. m \in Nat
    OBVIOUS
  <2>. QED
    BY <2>1, LastExists
<1>. HIDE DEF i
<1>2. i \in 1..m /\ i + (l - m) \in S
  BY <1>1
<1>3. ASSUME NEW j \in S PROVE j <= i + (l - m)
  <2>1. CASE j > l - m
    <3>1. j - (l - m) \in 1..m /\ (j - (l - m)) + (l - m) = j
      BY <2>1
    <3>2. j - (l - m) \in T
      BY <3>1
    <3>. QED
      BY <3>1, <3>2, <1>1, <1>2
  <2>2. CASE j <= l - m
    BY <2>2, <1>2
  <2>. QED
    BY <2>1, <2>2
<1>4. LastIn(S) = i + (l - m)
  <2>1. S \subseteq Nat
    OBVIOUS
  <2>. QED
    BY <2>1, <1>2, <1>3, LastIs
<1>. QED
  BY <1>1, <1>4 DEF i

\* Whether a message is about a key, or says whether main is connected.
Speaks(m, k) == m.type # "result" /\ k \in DOMAIN m.delta
Signalling(m) == m.type \in {"up", "down"}

\* The positions of the messages about a key, and of those about main's connection.
LEMMA Positions ==
    ASSUME NEW S, NEW s \in Seq(S), NEW k
    PROVE  /\ Len(s) \in Nat /\ About(s, k) \subseteq 1..Len(s) /\ Signals(s) \subseteq 1..Len(s)
           /\ \A i \in 1..Len(s) : /\ s[i] \in S
                                   /\ i \in About(s, k) <=> Speaks(s[i], k)
                                   /\ i \in Signals(s) <=> Signalling(s[i])
<1>1. Len(s) \in Nat /\ DOMAIN s = 1..Len(s) /\ \A i \in 1..Len(s) : s[i] \in S
  BY LenProperties, ElementOfSeq
<1>. QED
  BY <1>1 DEF About, Signals, Speaks, Signalling

\* A message that follows has the last word if it is about the key.
LEMMA LatestAppend ==
    ASSUME NEW S, NEW s \in Seq(S), NEW m \in S, NEW k, NEW v
    PROVE  /\ Append(s, m) \in Seq(S)
           /\ Latest(Append(s, m), k, v) = IF Speaks(m, k) THEN m.delta[k] ELSE Latest(s, k, v)
           /\ About(Append(s, m), k)
                 = About(s, k) \cup (IF Speaks(m, k) THEN {Len(s) + 1} ELSE {})
<1>. DEFINE t == Append(s, m)
<1>1. /\ t \in Seq(S) /\ Len(t) = Len(s) + 1 /\ t[Len(s) + 1] = m
      /\ \A i \in 1..Len(s) : t[i] = s[i]
  BY AppendProperties
<1>. HIDE DEF t
<1>2. /\ Len(s) \in Nat /\ About(s, k) \subseteq 1..Len(s) /\ About(t, k) \subseteq 1..(Len(s) + 1)
      /\ \A i \in 1..Len(s) : i \in About(s, k) <=> Speaks(s[i], k)
      /\ \A i \in 1..(Len(s) + 1) : i \in About(t, k) <=> Speaks(t[i], k)
  BY <1>1, Positions
<1>3. About(t, k) = About(s, k) \cup (IF Speaks(m, k) THEN {Len(s) + 1} ELSE {})
  <2>1. 1..(Len(s) + 1) = 1..Len(s) \cup {Len(s) + 1}
    BY <1>2
  <2>2. \A i \in 1..Len(s) : i \in About(t, k) <=> i \in About(s, k)
    BY <1>1, <1>2, <2>1
  <2>3. Len(s) + 1 \in About(t, k) <=> Speaks(m, k)
    BY <1>1, <1>2, <2>1
  <2>. QED
    BY <1>2, <2>1, <2>2, <2>3
<1>4. CASE Speaks(m, k)
  <2>1. About(t, k) \subseteq Nat /\ Len(s) + 1 \in About(t, k) /\ \A j \in About(t, k) : j <= Len(s) + 1
    BY <1>2, <1>3, <1>4
  <2>2. LastIn(About(t, k)) = Len(s) + 1
    BY <2>1, LastIs
  <2>3. About(t, k) # {}
    BY <2>1
  <2>. QED
    BY <1>1, <1>3, <1>4, <2>2, <2>3 DEF Latest, t
<1>5. CASE ~Speaks(m, k)
  <2>1. About(t, k) = About(s, k)
    BY <1>3, <1>5
  <2>2. CASE About(s, k) = {}
    BY <2>1, <2>2, <1>1, <1>3, <1>5 DEF Latest, t
  <2>3. CASE About(s, k) # {}
    <3>1. LastIn(About(s, k)) \in 1..Len(s)
      BY <2>3, <1>2, LastExists
    <3>. QED
      BY <3>1, <2>1, <2>3, <1>1, <1>3, <1>5 DEF Latest, t
  <2>. QED
    BY <2>2, <2>3
<1>. QED
  BY <1>4, <1>5

\* t is what is left of s once some messages at its front are gone.
EndOf(t, s) == Len(t) <= Len(s) /\ \A i \in 1..Len(t) : t[i] = s[i + (Len(s) - Len(t))]

\* What is left of the messages, if it is about the key, has the same last word.
LEMMA LatestSuffix ==
    ASSUME NEW S, NEW s \in Seq(S), NEW t \in Seq(S), EndOf(t, s), NEW k
    PROVE  /\ \A i \in 1..Len(t) : i \in About(t, k) <=> i + (Len(s) - Len(t)) \in About(s, k)
           /\ \A v : About(t, k) = {} => Latest(t, k, v) = v
           /\ \A v, w : About(t, k) # {} => Latest(t, k, v) = Latest(s, k, w)
<1>. DEFINE n == Len(s) - Len(t)
<1>1. /\ Len(s) \in Nat /\ About(s, k) \subseteq 1..Len(s)
      /\ Len(t) \in Nat /\ About(t, k) \subseteq 1..Len(t)
      /\ \A i \in 1..Len(s) : i \in About(s, k) <=> Speaks(s[i], k)
      /\ \A i \in 1..Len(t) : (i \in About(t, k) <=> Speaks(t[i], k)) /\ t[i] = s[i + n]
      /\ n \in 0..Len(s) /\ Len(t) = Len(s) - n
  BY Positions DEF EndOf
<1>. HIDE DEF n
<1>2. \A i \in 1..Len(t) : i + n \in 1..Len(s)
  BY <1>1
<1>3. \A i \in 1..Len(t) : i \in About(t, k) <=> i + n \in About(s, k)
  BY <1>1, <1>2
<1>4. ASSUME About(t, k) # {}, NEW v, NEW w PROVE Latest(t, k, v) = Latest(s, k, w)
  <2>. DEFINE i == LastIn(About(t, k))
  <2>1. i \in About(t, k) /\ LastIn(About(s, k)) = i + n
    <3>1. /\ Len(t) \in 0..Len(s)
          /\ \A x \in 1..Len(t) : x \in About(t, k) <=> x + (Len(s) - Len(t)) \in About(s, k)
      BY <1>1, <1>3 DEF n
    <3>2. Len(s) \in Nat /\ About(s, k) \subseteq 1..Len(s) /\ About(t, k) \subseteq 1..Len(t)
      BY <1>1
    <3>3. LastIn(About(t, k)) \in About(t, k) /\ LastIn(About(s, k)) = LastIn(About(t, k)) + (Len(s) - Len(t))
      BY <3>1, <3>2, <1>4, LastShift
    <3>. QED
      BY <3>3 DEF n
  <2>. HIDE DEF i
  <2>2. i \in 1..Len(t) /\ i + n \in About(s, k) /\ t[i] = s[i + n]
    BY <2>1, <1>1, <1>3
  <2>. QED
    BY <2>1, <2>2, <1>4 DEF Latest, i
<1>. QED
  BY <1>3, <1>4 DEF Latest, n

\* The rest of the messages says the same as all of them, once the first was taken in.
LEMMA LatestTail ==
    ASSUME NEW S, NEW s \in Seq(S), s # <<>>, NEW k, NEW v
    PROVE  /\ Tail(s) \in Seq(S)
           /\ \A i \in 1..(Len(s) - 1) : i \in About(Tail(s), k) <=> i + 1 \in About(s, k)
           /\ Latest(s, k, v)
                 = Latest(Tail(s), k, IF Speaks(Head(s), k) THEN Head(s).delta[k] ELSE v)
<1>1. /\ Tail(s) \in Seq(S) /\ Len(Tail(s)) = Len(s) - 1 /\ Head(s) = s[1]
      /\ \A i \in 1..Len(Tail(s)) : Tail(s)[i] = s[i + 1]
      /\ Len(s) \in Nat /\ Len(s) >= 1
  BY HeadTailProperties, LenProperties, EmptySeq
<1>2. /\ \A i \in 1..Len(Tail(s)) : i \in About(Tail(s), k) <=> i + 1 \in About(s, k)
      /\ \A x : About(Tail(s), k) = {} => Latest(Tail(s), k, x) = x
      /\ \A x, w : About(Tail(s), k) # {} => Latest(Tail(s), k, x) = Latest(s, k, w)
  <2>1. Len(s) - Len(Tail(s)) = 1
    BY <1>1
  <2>2. EndOf(Tail(s), s)
    BY <1>1, <2>1 DEF EndOf
  <2>3. /\ \A i \in 1..Len(Tail(s)) :
              i \in About(Tail(s), k) <=> i + (Len(s) - Len(Tail(s))) \in About(s, k)
        /\ \A x : About(Tail(s), k) = {} => Latest(Tail(s), k, x) = x
        /\ \A x, w : About(Tail(s), k) # {} => Latest(Tail(s), k, x) = Latest(s, k, w)
    <3>. DEFINE t == Tail(s)
    <3>1. t \in Seq(S) /\ EndOf(t, s)
      BY <1>1, <2>2
    <3>. HIDE DEF t
    <3>2. /\ \A i \in 1..Len(t) : i \in About(t, k) <=> i + (Len(s) - Len(t)) \in About(s, k)
          /\ \A x : About(t, k) = {} => Latest(t, k, x) = x
          /\ \A x, w : About(t, k) # {} => Latest(t, k, x) = Latest(s, k, w)
      BY <3>1, LatestSuffix
    <3>. QED
      BY <3>2 DEF t
  <2>. QED
    BY <2>1, <2>3
<1>3. CASE About(Tail(s), k) # {}
  BY <1>1, <1>2, <1>3
<1>4. CASE About(Tail(s), k) = {}
  <2>1. /\ About(s, k) \subseteq 1..Len(s) /\ \A i \in 1..Len(s) : i \in About(s, k) <=> Speaks(s[i], k)
    BY Positions
  <2>2. ASSUME NEW i \in About(s, k) PROVE i = 1
    <3>1. i \in 1..Len(s) /\ (i # 1 => i - 1 \in 1..Len(Tail(s)) /\ (i - 1) + 1 = i)
      BY <2>1, <1>1
    <3>. QED
      BY <3>1, <1>2, <1>4
  <2>3. About(s, k) = IF Speaks(Head(s), k) THEN {1} ELSE {}
    <3>1. 1 \in About(s, k) <=> Speaks(Head(s), k)
      BY <2>1, <1>1
    <3>. QED
      BY <3>1, <2>2
  <2>4. CASE Speaks(Head(s), k)
    <3>1. LastIn(About(s, k)) = 1
      BY <2>3, <2>4, LastIs
    <3>. QED
      BY <3>1, <2>3, <2>4, <1>1, <1>2, <1>4 DEF Latest
  <2>5. CASE ~Speaks(Head(s), k)
    BY <2>3, <2>5, <1>1, <1>2, <1>4 DEF Latest
  <2>. QED
    BY <2>4, <2>5
<1>. QED
  BY <1>3, <1>4

\* An "up" or a "down" that follows has the last word.
LEMMA SaidAppend ==
    ASSUME NEW S, NEW s \in Seq(S), NEW m \in S, NEW b
    PROVE  Said(Append(s, m), b) = IF Signalling(m) THEN m.type = "up" ELSE Said(s, b)
<1>. DEFINE t == Append(s, m)
<1>1. /\ t \in Seq(S) /\ Len(t) = Len(s) + 1 /\ t[Len(s) + 1] = m
      /\ \A i \in 1..Len(s) : t[i] = s[i]
  BY AppendProperties
<1>. HIDE DEF t
<1>2. /\ Len(s) \in Nat /\ Signals(s) \subseteq 1..Len(s) /\ Signals(t) \subseteq 1..(Len(s) + 1)
      /\ \A i \in 1..Len(s) : i \in Signals(s) <=> Signalling(s[i])
      /\ \A i \in 1..(Len(s) + 1) : i \in Signals(t) <=> Signalling(t[i])
  BY <1>1, Positions
<1>3. 1..(Len(s) + 1) = 1..Len(s) \cup {Len(s) + 1}
  BY <1>2
<1>4. Signals(t) = Signals(s) \cup (IF Signalling(m) THEN {Len(s) + 1} ELSE {})
  <2>1. \A i \in 1..Len(s) : i \in Signals(t) <=> i \in Signals(s)
    BY <1>1, <1>2, <1>3
  <2>2. Len(s) + 1 \in Signals(t) <=> Signalling(m)
    BY <1>1, <1>2, <1>3
  <2>. QED
    BY <1>2, <1>3, <2>1, <2>2
<1>5. CASE Signalling(m)
  <2>1. Signals(t) \subseteq Nat /\ Len(s) + 1 \in Signals(t) /\ \A j \in Signals(t) : j <= Len(s) + 1
    BY <1>2, <1>4, <1>5
  <2>2. LastIn(Signals(t)) = Len(s) + 1
    BY <2>1, LastIs
  <2>3. Signals(t) # {}
    BY <2>1
  <2>. QED
    BY <1>1, <1>5, <2>2, <2>3 DEF Said, t
<1>6. CASE ~Signalling(m)
  <2>1. Signals(t) = Signals(s)
    BY <1>4, <1>6
  <2>2. CASE Signals(s) = {}
    BY <2>1, <2>2, <1>6 DEF Said, t
  <2>3. CASE Signals(s) # {}
    <3>1. LastIn(Signals(s)) \in 1..Len(s)
      BY <2>3, <1>2, LastExists
    <3>. QED
      BY <3>1, <2>1, <2>3, <1>1, <1>6 DEF Said, t
  <2>. QED
    BY <2>2, <2>3
<1>. QED
  BY <1>5, <1>6

\* The end of the messages says what all of them say.
LEMMA SaidSuffix ==
    ASSUME NEW S, NEW s \in Seq(S), NEW t \in Seq(S), EndOf(t, s)
    PROVE  /\ \A i \in 1..Len(t) : i \in Signals(t) <=> i + (Len(s) - Len(t)) \in Signals(s)
           /\ \A b : Signals(t) = {} => Said(t, b) = b
           /\ \A a, b : Signals(t) # {} => Said(t, a) = Said(s, b)
<1>. DEFINE n == Len(s) - Len(t)
<1>1. /\ Len(s) \in Nat /\ Signals(s) \subseteq 1..Len(s)
      /\ Len(t) \in Nat /\ Signals(t) \subseteq 1..Len(t)
      /\ \A i \in 1..Len(s) : i \in Signals(s) <=> Signalling(s[i])
      /\ \A i \in 1..Len(t) : (i \in Signals(t) <=> Signalling(t[i])) /\ t[i] = s[i + n]
      /\ n \in 0..Len(s) /\ Len(t) = Len(s) - n
  BY Positions DEF EndOf
<1>. HIDE DEF n
<1>2. \A i \in 1..Len(t) : i + n \in 1..Len(s)
  BY <1>1
<1>3. \A i \in 1..Len(t) : i \in Signals(t) <=> i + n \in Signals(s)
  BY <1>1, <1>2
<1>4. ASSUME Signals(t) # {}, NEW a, NEW b PROVE Said(t, a) = Said(s, b)
  <2>. DEFINE i == LastIn(Signals(t))
  <2>1. i \in Signals(t) /\ LastIn(Signals(s)) = i + n
    <3>1. /\ Len(t) \in 0..Len(s)
          /\ \A x \in 1..Len(t) : x \in Signals(t) <=> x + (Len(s) - Len(t)) \in Signals(s)
      BY <1>1, <1>3 DEF n
    <3>2. Len(s) \in Nat /\ Signals(s) \subseteq 1..Len(s) /\ Signals(t) \subseteq 1..Len(t)
      BY <1>1
    <3>3. LastIn(Signals(t)) \in Signals(t) /\ LastIn(Signals(s)) = LastIn(Signals(t)) + (Len(s) - Len(t))
      BY <3>1, <3>2, <1>4, LastShift
    <3>. QED
      BY <3>3 DEF n
  <2>. HIDE DEF i
  <2>2. i \in 1..Len(t) /\ i + n \in Signals(s) /\ t[i] = s[i + n]
    BY <2>1, <1>1, <1>3
  <2>. QED
    BY <2>1, <2>2, <1>4 DEF Said, i
<1>. QED
  BY <1>3, <1>4 DEF Said, n

\* The first message taken in, the rest says the same as all did.
LEMMA SaidTail ==
    ASSUME NEW S, NEW s \in Seq(S), s # <<>>, NEW b
    PROVE  Said(s, b) = Said(Tail(s), IF Signalling(Head(s)) THEN Head(s).type = "up" ELSE b)
<1>. DEFINE t == Tail(s)
<1>1. /\ t \in Seq(S) /\ Len(t) = Len(s) - 1 /\ Head(s) = s[1]
      /\ \A i \in 1..Len(t) : t[i] = s[i + 1]
      /\ Len(s) \in Nat /\ Len(s) >= 1
  BY HeadTailProperties, LenProperties, EmptySeq
<1>. HIDE DEF t
<1>2. Len(s) - Len(t) = 1 /\ EndOf(t, s)
  BY <1>1 DEF EndOf
<1>3. /\ \A i \in 1..Len(t) : i \in Signals(t) <=> i + (Len(s) - Len(t)) \in Signals(s)
      /\ \A x : Signals(t) = {} => Said(t, x) = x
      /\ \A x, y : Signals(t) # {} => Said(t, x) = Said(s, y)
  BY <1>1, <1>2, SaidSuffix
<1>4. CASE Signals(t) # {}
  BY <1>3, <1>4 DEF t
<1>5. CASE Signals(t) = {}
  <2>1. Signals(s) \subseteq 1..Len(s) /\ \A i \in 1..Len(s) : i \in Signals(s) <=> Signalling(s[i])
    BY Positions
  <2>2. ASSUME NEW i \in Signals(s) PROVE i = 1
    <3>1. i \in 1..Len(s) /\ (i # 1 => i - 1 \in 1..Len(t) /\ (i - 1) + 1 = i)
      BY <2>1, <1>1
    <3>. QED
      BY <3>1, <1>2, <1>3, <1>5
  <2>3. 1 \in Signals(s) <=> Signalling(Head(s))
    BY <2>1, <1>1
  <2>4. CASE Signalling(Head(s))
    <3>1. Signals(s) = {1}
      BY <2>2, <2>3, <2>4
    <3>2. LastIn(Signals(s)) = 1
      BY <3>1, LastIs
    <3>3. Said(s, b) = (Head(s).type = "up")
      BY <3>1, <3>2, <1>1 DEF Said
    <3>. QED
      BY <3>3, <2>4, <1>3, <1>5 DEF t
  <2>5. CASE ~Signalling(Head(s))
    <3>1. Signals(s) = {}
      BY <2>2, <2>3, <2>5
    <3>. QED
      BY <3>1, <2>5, <1>3, <1>5 DEF Said, t
  <2>. QED
    BY <2>4, <2>5
<1>. QED
  BY <1>4, <1>5

-----------------------------------------------------------------------------
(* Requests: what each operation of the socket and of its two ends does to *)
(* them.                                                                   *)

\* What CallsAccounted says of queue \o upstream, said of each of the two.
LEMMA AccountsIsCallsAccounted == ASSUME RpcTypeOK PROVE CallsAccounted <=> Accounts
<1>1. Members(queue \o upstream) = Members(queue) \cup Members(upstream)
  BY MembersConcat DEF RpcTypeOK
<1>. QED
  BY <1>1 DEF CallsAccounted, Accounts

\* Numbers of requests, wherever they are.
LEMMA RequestNumbers ==
    ASSUME RpcTypeOK
    PROVE  /\ Requests \subseteq Nat /\ issued \in Nat /\ MaxRequests \in Nat
           /\ Members(executed) \subseteq Requests /\ Members(upstream) \subseteq Requests
           /\ Members(queue) \subseteq Requests
           /\ executed \in Seq(Nat) /\ upstream \in Seq(Nat) /\ queue \in Seq(Nat)
<1>1. Requests \subseteq Nat /\ issued \in Nat /\ MaxRequests \in Nat
  BY RpcAssumption DEF Requests, RpcTypeOK
<1>. QED
  BY <1>1, MembersOf, SeqMonotonic DEF RpcTypeOK

\* send(): a new number is above all others.
LEMMA SendRequests ==
    ASSUME RequestsInv, NEW kind \in {"call", "post"}, Send(kind)
    PROVE  RequestsInv'
<1>. DEFINE r == issued + 1
<1>1. /\ RpcTypeOK /\ InOrder /\ NewAbove /\ Accounts /\ AnswersCarried
      /\ downstream \in Seq(DaemonMessages)
      /\ (socket = "none" => callbacks = {}) /\ (socket = "open" => queue = <<>>)
  BY DEF RequestsInv
<1>2. /\ r \in Requests /\ issued' = r /\ socket' = socket /\ reconnectTimeout' = reconnectTimeout
      /\ downstream' = downstream /\ executed' = executed
  BY DEF Send, socketVars
<1>3. /\ status \in [Requests -> {"new", "call", "post", "answered", "failed"}]
      /\ issued \in Nat /\ status[r] = "new"
      /\ \A x \in Members(executed) \cup Members(upstream) \cup Members(queue) : x \in Nat /\ x < r
      /\ r \notin callbacks
  <2>1. issued \in Nat /\ \A x \in Members(executed) \cup Members(upstream) \cup Members(queue) :
                             x \in Nat /\ x <= issued
    BY <1>1, RequestNumbers DEF InOrder
  <2>2. status[r] = "new"
    BY <1>1, <1>2, <2>1 DEF NewAbove
  <2>. QED
    BY <2>1, <2>2, <1>1, <1>2 DEF Accounts, RpcTypeOK
<1>4. PICK new \in {"call", "post", "failed"} : status' = [status EXCEPT ![r] = new]
  BY DEF Send
<1>5. /\ status' \in [Requests -> {"new", "call", "post", "answered", "failed"}]
      /\ status'[r] = new /\ \A x \in Requests : x # r => status'[x] = status[x]
  BY <1>2, <1>3, <1>4
<1>6. NewAbove'
  BY <1>1, <1>2, <1>3, <1>5, RequestNumbers DEF NewAbove
<1>7. /\ queue \in Seq(Requests) /\ upstream \in Seq(Requests) /\ executed \in Seq(Requests)
      /\ callbacks \subseteq Requests
  BY <1>1 DEF RpcTypeOK
<1>11. issued \in Nat /\ r \in Nat /\ issued < r
  BY <1>3
<1>. HIDE DEF r
<1>8. CASE socket = "none"
  <2>1. UNCHANGED <<queue, callbacks, upstream>> /\ new # "call"
    <3>1. /\ UNCHANGED <<queue, callbacks, upstream>>
          /\ status' = [status EXCEPT ![r] = IF kind = "call" THEN "failed" ELSE kind]
      BY <1>8 DEF Send, r
    <3>. QED
      BY <3>1, <1>2, <1>3, <1>5
  <2>2. InOrder'
    BY <2>1, <1>1, <1>2, <1>3, <1>11 DEF InOrder
  <2>3. Accounts'
    BY <2>1, <1>1, <1>2, <1>3, <1>5, <1>8 DEF Accounts
  <2>4. RpcTypeOK'
    BY <2>1, <1>1, <1>2, <1>5 DEF RpcTypeOK, Requests
  <2>. QED
    BY <2>1, <2>2, <2>3, <2>4, <1>1, <1>2, <1>6, <1>8 DEF RequestsInv, AnswersCarried
<1>9. CASE socket = "open"
  <2>1. /\ queue' = queue /\ upstream' = upstream \o <<r>> /\ new = kind
        /\ callbacks' = callbacks \cup {x \in Members(<<r>>) : status'[x] = "call"}
    <3>1. /\ status' = [status EXCEPT ![r] = kind]
          /\ Transmit(<<r>>, status') /\ queue' = queue
      BY <1>9 DEF Send, r
    <3>. QED
      BY <3>1, <1>2, <1>3, <1>5 DEF Transmit
  <2>2. /\ upstream' = Append(upstream, r) /\ Members(<<r>>) = {r}
    <3>1. upstream \o <<r>> = Append(upstream, r)
      BY <1>2, <1>7, AppendIsConcat
    <3>. QED
      BY <2>1, <3>1 DEF Members
  <2>3. upstream' \in Seq(Requests) /\ Members(upstream') = Members(upstream) \cup {r}
    BY <2>2, <1>2, <1>7, MembersOf
  <2>4. Increasing(upstream')
    BY <2>2, <1>1, <1>3, <1>11, RequestNumbers, IncreasingKept DEF InOrder
  <2>5. InOrder'
    <3>1. Increasing(executed') /\ Increasing(queue')
      BY <2>1, <1>1, <1>2 DEF InOrder
    <3>2. Members(queue') = {}
      BY <2>1, <1>1, <1>9, MembersOf
    <3>3. Below(executed', upstream')
      BY <2>3, <1>1, <1>2, <1>3 DEF InOrder, Below
    <3>4. Below(executed', queue') /\ Below(upstream', queue')
      BY <3>2 DEF Below
    <3>5. \A x \in Members(executed') \cup Members(upstream') \cup Members(queue') : x <= issued'
      BY <2>3, <3>2, <1>1, <1>2, <1>3, <1>11
    <3>. QED
      BY <2>4, <3>1, <3>3, <3>4, <3>5 DEF InOrder
  <2>6. callbacks' = IF new = "call" THEN callbacks \cup {r} ELSE callbacks
    BY <2>1, <2>2, <1>5
  <2>7. Accounts'
    BY <2>1, <2>3, <2>6, <1>1, <1>2, <1>3, <1>5, <1>9 DEF Accounts
  <2>8. RpcTypeOK'
    <3>1. callbacks' \subseteq Requests
      BY <2>6, <1>2, <1>7
    <3>2. issued' \in 0..MaxRequests
      BY <1>2, <1>11 DEF Requests
    <3>3. queue' \in Seq(Requests) /\ executed' \in Seq(Requests)
      BY <2>1, <1>2, <1>7
    <3>4. socket' \in {"connecting", "open", "closing", "closed", "none"} /\ reconnectTimeout' \in BOOLEAN
      BY <1>1, <1>2 DEF RpcTypeOK
    <3>. QED
      BY <3>1, <3>2, <3>3, <3>4, <2>3, <1>5 DEF RpcTypeOK
  <2>. QED
    BY <2>1, <2>5, <2>7, <2>8, <1>1, <1>2, <1>6, <1>9 DEF RequestsInv, AnswersCarried
<1>10. CASE socket \in {"connecting", "closing", "closed"}
  <2>1. UNCHANGED <<callbacks, upstream>> /\ queue' = Append(queue, r) /\ new = kind
    <3>1. /\ status' = [status EXCEPT ![r] = kind]
          /\ UNCHANGED <<callbacks, upstream>> /\ queue' = Append(queue, r)
      BY <1>10 DEF Send, r
    <3>. QED
      BY <3>1, <1>2, <1>3, <1>5
  <2>2. queue' \in Seq(Requests) /\ Members(queue') = Members(queue) \cup {r}
    BY <2>1, <1>2, <1>7, MembersOf
  <2>3. Increasing(queue')
    BY <2>1, <1>1, <1>3, <1>11, RequestNumbers, IncreasingKept DEF InOrder
  <2>4. InOrder'
    <3>1. Increasing(executed') /\ Increasing(upstream') /\ Below(executed', upstream')
      BY <2>1, <1>1, <1>2 DEF InOrder
    <3>2. Below(executed', queue') /\ Below(upstream', queue')
      BY <2>1, <2>2, <1>1, <1>2, <1>3 DEF InOrder, Below
    <3>3. \A x \in Members(executed') \cup Members(upstream') \cup Members(queue') : x <= issued'
      BY <2>1, <2>2, <1>2, <1>3, <1>11
    <3>. QED
      BY <2>3, <3>1, <3>2, <3>3 DEF InOrder
  <2>5. Accounts'
    BY <2>1, <2>2, <1>1, <1>2, <1>3, <1>5, <1>10 DEF Accounts
  <2>6. RpcTypeOK'
    BY <2>1, <2>2, <1>1, <1>2, <1>5 DEF RpcTypeOK, Requests
  <2>. QED
    BY <2>1, <2>4, <2>5, <2>6, <1>1, <1>2, <1>6, <1>10 DEF RequestsInv, AnswersCarried
<1>. QED
  BY <1>1, <1>8, <1>9, <1>10 DEF RpcTypeOK

\* _onopen: the queue goes to the wire, and its calls get their callbacks.
LEMMA OpensRequests ==
    ASSUME RequestsInv, NEW greeting \in Seq(DaemonMessages),
           \A m \in Members(greeting) : m.type # "result", Opens(greeting)
    PROVE  RequestsInv'
<1>1. /\ RpcTypeOK /\ InOrder /\ NewAbove /\ Accounts /\ socket = "connecting"
  BY DEF RequestsInv, Opens
<1>2. /\ socket' = "open" /\ reconnectTimeout' = reconnectTimeout /\ issued' = issued
      /\ status' = status /\ executed' = executed /\ queue' = <<>> /\ downstream' = greeting
      /\ upstream' = upstream \o queue
      /\ callbacks' = callbacks \cup {r \in Members(queue) : status[r] = "call"}
  BY DEF Opens, Transmit, Flushed
<1>3. /\ upstream' \in Seq(Requests) /\ Members(upstream') = Members(upstream) \cup Members(queue)
      /\ queue' \in Seq(Requests) /\ Members(queue') = {}
      /\ Members(queue) \subseteq Requests
  BY <1>1, <1>2, MembersConcat, MembersOf, EmptySeq DEF RpcTypeOK
<1>4. InOrder'
  <2>1. Increasing(upstream')
    BY <1>1, <1>2, RequestNumbers, IncreasingConcat DEF InOrder
  <2>2. Increasing(queue')
    BY <1>2 DEF Increasing
  <2>3. Below(executed', upstream') /\ Below(executed', queue') /\ Below(upstream', queue')
    BY <1>1, <1>2, <1>3 DEF InOrder, Below
  <2>. QED
    BY <2>1, <2>2, <2>3, <1>1, <1>2, <1>3 DEF InOrder
<1>5. Accounts'
  BY <1>1, <1>2, <1>3 DEF Accounts
<1>6. RpcTypeOK'
  <2>1. callbacks' \subseteq Requests
    BY <1>1, <1>2, <1>3 DEF RpcTypeOK
  <2>. QED
    BY <2>1, <1>1, <1>2, <1>3 DEF RpcTypeOK
<1>. QED
  BY <1>1, <1>2, <1>4, <1>5, <1>6 DEF RequestsInv, AnswersCarried, NewAbove

\* Whatever happens to the connection, requests are lost on the wire only.
LEMMA ConnectionRequests ==
    ASSUME RequestsInv, UNCHANGED <<requestVars, executed>>, reconnectTimeout' \in BOOLEAN,
           \/ UNCHANGED socket
           \/ socket # "none" /\ socket' \in {"connecting", "closing", "closed"},
           WireLost \/ UNCHANGED <<upstream, downstream>>
    PROVE  RequestsInv'
<1>1. /\ RpcTypeOK /\ InOrder /\ NewAbove /\ Accounts /\ AnswersCarried
      /\ downstream \in Seq(DaemonMessages)
      /\ (socket = "none" => callbacks = {}) /\ (socket = "open" => queue = <<>>)
  BY DEF RequestsInv
<1>2. /\ UNCHANGED <<queue, callbacks, issued, status, executed>>
      /\ socket' \in {"connecting", "open", "closing", "closed", "none"}
      /\ socket' = "none" <=> socket = "none"
      /\ socket' = "open" => socket = "open"
  BY <1>1 DEF requestVars, RpcTypeOK
<1>3. /\ upstream' \in Seq(Requests) /\ Members(upstream') \subseteq Members(upstream)
      /\ downstream' \in Seq(DaemonMessages) /\ Members(downstream') \subseteq Members(downstream)
      /\ Increasing(upstream')
  <2>1. CASE WireLost
    <3>1. upstream' = <<>> /\ downstream' = <<>>
      BY <2>1 DEF WireLost
    <3>2. Members(<<>>) = {} /\ Increasing(<<>>)
      BY DEF Members, Increasing
    <3>. QED
      BY <3>1, <3>2, EmptySeq
  <2>2. CASE UNCHANGED <<upstream, downstream>>
    BY <2>2, <1>1 DEF RpcTypeOK, InOrder
  <2>. QED
    BY <2>1, <2>2
<1>4. InOrder'
  BY <1>1, <1>2, <1>3 DEF InOrder, Below
<1>5. Accounts'
  BY <1>1, <1>2, <1>3 DEF Accounts
<1>6. RpcTypeOK'
  BY <1>1, <1>2, <1>3 DEF RpcTypeOK
<1>7. AnswersCarried'
  BY <1>1, <1>2, <1>3 DEF AnswersCarried
<1>. QED
  BY <1>1, <1>2, <1>3, <1>4, <1>5, <1>6, <1>7 DEF RequestsInv, NewAbove

\* The daemon speaks: it answers what it carries out, or nothing.
LEMMA DaemonRequests ==
    ASSUME RequestsInv, NEW msgs \in Seq(DaemonMessages), UNCHANGED <<socketVars, requestVars>>,
           \/ Executes(msgs) /\ \A m \in Members(msgs) : m.type = "result" => m.request = Head(upstream)
           \/ /\ downstream' = downstream \o msgs /\ UNCHANGED <<upstream, executed>>
              /\ \A m \in Members(msgs) : m.type # "result"
    PROVE  RequestsInv'
<1>1. /\ RpcTypeOK /\ InOrder /\ NewAbove /\ Accounts /\ AnswersCarried
      /\ downstream \in Seq(DaemonMessages)
      /\ (socket = "none" => callbacks = {}) /\ (socket = "open" => queue = <<>>)
  BY DEF RequestsInv
<1>2. UNCHANGED <<queue, callbacks, issued, status, socket, reconnectTimeout>>
  BY DEF requestVars, socketVars
<1>3. /\ downstream' \in Seq(DaemonMessages)
      /\ Members(downstream') = Members(downstream) \cup Members(msgs)
  <2>1. downstream' = downstream \o msgs
    BY DEF Executes
  <2>. QED
    BY <2>1, <1>1, MembersConcat
<1>4. CASE Executes(msgs) /\ \A m \in Members(msgs) : m.type = "result" => m.request = Head(upstream)
  <2>. DEFINE r == Head(upstream)
  <2>1. /\ r \in Requests /\ upstream' \in Seq(Requests)
        /\ Members(upstream) = {r} \cup Members(upstream')
        /\ executed' \in Seq(Requests) /\ Members(executed') = Members(executed) \cup {r}
        /\ executed' = Append(executed, r)
    <3>1. upstream # <<>> /\ upstream' = Tail(upstream) /\ executed' = Append(executed, r)
      BY <1>4 DEF Executes
    <3>2. upstream \in Seq(Requests) /\ executed \in Seq(Requests)
      BY <1>1 DEF RpcTypeOK
    <3>3. r \in Requests /\ upstream' \in Seq(Requests) /\ Members(upstream) = {r} \cup Members(upstream')
      BY <3>1, <3>2, MembersOf
    <3>. QED
      BY <3>1, <3>2, <3>3, MembersOf
  <2>2. Increasing(upstream') /\ \A a \in Members(upstream') : r < a
    <3>1. upstream # <<>> /\ upstream' = Tail(upstream)
      BY <1>4 DEF Executes
    <3>. QED
      BY <3>1, <1>1, RequestNumbers, IncreasingKept DEF InOrder
  <2>3. Increasing(executed')
    <3>1. r \in Nat /\ executed \in Seq(Nat) /\ \A a \in Members(executed) : a < r
      BY <2>1, <1>1, RequestNumbers DEF InOrder, Below
    <3>. QED
      BY <3>1, <2>1, <1>1, IncreasingKept DEF InOrder
  <2>. HIDE DEF r
  <2>4. InOrder'
    <3>1. Below(executed', upstream')
      BY <2>1, <2>2, <1>1 DEF InOrder, Below
    <3>2. Below(executed', queue') /\ Below(upstream', queue')
      BY <2>1, <1>1, <1>2 DEF InOrder, Below
    <3>3. \A x \in Members(executed') \cup Members(upstream') \cup Members(queue') : x <= issued'
      BY <2>1, <1>1, <1>2 DEF InOrder
    <3>. QED
      BY <2>2, <2>3, <3>1, <3>2, <3>3, <1>1, <1>2 DEF InOrder
  <2>5. Accounts'
    BY <2>1, <1>1, <1>2 DEF Accounts
  <2>6. AnswersCarried'
    BY <2>1, <1>1, <1>3, <1>4 DEF AnswersCarried, r
  <2>7. RpcTypeOK'
    BY <2>1, <1>1, <1>2 DEF RpcTypeOK
  <2>. QED
    BY <2>4, <2>5, <2>6, <2>7, <1>1, <1>2, <1>3 DEF RequestsInv, NewAbove
<1>5. CASE /\ downstream' = downstream \o msgs /\ UNCHANGED <<upstream, executed>>
           /\ \A m \in Members(msgs) : m.type # "result"
  BY <1>5, <1>1, <1>2, <1>3
     DEF RequestsInv, RpcTypeOK, InOrder, Below, NewAbove, Accounts, AnswersCarried
<1>. QED
  BY <1>4, <1>5

\* _onmessage: a message is taken from the wire; the answer of a call removes its callback.
LEMMA ReceivesRequests ==
    ASSUME RequestsInv, downstream # <<>>, downstream' = Tail(downstream),
           UNCHANGED <<socketVars, queue, issued, upstream, executed>>,
           \/ UNCHANGED <<callbacks, status>>
           \/ Head(downstream).type = "result" /\ OnResult(Head(downstream).request)
    PROVE  RequestsInv'
<1>1. /\ RpcTypeOK /\ InOrder /\ NewAbove /\ Accounts /\ AnswersCarried
      /\ downstream \in Seq(DaemonMessages)
      /\ (socket = "none" => callbacks = {}) /\ (socket = "open" => queue = <<>>)
  BY DEF RequestsInv
<1>2. /\ downstream' \in Seq(DaemonMessages) /\ Head(downstream) \in DaemonMessages
      /\ Members(downstream) = {Head(downstream)} \cup Members(downstream')
  BY <1>1, MembersOf
<1>3. AnswersCarried' /\ InOrder'
  BY <1>1, <1>2 DEF AnswersCarried, InOrder
<1>4. UNCHANGED <<socket, reconnectTimeout>>
  BY DEF socketVars
<1>5. CASE UNCHANGED <<callbacks, status>>
  BY <1>5, <1>1, <1>2, <1>3, <1>4 DEF RequestsInv, RpcTypeOK, NewAbove, Accounts
<1>6. CASE Head(downstream).type = "result" /\ OnResult(Head(downstream).request)
  <2>. DEFINE r == Head(downstream).request
  <2>1. /\ callbacks' = callbacks \ {r}
        /\ status' = [status EXCEPT ![r] = IF r \in callbacks THEN "answered" ELSE @]
    BY <1>6 DEF OnResult
  <2>2. r \in Members(executed) /\ r \in Requests
    BY <1>1, <1>2, <1>6, RequestNumbers DEF AnswersCarried
  <2>. HIDE DEF r
  <2>3. /\ status' \in [Requests -> {"new", "call", "post", "answered", "failed"}]
        /\ status'[r] = IF r \in callbacks THEN "answered" ELSE status[r]
        /\ \A x \in Requests : x # r => status'[x] = status[x]
    BY <2>1, <2>2, <1>1 DEF RpcTypeOK
  <2>4. r \in callbacks => status[r] = "call"
    BY <2>2, <1>1 DEF Accounts
  <2>5. NewAbove'
    BY <2>2, <2>3, <2>4, <1>1 DEF NewAbove
  <2>6. Accounts'
    BY <2>1, <2>2, <2>3, <2>4, <1>1, <1>4 DEF Accounts
  <2>7. RpcTypeOK'
    BY <2>1, <2>3, <1>1, <1>4 DEF RpcTypeOK
  <2>. QED
    BY <2>1, <2>5, <2>6, <2>7, <1>1, <1>2, <1>3, <1>4 DEF RequestsInv
<1>. QED
  BY <1>5, <1>6

\* disconnect(): what was not sent is given up, and no answer is expected any more.
LEMMA DisconnectRequests ==
    ASSUME RequestsInv, socket' = "none", queue' = <<>>, callbacks' = {},
           UNCHANGED <<reconnectTimeout, issued, status, upstream, executed>>,
           downstream' = downstream \/ (downstream # <<>> /\ downstream' = Tail(downstream))
    PROVE  RequestsInv'
<1>1. /\ RpcTypeOK /\ InOrder /\ NewAbove /\ Accounts /\ AnswersCarried
      /\ downstream \in Seq(DaemonMessages)
  BY DEF RequestsInv
<1>2. downstream' \in Seq(DaemonMessages) /\ Members(downstream') \subseteq Members(downstream)
  <2>1. CASE downstream # <<>> /\ downstream' = Tail(downstream)
    BY <2>1, <1>1, MembersOf
  <2>2. CASE downstream' = downstream
    BY <2>2, <1>1
  <2>. QED
    BY <2>1, <2>2
<1>3. queue' \in Seq(Requests) /\ Members(queue') = {} /\ Increasing(queue')
  <2>1. Members(<<>>) = {} /\ Increasing(<<>>)
    BY DEF Members, Increasing
  <2>. QED
    BY <2>1, EmptySeq
<1>4. InOrder'
  BY <1>1, <1>3 DEF InOrder, Below
<1>5. Accounts'
  BY <1>1, <1>3 DEF Accounts
<1>6. AnswersCarried'
  BY <1>1, <1>2 DEF AnswersCarried
<1>7. RpcTypeOK'
  BY <1>1, <1>3 DEF RpcTypeOK
<1>. QED
  BY <1>1, <1>2, <1>4, <1>5, <1>6, <1>7 DEF RequestsInv, NewAbove

-----------------------------------------------------------------------------
(* Messages: how the age of what they say survives a message more at the   *)
(* end or less at the front.                                               *)

\* What the messages of S say of Setting can be compared.
Valued(S) == \A m \in S : Speaks(m, Setting) => m.delta[Setting] \in Nat

\* The front of a sequence of messages is taken.
LEMMA FrontTaken ==
    ASSUME NEW S, NEW s \in Seq(S), s # <<>>
    PROVE  /\ Tail(s) \in Seq(S) /\ Head(s) \in S /\ Head(s) = s[1] /\ Len(s) \in Nat /\ Len(s) >= 1
           /\ DOMAIN s = 1..Len(s) /\ DOMAIN Tail(s) = 1..(Len(s) - 1)
           /\ 1 \in About(s, Setting) <=> Speaks(Head(s), Setting)
           /\ About(s, Setting) \subseteq 1..Len(s)
           /\ About(Tail(s), Setting) \subseteq 1..(Len(s) - 1)
           /\ \A i \in 1..(Len(s) - 1) :
                 /\ i + 1 \in 1..Len(s)
                 /\ Tail(s)[i] = s[i + 1]
                 /\ i \in About(Tail(s), Setting) <=> i + 1 \in About(s, Setting)
<1>1. /\ Tail(s) \in Seq(S) /\ Head(s) \in S /\ Head(s) = s[1] /\ Len(s) \in Nat /\ Len(s) >= 1
      /\ DOMAIN s = 1..Len(s) /\ DOMAIN Tail(s) = 1..(Len(s) - 1)
      /\ \A i \in 1..(Len(s) - 1) : Tail(s)[i] = s[i + 1]
      /\ Len(Tail(s)) = Len(s) - 1
  BY HeadTailProperties, LenProperties, EmptySeq
<1>2. \A i \in 1..(Len(s) - 1) : i \in About(Tail(s), Setting) <=> i + 1 \in About(s, Setting)
  BY LatestTail
<1>3. /\ About(s, Setting) \subseteq 1..Len(s)
      /\ \A i \in 1..Len(s) : i \in About(s, Setting) <=> Speaks(s[i], Setting)
  BY Positions
<1>4. About(Tail(s), Setting) \subseteq 1..(Len(s) - 1)
  BY <1>1, Positions
<1>5. 1 \in 1..Len(s) /\ \A i \in 1..(Len(s) - 1) : i + 1 \in 1..Len(s)
  BY <1>1
<1>. QED
  BY <1>1, <1>2, <1>3, <1>4, <1>5

\* A message is added at the end.
LEMMA EndAdded ==
    ASSUME NEW S, NEW s \in Seq(S), NEW m \in S
    PROVE  /\ Append(s, m) \in Seq(S) /\ Len(s) \in Nat
           /\ DOMAIN s = 1..Len(s) /\ DOMAIN Append(s, m) = 1..(Len(s) + 1)
           /\ \A i \in 1..Len(s) : Append(s, m)[i] = s[i] /\ s[i] \in S
           /\ Append(s, m)[Len(s) + 1] = m
           /\ About(s, Setting) \subseteq 1..Len(s)
           /\ \A i \in 1..Len(s) : i \in About(s, Setting) <=> Speaks(s[i], Setting)
           /\ About(Append(s, m), Setting)
                 = About(s, Setting) \cup (IF Speaks(m, Setting) THEN {Len(s) + 1} ELSE {})
<1>1. /\ Append(s, m) \in Seq(S) /\ Len(s) \in Nat
      /\ DOMAIN s = 1..Len(s) /\ DOMAIN Append(s, m) = 1..(Len(s) + 1)
      /\ \A i \in 1..Len(s) : Append(s, m)[i] = s[i] /\ s[i] \in S
      /\ Append(s, m)[Len(s) + 1] = m
  BY AppendProperties, LenProperties, ElementOfSeq
<1>. QED
  BY <1>1, LatestAppend, Positions

\* A value that is not lower follows the others, as a notification does on the wire.
LEMMA GrowsAppend ==
    ASSUME NEW S, Valued(S), NEW s \in Seq(S), NEW m \in S,
           NEW low \in Nat, NEW high \in Nat, NEW higher \in Nat, GrowsIn(s, low, high), high <= higher,
           Speaks(m, Setting) => high <= m.delta[Setting] /\ m.delta[Setting] <= higher
    PROVE  GrowsIn(Append(s, m), low, higher)
<1>. DEFINE t == Append(s, m)
            l == Len(s)
<1>1. /\ l \in Nat /\ About(s, Setting) \subseteq 1..l
      /\ \A i \in 1..l : t[i] = s[i] /\ (i \in About(s, Setting) <=> Speaks(s[i], Setting)) /\ s[i] \in S
      /\ t[l + 1] = m
      /\ About(t, Setting) = About(s, Setting) \cup (IF Speaks(m, Setting) THEN {l + 1} ELSE {})
  BY EndAdded
<1>. HIDE DEF t, l
<1>2. \A i \in About(s, Setting) :
         /\ s[i].delta[Setting] \in Nat /\ t[i] = s[i] /\ i \in 1..l
         /\ low <= s[i].delta[Setting] /\ s[i].delta[Setting] <= high
  BY <1>1 DEF GrowsIn, Valued
<1>3. Speaks(m, Setting) => m.delta[Setting] \in Nat
  BY DEF Valued
<1>4. ASSUME NEW i \in About(t, Setting)
      PROVE  low <= t[i].delta[Setting] /\ t[i].delta[Setting] <= higher
  <2>1. CASE i \in About(s, Setting)
    BY <2>1, <1>2
  <2>2. CASE i = l + 1 /\ Speaks(m, Setting)
    BY <2>2, <1>1, <1>3 DEF GrowsIn
  <2>. QED
    BY <2>1, <2>2, <1>1
<1>5. ASSUME NEW i \in About(t, Setting), NEW j \in About(t, Setting), i < j
      PROVE  t[i].delta[Setting] <= t[j].delta[Setting]
  <2>1. i \in About(s, Setting)
    <3>1. CASE i = l + 1
      BY <3>1, <1>1, <1>2, <1>5
    <3>. QED
      BY <3>1, <1>1
  <2>2. CASE j \in About(s, Setting)
    BY <2>1, <2>2, <1>2, <1>5 DEF GrowsIn
  <2>3. CASE j = l + 1 /\ Speaks(m, Setting)
    BY <2>1, <2>3, <1>1, <1>2, <1>3
  <2>. QED
    BY <2>2, <2>3, <1>1
<1>6. low <= higher
  BY DEF GrowsIn
<1>. QED
  BY <1>4, <1>5, <1>6 DEF GrowsIn, t

\* Main takes the first message: what is left grows from the value main has then.
LEMMA GrowsTail ==
    ASSUME NEW S, Valued(S), NEW s \in Seq(S), s # <<>>, NEW low, NEW high, GrowsIn(s, low, high)
    PROVE  /\ GrowsIn(Tail(s), IF Speaks(Head(s), Setting) THEN Head(s).delta[Setting] ELSE low, high)
           /\ Speaks(Head(s), Setting) => low <= Head(s).delta[Setting]
<1>. DEFINE t == Tail(s)
            l == Len(s)
            x == IF Speaks(Head(s), Setting) THEN Head(s).delta[Setting] ELSE low
<1>1. /\ Head(s) = s[1] /\ l \in Nat /\ l >= 1
      /\ 1 \in About(s, Setting) <=> Speaks(Head(s), Setting)
      /\ About(t, Setting) \subseteq 1..(l - 1)
      /\ \A i \in 1..(l - 1) : t[i] = s[i + 1] /\ (i \in About(t, Setting) <=> i + 1 \in About(s, Setting))
  BY FrontTaken
<1>. HIDE DEF t, l
<1>2. ASSUME NEW i \in About(t, Setting)
      PROVE  i + 1 \in About(s, Setting) /\ t[i] = s[i + 1] /\ 1 < i + 1 /\ i \in Nat
  <2>1. i \in 1..(l - 1)
    BY <1>1
  <2>. QED
    BY <2>1, <1>1
<1>3. ASSUME NEW i \in About(t, Setting)
      PROVE  x <= t[i].delta[Setting] /\ t[i].delta[Setting] <= high
  BY <1>1, <1>2 DEF GrowsIn
<1>4. ASSUME NEW i \in About(t, Setting), NEW j \in About(t, Setting), i < j
      PROVE  t[i].delta[Setting] <= t[j].delta[Setting]
  <2>1. i + 1 < j + 1
    BY <1>2, <1>4
  <2>. QED
    BY <2>1, <1>2 DEF GrowsIn
<1>5. x <= high /\ (Speaks(Head(s), Setting) => low <= Head(s).delta[Setting])
  BY <1>1 DEF GrowsIn
<1>. HIDE DEF x
<1>6. GrowsIn(t, x, high)
  BY <1>3, <1>4, <1>5 DEF GrowsIn
<1>. QED
  BY <1>5, <1>6 DEF t, x

\* An answer follows the value that its call wrote, as RPC_applySettings has it.
LEMMA ToldAppend ==
    ASSUME NEW S, NEW s \in Seq(S), NEW m \in S, NEW low, NEW calls, NEW written,
           ToldIn(s, low, calls, written),
           m.type = "result" /\ m.request \in calls =>
               /\ written[m.request] > 0
               /\ \/ low >= written[m.request]
                  \/ \E j \in About(s, Setting) : s[j].delta[Setting] >= written[m.request]
    PROVE  ToldIn(Append(s, m), low, calls, written)
<1>. DEFINE t == Append(s, m)
            l == Len(s)
<1>1. /\ l \in Nat /\ DOMAIN s = 1..l /\ DOMAIN t = 1..(l + 1) /\ About(s, Setting) \subseteq 1..l
      /\ \A i \in 1..l : t[i] = s[i]
      /\ t[l + 1] = m
      /\ About(s, Setting) \subseteq About(t, Setting)
  BY EndAdded
<1>. HIDE DEF t, l
<1>2. \A j \in About(s, Setting) : j \in About(t, Setting) /\ t[j] = s[j] /\ j < l + 1
  BY <1>1
<1>3. ASSUME NEW i \in DOMAIN t, t[i].type = "result", t[i].request \in calls
      PROVE  /\ written[t[i].request] > 0
             /\ \/ low >= written[t[i].request]
                \/ \E j \in About(t, Setting) :
                      j < i /\ t[j].delta[Setting] >= written[t[i].request]
  <2>1. CASE i \in 1..l
    <3>1. t[i] = s[i] /\ i \in DOMAIN s
      BY <2>1, <1>1
    <3>. QED
      BY <3>1, <1>2, <1>3 DEF ToldIn
  <2>2. CASE i = l + 1
    BY <2>2, <1>1, <1>2, <1>3
  <2>. QED
    BY <2>1, <2>2, <1>1
<1>. QED
  BY <1>3 DEF ToldIn, t

\* Main takes the first message: what an answer waited for is on its way or known to main.
LEMMA ToldTail ==
    ASSUME NEW S, Valued(S), NEW s \in Seq(S), s # <<>>, NEW low \in Nat, NEW new \in Nat,
           NEW calls, NEW written \in [Requests -> Nat],
           \A m \in S : m.type = "result" => m.request \in Requests,
           ToldIn(s, low, calls, written),
           low <= new, Speaks(Head(s), Setting) => Head(s).delta[Setting] <= new
    PROVE  ToldIn(Tail(s), new, calls, written)
<1>. DEFINE t == Tail(s)
            l == Len(s)
<1>1. /\ Head(s) = s[1] /\ l \in Nat /\ l >= 1 /\ DOMAIN s = 1..l /\ DOMAIN t = 1..(l - 1)
      /\ 1 \in About(s, Setting) <=> Speaks(Head(s), Setting)
      /\ About(s, Setting) \subseteq 1..l
      /\ \A i \in 1..(l - 1) : /\ i + 1 \in 1..l /\ t[i] = s[i + 1]
                               /\ i \in About(t, Setting) <=> i + 1 \in About(s, Setting)
      /\ Head(s) \in S /\ t \in Seq(S)
  BY FrontTaken
<1>. HIDE DEF t, l
<1>2. ASSUME NEW i \in DOMAIN t, t[i].type = "result", t[i].request \in calls
      PROVE  /\ written[t[i].request] > 0
             /\ \/ new >= written[t[i].request]
                \/ \E j \in About(t, Setting) :
                      j < i /\ t[j].delta[Setting] >= written[t[i].request]
  <2>. DEFINE w == written[t[i].request]
  <2>1. i \in 1..(l - 1) /\ t[i] = s[i + 1] /\ i + 1 \in DOMAIN s
    BY <1>1
  <2>2. w \in Nat
    <3>1. t[i] \in S
      BY <1>1, <2>1, ElementOfSeq, LenProperties
    <3>. QED
      BY <3>1, <1>2
  <2>3. /\ w > 0
        /\ low >= w \/ \E j \in About(s, Setting) : j < i + 1 /\ s[j].delta[Setting] >= w
    BY <2>1, <1>2 DEF ToldIn
  <2>. HIDE DEF w
  <2>4. CASE low >= w
    BY <2>2, <2>3, <2>4, <1>2 DEF w
  <2>5. CASE \E j \in About(s, Setting) : j < i + 1 /\ s[j].delta[Setting] >= w
    <3>1. PICK j \in About(s, Setting) : j < i + 1 /\ s[j].delta[Setting] >= w
      BY <2>5
    <3>2. CASE j = 1
      <4>1. Head(s).delta[Setting] \in Nat /\ Head(s).delta[Setting] >= w /\ Head(s).delta[Setting] <= new
        BY <3>1, <3>2, <1>1 DEF Valued
      <4>2. new >= w
        BY <4>1, <2>2
      <4>. QED
        BY <4>2, <2>3 DEF w
    <3>3. CASE j # 1
      <4>1. j - 1 \in 1..(l - 1) /\ (j - 1) + 1 = j /\ j - 1 < i
        BY <3>1, <3>3, <1>1, <2>1
      <4>2. j - 1 \in About(t, Setting) /\ t[j - 1] = s[j]
        BY <4>1, <1>1
      <4>. QED
        BY <4>1, <4>2, <3>1, <2>3 DEF w
    <3>. QED
      BY <3>2, <3>3
  <2>. QED
    BY <2>3, <2>4, <2>5
<1>. QED
  BY <1>2 DEF ToldIn, t

\* A message that is no older follows: what was fresh stays so.
LEMMA FreshAppend ==
    ASSUME NEW S, NEW s \in Seq(S), NEW m \in S, NEW x, NEW n \in 0..Len(s), NEW w,
           FreshIn(s, x, n, w), Speaks(m, Setting) => m.delta[Setting] >= w
    PROVE  FreshIn(Append(s, m), x, n, w)
<1>. DEFINE t == Append(s, m)
            l == Len(s)
<1>1. /\ l \in Nat /\ About(s, Setting) \subseteq 1..l
      /\ \A i \in 1..l : t[i] = s[i]
      /\ t[l + 1] = m
      /\ About(t, Setting) = About(s, Setting) \cup (IF Speaks(m, Setting) THEN {l + 1} ELSE {})
  BY EndAdded
<1>. HIDE DEF t, l
<1>2. IF n = 0 THEN x >= w ELSE n \in About(t, Setting) /\ t[n].delta[Setting] >= w
  BY <1>1 DEF FreshIn
<1>3. ASSUME NEW j \in About(t, Setting), j > n PROVE t[j].delta[Setting] >= w
  <2>1. CASE j \in About(s, Setting)
    BY <2>1, <1>1, <1>3 DEF FreshIn
  <2>2. CASE j = l + 1 /\ Speaks(m, Setting)
    BY <2>2, <1>1
  <2>. QED
    BY <2>1, <2>2, <1>1
<1>. QED
  BY <1>2, <1>3 DEF FreshIn, t

\* The window takes the first message: what was fresh stays so, one position nearer.
LEMMA FreshTail ==
    ASSUME NEW S, NEW s \in Seq(S), s # <<>>, NEW x, NEW n \in 0..Len(s), NEW w,
           FreshIn(s, x, n, w)
    PROVE  FreshIn(Tail(s), IF Speaks(Head(s), Setting) THEN Head(s).delta[Setting] ELSE x,
                   IF n = 0 THEN 0 ELSE n - 1, w)
<1>. DEFINE t == Tail(s)
            l == Len(s)
            y == IF Speaks(Head(s), Setting) THEN Head(s).delta[Setting] ELSE x
            p == IF n = 0 THEN 0 ELSE n - 1
<1>1. /\ Head(s) = s[1] /\ l \in Nat /\ l >= 1
      /\ 1 \in About(s, Setting) <=> Speaks(Head(s), Setting)
      /\ About(s, Setting) \subseteq 1..l /\ About(t, Setting) \subseteq 1..(l - 1)
      /\ \A i \in 1..(l - 1) : t[i] = s[i + 1] /\ (i \in About(t, Setting) <=> i + 1 \in About(s, Setting))
      /\ n \in 0..l
  BY FrontTaken
<1>. HIDE DEF t, l
<1>2. IF p = 0 THEN y >= w ELSE p \in About(t, Setting) /\ t[p].delta[Setting] >= w
  <2>1. CASE n = 0
    <3>1. Speaks(Head(s), Setting) => 1 \in About(s, Setting) /\ 1 > n
      BY <2>1, <1>1
    <3>. QED
      BY <3>1, <2>1, <1>1 DEF FreshIn
  <2>2. CASE n = 1
    BY <2>2, <1>1 DEF FreshIn
  <2>3. CASE n > 1
    <3>1. n - 1 \in 1..(l - 1) /\ (n - 1) + 1 = n /\ p = n - 1 /\ p # 0
      BY <2>3, <1>1
    <3>. QED
      BY <3>1, <2>3, <1>1 DEF FreshIn
  <2>. QED
    BY <2>1, <2>2, <2>3, <1>1
<1>3. ASSUME NEW j \in About(t, Setting), j > p PROVE t[j].delta[Setting] >= w
  <2>1. j \in 1..(l - 1) /\ j + 1 \in About(s, Setting) /\ t[j] = s[j + 1]
    BY <1>1
  <2>2. j + 1 > n
    BY <2>1, <1>1, <1>3
  <2>. QED
    BY <2>1, <2>2 DEF FreshIn
<1>. HIDE DEF y, p
<1>4. FreshIn(t, y, p, w)
  BY <1>2, <1>3 DEF FreshIn
<1>. QED
  BY <1>4 DEF t, y, p

\* When the last word about Setting is w or newer, so is all from there on.
LEMMA FreshNow ==
    ASSUME NEW S, NEW s \in Seq(S), NEW x, NEW w, Latest(s, Setting, x) >= w
    PROVE  \E n \in 0..Len(s) : FreshIn(s, x, n, w)
<1>1. Len(s) \in Nat /\ About(s, Setting) \subseteq 1..Len(s)
  BY Positions
<1>2. CASE About(s, Setting) = {}
  <2>1. FreshIn(s, x, 0, w) /\ 0 \in 0..Len(s)
    BY <1>1, <1>2 DEF Latest, FreshIn
  <2>. QED
    BY <2>1
<1>3. CASE About(s, Setting) # {}
  <2>. DEFINE n == LastIn(About(s, Setting))
  <2>1. n \in About(s, Setting) /\ \A j \in About(s, Setting) : j <= n
    BY <1>1, <1>3, LastExists
  <2>2. s[n].delta[Setting] >= w
    BY <1>3 DEF Latest
  <2>. HIDE DEF n
  <2>3. n \in 1..Len(s) /\ \A j \in About(s, Setting) : j \in Nat
    BY <2>1, <1>1
  <2>4. n \in 0..Len(s) /\ FreshIn(s, x, n, w)
    BY <2>1, <2>2, <2>3, <1>1 DEF FreshIn
  <2>. QED
    BY <2>4
<1>. QED
  BY <1>2, <1>3

-----------------------------------------------------------------------------
(* What messages there are.                                                *)

\* The data have numbers in all their fields, and a message that was made from them in
\* some.
LEMMA DeltaKinds ==
    /\ MaxChanges \in Nat /\ Positive \subseteq Nat /\ Positive \subseteq Values /\ Setting \in Keys
    /\ \A d \in Deltas : DOMAIN d \subseteq Keys /\ \A k \in DOMAIN d : d[k] \in Positive
    /\ \A d \in Deltas : IsComplete(d) => d \in Complete
    /\ \A data \in Complete : /\ data \in Deltas /\ IsComplete(data) /\ data \in [Keys -> Values]
                              /\ \A k \in Keys : data[k] \in Positive
<1>1. /\ MaxChanges \in Nat /\ Positive \subseteq Nat /\ Positive \subseteq Values /\ Setting \in Keys
  BY MirrorAssumption DEF Positive, Values
<1>2. ASSUME NEW d \in Deltas
      PROVE  /\ DOMAIN d \subseteq Keys /\ \A k \in DOMAIN d : d[k] \in Positive
             /\ IsComplete(d) => d \in Complete
  <2>1. PICK keys \in SUBSET Keys : d \in [keys -> Positive]
    BY DEF Deltas
  <2>. QED
    BY <2>1 DEF Complete, IsComplete
<1>3. ASSUME NEW data \in Complete
      PROVE  /\ data \in Deltas /\ IsComplete(data) /\ data \in [Keys -> Values]
             /\ \A k \in Keys : data[k] \in Positive
  <2>1. data \in Deltas
    BY DEF Complete, Deltas
  <2>. QED
    BY <2>1, <1>1 DEF Complete, IsComplete
<1>. QED
  BY <1>1, <1>2, <1>3

\* The daemon takes some fields of its data, and filterChanges some of a message.
LEMMA DeltaTaken ==
    ASSUME NEW d \in Deltas, NEW keys \in SUBSET DOMAIN d
    PROVE  /\ Delta(keys, d) \in Deltas /\ DOMAIN Delta(keys, d) = keys
           /\ \A k \in keys : Delta(keys, d)[k] = d[k]
<1>1. /\ DOMAIN Delta(keys, d) = keys /\ \A k \in keys : Delta(keys, d)[k] = d[k]
      /\ Delta(keys, d) = [k \in keys |-> d[k]]
  BY DEF Delta
<1>2. keys \in SUBSET Keys /\ \A k \in keys : d[k] \in Positive
  BY DeltaKinds
<1>3. Delta(keys, d) \in [keys -> Positive]
  BY <1>1, <1>2
<1>. QED
  BY <1>1, <1>2, <1>3 DEF Deltas

\* filterChanges leaves the fields that differ.
LEMMA Filtered ==
    ASSUME NEW target, NEW d \in Deltas
    PROVE  /\ FilterChanges(target, d) \in Deltas
           /\ DOMAIN FilterChanges(target, d) = {k \in DOMAIN d : d[k] # target[k]}
           /\ \A k \in DOMAIN FilterChanges(target, d) : FilterChanges(target, d)[k] = d[k]
<1>. DEFINE changed == {k \in DOMAIN d : d[k] # target[k]}
<1>1. changed \in SUBSET DOMAIN d /\ FilterChanges(target, d) = Delta(changed, d)
  BY DEF FilterChanges
<1>. QED
  BY <1>1, DeltaTaken

\* Object.assign takes every field of the message, and all of them when the message has all.
LEMMA Assigned ==
    ASSUME NEW target \in [Keys -> Values], NEW d \in Deltas
    PROVE  /\ \A k \in Keys :
                 /\ Assign(target, d)[k] = IF k \in DOMAIN d THEN d[k] ELSE target[k]
                 /\ Assign(target, FilterChanges(target, d))[k] = Assign(target, d)[k]
           /\ Assign(target, d) \in [Keys -> Values]
           /\ Assign(target, FilterChanges(target, d)) \in [Keys -> Values]
           /\ target \in Complete \/ IsComplete(d) =>
                 /\ Assign(target, d) \in Complete
                 /\ Assign(target, FilterChanges(target, d)) \in Complete
<1>. DEFINE f == FilterChanges(target, d)
            a == Assign(target, d)
            b == Assign(target, f)
<1>1. /\ DOMAIN f = {k \in DOMAIN d : d[k] # target[k]}
      /\ \A k \in DOMAIN f : f[k] = d[k]
  BY Filtered
<1>2. /\ a = [k \in Keys |-> IF k \in DOMAIN d THEN d[k] ELSE target[k]]
      /\ b = [k \in Keys |-> IF k \in DOMAIN f THEN f[k] ELSE target[k]]
  BY DEF Assign
<1>. HIDE DEF f, a, b
<1>3. \A k \in Keys : /\ a[k] = IF k \in DOMAIN d THEN d[k] ELSE target[k]
                      /\ b[k] = a[k]
  BY <1>1, <1>2
<1>4. a = [k \in Keys |-> a[k]] /\ b = [k \in Keys |-> b[k]]
  BY <1>2
<1>5. a \in [Keys -> Values] /\ b \in [Keys -> Values]
  <2>1. \A k \in Keys : a[k] \in Values /\ b[k] \in Values
    BY <1>3, DeltaKinds
  <2>. QED
    BY <2>1, <1>4
<1>6. ASSUME target \in Complete \/ IsComplete(d) PROVE a \in Complete /\ b \in Complete
  <2>1. \A k \in Keys : a[k] \in Positive /\ b[k] \in Positive
    BY <1>3, <1>6, DeltaKinds DEF IsComplete
  <2>. QED
    BY <2>1, <1>4 DEF Complete
<1>. QED
  BY <1>3, <1>5, <1>6 DEF f, a, b

\* A message of the daemon is a notification or an answer.
LEMMA DaemonKinds ==
    /\ Valued(DaemonMessages)
    /\ \A m \in DaemonMessages :
          \/ m.type = "data" /\ m.delta \in Deltas
          \/ m.type = "result" /\ m.request \in Requests /\ m = Answer(m.request)
    /\ \A d \in Deltas : /\ Data(d) \in DaemonMessages /\ Data(d).type = "data" /\ Data(d).delta = d
                         /\ \A k : Speaks(Data(d), k) <=> k \in DOMAIN d
    /\ \A r \in Requests : /\ Answer(r) \in DaemonMessages /\ Answer(r).type = "result"
                           /\ Answer(r).request = r
                           /\ \A k : ~Speaks(Answer(r), k)
<1>1. \A d : Data(d).type = "data" /\ Data(d).delta = d
  BY DEF Data
<1>2. \A r : Answer(r).type = "result" /\ Answer(r).request = r
  BY DEF Answer
<1>3. /\ \A d \in Deltas : Data(d) \in DaemonMessages
      /\ \A r \in Requests : Answer(r) \in DaemonMessages
  BY DEF DaemonMessages, Answers
<1>4. ASSUME NEW m \in DaemonMessages
      PROVE  \/ m.type = "data" /\ m.delta \in Deltas
             \/ m.type = "result" /\ m.request \in Requests /\ m = Answer(m.request)
  <2>1. CASE m \in Answers
    BY <2>1, <1>2 DEF Answers
  <2>2. CASE m \in {Data(delta) : delta \in Deltas}
    BY <2>2, <1>1
  <2>. QED
    BY <2>1, <2>2 DEF DaemonMessages
<1>5. Valued(DaemonMessages)
  <2>1. ASSUME NEW m \in DaemonMessages, Speaks(m, Setting) PROVE m.delta[Setting] \in Nat
    <3>1. m.delta \in Deltas /\ Setting \in DOMAIN m.delta
      BY <2>1, <1>4 DEF Speaks
    <3>. QED
      BY <3>1, DeltaKinds
  <2>. QED
    BY <2>1 DEF Valued
<1>. QED
  BY <1>1, <1>2, <1>3, <1>4, <1>5 DEF Speaks

\* A message to the window is one of four.
LEMMA WindowKinds ==
    /\ Valued(WindowMessages)
    /\ \A m \in WindowMessages :
          \/ m.type = "up" /\ m.delta \in Complete
          \/ m.type = "post" /\ m.delta \in Deltas
          \/ m.type = "down" /\ m = Down
          \/ m.type = "result" /\ m.request \in Requests
    /\ \A d \in Complete : /\ Up(d) \in WindowMessages /\ Up(d).type = "up" /\ Up(d).delta = d
                           /\ Signalling(Up(d)) /\ \A k \in Keys : Speaks(Up(d), k)
    /\ \A d \in Deltas : /\ Post(d) \in WindowMessages /\ Post(d).type = "post" /\ Post(d).delta = d
                         /\ ~Signalling(Post(d)) /\ \A k : Speaks(Post(d), k) <=> k \in DOMAIN d
    /\ \A r \in Requests : /\ Answer(r) \in WindowMessages /\ ~Signalling(Answer(r))
                           /\ \A k : ~Speaks(Answer(r), k)
    /\ Down \in WindowMessages /\ Down.type = "down" /\ Signalling(Down) /\ \A k : ~Speaks(Down, k)
<1>1. /\ \A d : Up(d).type = "up" /\ Up(d).delta = d
      /\ \A d : Post(d).type = "post" /\ Post(d).delta = d
      /\ \A r : Answer(r).type = "result" /\ Answer(r).request = r
      /\ Down.type = "down" /\ Down.delta = <<>>
  BY DEF Up, Post, Answer, Down
<1>2. /\ \A d \in Complete : Up(d) \in WindowMessages
      /\ \A d \in Deltas : Post(d) \in WindowMessages
      /\ \A r \in Requests : Answer(r) \in WindowMessages
      /\ Down \in WindowMessages
  BY DEF WindowMessages, Answers
<1>3. ASSUME NEW m \in WindowMessages
      PROVE  \/ m.type = "up" /\ m.delta \in Complete
             \/ m.type = "post" /\ m.delta \in Deltas
             \/ m.type = "down" /\ m = Down
             \/ m.type = "result" /\ m.request \in Requests
  <2>1. CASE m \in {Up(data) : data \in Complete}
    BY <2>1, <1>1
  <2>2. CASE m \in {Post(delta) : delta \in Deltas}
    BY <2>2, <1>1
  <2>3. CASE m \in Answers
    BY <2>3, <1>1 DEF Answers
  <2>4. CASE m = Down
    BY <2>4, <1>1
  <2>. QED
    BY <2>1, <2>2, <2>3, <2>4 DEF WindowMessages
<1>4. \A k : k \notin DOMAIN Down.delta
  BY <1>1
<1>5. Valued(WindowMessages)
  <2>1. ASSUME NEW m \in WindowMessages, Speaks(m, Setting) PROVE m.delta[Setting] \in Nat
    <3>1. Setting \in DOMAIN m.delta /\ m.type # "result" /\ m # Down
      BY <2>1, <1>4 DEF Speaks
    <3>2. m.delta \in Deltas
      BY <3>1, <1>3, DeltaKinds
    <3>. QED
      BY <3>1, <3>2, DeltaKinds
  <2>. QED
    BY <2>1 DEF Valued
<1>6. \A d \in Complete : \A k \in Keys : k \in DOMAIN d
  BY DEF Complete
<1>. QED
  BY <1>1, <1>2, <1>3, <1>4, <1>5, <1>6 DEF Speaks, Signalling

-----------------------------------------------------------------------------
(* The daemon's data on their way to main.                                 *)

\* A range that holds what is on its way may be widened.
LEMMA GrowsWider ==
    ASSUME NEW S, Valued(S), NEW s \in Seq(S), NEW low \in Nat, NEW high \in Nat,
           NEW lower \in Nat, NEW higher \in Nat,
           GrowsIn(s, low, high), lower <= low, high <= higher
    PROVE  GrowsIn(s, lower, higher)
<1>1. \A i \in About(s, Setting) : s[i].delta[Setting] \in Nat
  <2>1. /\ About(s, Setting) \subseteq 1..Len(s)
        /\ \A i \in 1..Len(s) : s[i] \in S /\ (i \in About(s, Setting) <=> Speaks(s[i], Setting))
    BY Positions
  <2>. QED
    BY <2>1 DEF Valued
<1>2. \A i \in About(s, Setting) : lower <= s[i].delta[Setting] /\ s[i].delta[Setting] <= higher
  BY <1>1 DEF GrowsIn
<1>3. lower <= higher
  BY DEF GrowsIn
<1>. QED
  BY <1>2, <1>3 DEF GrowsIn

\* Calls that were given up need no answer, and those that are new have none yet.
LEMMA ToldOther ==
    ASSUME NEW s, NEW low, NEW calls, NEW others, NEW written, NEW later,
           ToldIn(s, low, calls, written),
           \A i \in DOMAIN s : s[i].type = "result" /\ s[i].request \in others =>
               s[i].request \in calls /\ later[s[i].request] = written[s[i].request]
    PROVE  ToldIn(s, low, others, later)
<1>. SUFFICES ASSUME NEW i \in DOMAIN s, s[i].type = "result", s[i].request \in others
              PROVE  /\ later[s[i].request] > 0
                     /\ \/ low >= later[s[i].request]
                        \/ \E j \in About(s, Setting) :
                              j < i /\ s[j].delta[Setting] >= later[s[i].request]
  BY DEF ToldIn
<1>1. s[i].request \in calls /\ later[s[i].request] = written[s[i].request]
  OBVIOUS
<1>. QED
  BY <1>1 DEF ToldIn

\* What the daemon and main have, in numbers.
LEMMA Numbers ==
    ASSUME Typed
    PROVE  /\ real \in Complete /\ \A k \in Keys : real[k] \in Positive
           /\ main \in [Keys -> Values] /\ window \in [Keys -> Values]
           /\ wrote \in [Requests -> Nat] /\ wrote \in [Requests -> Values]
           /\ real[Setting] \in Nat /\ main[Setting] \in Nat /\ window[Setting] \in Nat
<1>1. /\ real \in Complete /\ main \in [Keys -> Values] /\ window \in [Keys -> Values]
      /\ wrote \in [Requests -> Values]
  BY DEF Typed, MirrorTypeOK
<1>2. Values \subseteq Nat
  BY MirrorAssumption DEF Values
<1>. QED
  BY <1>1, <1>2, DeltaKinds

\* NotifyChanges: what is on the wire once a notification was sent.
Notified(keys) == downstream \o NotificationTo(keys)

\* A notification keeps what is on the wire in order, and has the last word there.
LEMMA Notifies ==
    ASSUME Typed, RequestsInv, WireInv, NEW keys, keys \subseteq Keys,
           CanChange(keys), Change(keys)
    PROVE  /\ real' \in Complete /\ real'[Setting] \in Nat
           /\ NotificationTo(keys) \in Seq(DaemonMessages)
           /\ \A m \in Members(NotificationTo(keys)) : m.type # "result"
           /\ LET d == Notified(keys) IN
              /\ d \in Seq(DaemonMessages)
              /\ downstream # <<>> => d # <<>> /\ Head(d) = Head(downstream)
              /\ socket # "open" => d = downstream
              /\ socket = "open" => \A k \in Keys : Latest(d, k, main[k]) = real'[k]
              /\ GrowsIn(d, main[Setting], real'[Setting])
              /\ ToldIn(d, main[Setting], callbacks, wrote)
              /\ \A i \in DOMAIN d : d[i].type = "result" => d[i].request \in Members(executed)
              /\ socket = "open" /\ Setting \in keys =>
                    \E j \in About(d, Setting) : d[j].delta[Setting] = real'[Setting]
<1>. DEFINE d == Notified(keys)
<1>1. /\ downstream \in Seq(DaemonMessages) /\ main[Setting] \in Nat /\ real[Setting] \in Nat
      /\ \A k \in Keys : real[k] \in Positive /\ real[k] \in Nat
      /\ GrowsIn(downstream, main[Setting], real[Setting])
      /\ ToldIn(downstream, main[Setting], callbacks, wrote)
      /\ socket = "open" => \A k \in Keys : Latest(downstream, k, main[k]) = real[k]
      /\ \A i \in DOMAIN downstream :
            downstream[i].type = "result" => downstream[i].request \in Members(executed)
  BY Numbers, DeltaKinds DEF RequestsInv, WireInv, MainFollows, AnswersCarried, Members
<1>2. /\ real' \in Complete /\ \A k \in keys : real'[k] = real[k] + 1
      /\ \A k \in Keys : k \notin keys => real'[k] = real[k]
      /\ \A k \in Keys : real'[k] \in Nat /\ real[k] <= real'[k]
  <2>1. real' = [k \in Keys |-> IF k \in keys THEN real[k] + 1 ELSE real[k]]
    BY DEF Change
  <2>2. \A k \in Keys : (IF k \in keys THEN real[k] + 1 ELSE real[k]) \in Positive
    <3>1. \A k \in keys : real[k] \in Positive /\ real[k] < MaxChanges
      BY <1>1 DEF CanChange
    <3>2. \A k \in keys : real[k] + 1 \in Positive
      BY <3>1, DeltaKinds DEF Positive
    <3>. QED
      BY <3>2, <1>1
  <2>. QED
    BY <2>1, <2>2, <1>1 DEF Complete
<1>3. /\ Delta(keys, real') \in Deltas /\ DOMAIN Delta(keys, real') = keys
      /\ \A k \in keys : Delta(keys, real')[k] = real'[k]
  <2>1. real' \in Deltas /\ keys \in SUBSET DOMAIN real'
    BY <1>2, DeltaKinds DEF Complete
  <2>. HIDE DEF Deltas
  <2>. QED
    BY <2>1, DeltaTaken
<1>4. Setting \in Keys /\ real'[Setting] \in Nat /\ real[Setting] <= real'[Setting]
  BY <1>2, DeltaKinds
<1>5. CASE socket # "open"
  <2>1. d = downstream /\ NotificationTo(keys) = <<>>
    <3>1. NotificationTo(keys) = <<>>
      BY <1>5 DEF NotificationTo
    <3>. QED
      BY <3>1, <1>1, ConcatEmptySeq DEF Notified
  <2>2. <<>> \in Seq(DaemonMessages) /\ Members(<<>>) = {}
    BY EmptySeq DEF Members
  <2>3. GrowsIn(d, main[Setting], real'[Setting])
    BY <2>1, <1>1, <1>4, GrowsWider, DaemonKinds
  <2>. QED
    BY <2>1, <2>2, <2>3, <1>1, <1>2, <1>4, <1>5 DEF d
<1>6. CASE socket = "open"
  <2>. DEFINE m == Data(Delta(keys, real'))
  <2>1. /\ m \in DaemonMessages /\ m.type = "data" /\ m.delta = Delta(keys, real')
        /\ \A k : Speaks(m, k) <=> k \in keys
    BY <1>3, DaemonKinds
  <2>2. NotificationTo(keys) = <<m>> /\ d = Append(downstream, m)
    <3>1. NotificationTo(keys) = <<m>>
      BY <1>6 DEF NotificationTo
    <3>. HIDE DEF m
    <3>. QED
      BY <3>1, <2>1, <1>1, AppendIsConcat DEF Notified
  <2>. HIDE DEF m, d
  <2>3. <<m>> \in Seq(DaemonMessages) /\ Members(<<m>>) = {m}
    BY <2>1 DEF Members
  <2>4. /\ d \in Seq(DaemonMessages) /\ Len(downstream) \in Nat
        /\ DOMAIN downstream = 1..Len(downstream) /\ DOMAIN d = 1..(Len(downstream) + 1)
        /\ \A i \in 1..Len(downstream) : d[i] = downstream[i]
        /\ d[Len(downstream) + 1] = m
        /\ About(d, Setting) = About(downstream, Setting)
                                   \cup (IF Speaks(m, Setting) THEN {Len(downstream) + 1} ELSE {})
    <3>1. downstream \in Seq(DaemonMessages) /\ m \in DaemonMessages
      BY <2>1, <1>1
    <3>2. /\ Append(downstream, m) \in Seq(DaemonMessages) /\ Len(downstream) \in Nat
          /\ DOMAIN downstream = 1..Len(downstream)
          /\ DOMAIN Append(downstream, m) = 1..(Len(downstream) + 1)
          /\ \A i \in 1..Len(downstream) : Append(downstream, m)[i] = downstream[i]
          /\ Append(downstream, m)[Len(downstream) + 1] = m
          /\ About(Append(downstream, m), Setting)
                = About(downstream, Setting)
                      \cup (IF Speaks(m, Setting) THEN {Len(downstream) + 1} ELSE {})
      BY <3>1, EndAdded
    <3>. QED
      BY <3>2, <2>2
  <2>5. downstream # <<>> => d # <<>> /\ Head(d) = Head(downstream)
    BY <2>1, <2>2, <1>1
  <2>6. ASSUME NEW k \in Keys PROVE Latest(d, k, main[k]) = real'[k]
    <3>1. Latest(d, k, main[k]) = IF Speaks(m, k) THEN m.delta[k] ELSE Latest(downstream, k, main[k])
      <4>1. downstream \in Seq(DaemonMessages) /\ m \in DaemonMessages
        BY <2>1, <1>1
      <4>2. Latest(Append(downstream, m), k, main[k])
               = IF Speaks(m, k) THEN m.delta[k] ELSE Latest(downstream, k, main[k])
        BY <4>1, LatestAppend
      <4>. QED
        BY <4>2, <2>2
    <3>. QED
      BY <3>1, <2>1, <1>1, <1>2, <1>3, <1>6
  <2>7. Speaks(m, Setting) => m.delta[Setting] = real'[Setting]
    BY <2>1, <1>3
  <2>8. GrowsIn(d, main[Setting], real'[Setting])
    <3>1. /\ Valued(DaemonMessages) /\ downstream \in Seq(DaemonMessages) /\ m \in DaemonMessages
          /\ main[Setting] \in Nat /\ real[Setting] \in Nat /\ real'[Setting] \in Nat
          /\ GrowsIn(downstream, main[Setting], real[Setting]) /\ real[Setting] <= real'[Setting]
          /\ Speaks(m, Setting) => real[Setting] <= m.delta[Setting] /\ m.delta[Setting] <= real'[Setting]
      BY <2>1, <2>7, <1>1, <1>4, DaemonKinds
    <3>. QED
      BY <3>1, <2>2, GrowsAppend
  <2>9. ToldIn(d, main[Setting], callbacks, wrote)
    BY <2>1, <2>2, <1>1, ToldAppend
  <2>10. \A i \in DOMAIN d : d[i].type = "result" => d[i].request \in Members(executed)
    BY <2>1, <2>4, <1>1
  <2>11. ASSUME Setting \in keys
         PROVE  \E j \in About(d, Setting) : d[j].delta[Setting] = real'[Setting]
    BY <2>1, <2>4, <2>7, <2>11
  <2>. QED
    BY <2>1, <2>2, <2>3, <2>4, <2>5, <2>6, <2>8, <2>9, <2>10, <2>11, <1>2, <1>4, <1>6 DEF d
<1>. QED
  BY <1>5, <1>6

\* When nothing is on its way, nothing is old or unanswered.
LEMMA Silence ==
    /\ \A low, high : low <= high => GrowsIn(<<>>, low, high)
    /\ \A low, calls, written : ToldIn(<<>>, low, calls, written)
    /\ \A k, v : Latest(<<>>, k, v) = v
    /\ \A b : Said(<<>>, b) = b
<1>1. About(<<>>, Setting) = {} /\ Signals(<<>>) = {} /\ \A k : About(<<>>, k) = {}
  BY DEF About, Signals
<1>. QED
  BY <1>1 DEF GrowsIn, ToldIn, Latest, Said

\* A single message has the last word if it is about the key.
LEMMA OneMessage ==
    ASSUME NEW m
    PROVE  /\ \A k, v : Latest(<<m>>, k, v) = IF Speaks(m, k) THEN m.delta[k] ELSE v
           /\ \A b : Said(<<m>>, b) = IF Signalling(m) THEN m.type = "up" ELSE b
<1>1. DOMAIN <<m>> = {1} /\ <<m>>[1] = m
  OBVIOUS
<1>2. LastIn({1}) = 1
  BY LastIs
<1>3. /\ \A k : About(<<m>>, k) = IF Speaks(m, k) THEN {1} ELSE {}
      /\ Signals(<<m>>) = IF Signalling(m) THEN {1} ELSE {}
  BY <1>1 DEF About, Signals, Speaks, Signalling
<1>. QED
  BY <1>1, <1>2, <1>3 DEF Latest, Said

\* The daemon's data change by themselves.
LEMMA ChangesWire ==
    ASSUME Typed, RequestsInv, WireInv, DaemonChanges
    PROVE  RequestsInv' /\ WireInv' /\ real' \in Complete
<1>1. PICK keys \in SUBSET Keys : /\ CanChange(keys) /\ Change(keys)
                                  /\ downstream' = downstream \o NotificationTo(keys)
  BY DEF DaemonChanges
<1>2. UNCHANGED <<socketVars, requestVars, upstream, executed, wrote, isopen, main>>
  BY DEF DaemonChanges, mainVars
<1>3. UNCHANGED <<socket, callbacks, upstream, wrote, isopen, main>>
  BY <1>2 DEF socketVars, requestVars
<1>4. /\ real' \in Complete /\ NotificationTo(keys) \in Seq(DaemonMessages)
      /\ \A m \in Members(NotificationTo(keys)) : m.type # "result"
      /\ downstream # <<>> => downstream' # <<>> /\ Head(downstream') = Head(downstream)
      /\ socket # "open" => downstream' = downstream
      /\ socket = "open" => \A k \in Keys : Latest(downstream', k, main[k]) = real'[k]
      /\ GrowsIn(downstream', main[Setting], real'[Setting])
      /\ ToldIn(downstream', main[Setting], callbacks, wrote)
  <2>. DEFINE d == Notified(keys)
  <2>1. /\ real' \in Complete /\ NotificationTo(keys) \in Seq(DaemonMessages)
        /\ \A m \in Members(NotificationTo(keys)) : m.type # "result"
        /\ downstream # <<>> => d # <<>> /\ Head(d) = Head(downstream)
        /\ socket # "open" => d = downstream
        /\ socket = "open" => \A k \in Keys : Latest(d, k, main[k]) = real'[k]
        /\ GrowsIn(d, main[Setting], real'[Setting])
        /\ ToldIn(d, main[Setting], callbacks, wrote)
    BY <1>1, Notifies
  <2>2. d = downstream'
    BY <1>1 DEF Notified
  <2>. QED
    BY <2>1, <2>2
<1>5. RequestsInv'
  BY <1>1, <1>2, <1>4, DaemonRequests
<1>6. WireKept'
  BY <1>3, <1>4 DEF WireInv, WireKept
<1>7. MainFollows'
  BY <1>3, <1>4 DEF MainFollows
<1>8. /\ GrowsIn(downstream, main[Setting], real[Setting])'
      /\ ToldIn(downstream, main[Setting], callbacks, wrote)'
  <2>1. main'[Setting] = main[Setting]
    BY <1>3
  <2>. QED
    BY <2>1, <1>3, <1>4 DEF GrowsIn, ToldIn, About
<1>. QED
  BY <1>4, <1>5, <1>6, <1>7, <1>8 DEF WireInv

\* RPC_applySettings: the answer follows the notification of what the call wrote.
LEMMA CallsWire ==
    ASSUME Typed, RequestsInv, WireInv, RPC_applySettings
    PROVE  /\ RequestsInv' /\ WireInv' /\ real' \in Complete /\ wrote' \in [Requests -> Values]
           /\ \A r \in Members(executed) : r \in Requests /\ wrote'[r] = wrote[r]
           /\ Members(executed) \subseteq Members(executed')
<1>. DEFINE r == Head(upstream)
            d == Notified({Setting})
<1>1. /\ upstream # <<>> /\ CanChange({Setting}) /\ Change({Setting})
      /\ wrote' = [wrote EXCEPT ![r] = real'[Setting]]
      /\ Executes(NotifyFirst({Setting}, r))
      /\ UNCHANGED <<socketVars, requestVars, isopen, main>>
  BY DEF RPC_applySettings, mainVars
<1>2. UNCHANGED <<socket, callbacks, status, isopen, main>>
  BY <1>1 DEF socketVars, requestVars
<1>3. {Setting} \subseteq Keys
  BY DeltaKinds
<1>4. /\ real' \in Complete /\ real'[Setting] \in Nat
      /\ NotificationTo({Setting}) \in Seq(DaemonMessages)
      /\ \A m \in Members(NotificationTo({Setting})) : m.type # "result"
      /\ d \in Seq(DaemonMessages)
      /\ downstream # <<>> => d # <<>> /\ Head(d) = Head(downstream)
      /\ socket = "open" => \A k \in Keys : Latest(d, k, main[k]) = real'[k]
      /\ GrowsIn(d, main[Setting], real'[Setting])
      /\ ToldIn(d, main[Setting], callbacks, wrote)
      /\ \A i \in DOMAIN d : d[i].type = "result" => d[i].request \in Members(executed)
      /\ socket = "open" => \E j \in About(d, Setting) : d[j].delta[Setting] = real'[Setting]
  BY <1>1, <1>3, Notifies
<1>5. /\ r \in Requests /\ r \in Members(upstream) /\ executed' = Append(executed, r)
      /\ upstream' = Tail(upstream)
      /\ \A x \in Members(executed) : x < r /\ x \in Requests /\ x \in Nat /\ r \in Nat
      /\ executed \in Seq(Requests)
  <2>1. RpcTypeOK /\ upstream \in Seq(Requests) /\ Below(executed, upstream)
    BY DEF RequestsInv, RpcTypeOK, InOrder
  <2>2. r \in Requests /\ r \in Members(upstream)
    BY <2>1, <1>1, MembersOf
  <2>. QED
    BY <2>1, <2>2, <1>1, RequestNumbers DEF Executes, Below, RpcTypeOK
<1>6. downstream \in Seq(DaemonMessages) /\ downstream' = d \o AnswerTo(r)
  <2>1. downstream \in Seq(DaemonMessages)
    BY DEF RequestsInv
  <2>2. AnswerTo(r) \in Seq(DaemonMessages)
    BY <1>5, DaemonKinds, EmptySeq DEF AnswerTo
  <2>3. downstream' = downstream \o (NotificationTo({Setting}) \o AnswerTo(r))
    BY <1>1 DEF Executes, NotifyFirst
  <2>4. (downstream \o NotificationTo({Setting})) \o AnswerTo(r)
           = downstream \o (NotificationTo({Setting}) \o AnswerTo(r))
    <3>. DEFINE n == NotificationTo({Setting})
                a == AnswerTo(r)
    <3>1. n \in Seq(DaemonMessages) /\ a \in Seq(DaemonMessages)
      BY <2>2, <1>4
    <3>. HIDE DEF n, a
    <3>2. (downstream \o n) \o a = downstream \o (n \o a)
      BY <2>1, <3>1, ConcatAssociative
    <3>. QED
      BY <3>2 DEF n, a
  <2>. QED
    BY <2>1, <2>3, <2>4 DEF Notified
<1>. HIDE DEF d
<1>7. downstream' = IF status[r] = "call" THEN Append(d, Answer(r)) ELSE d
  <2>1. CASE status[r] = "call"
    <3>1. AnswerTo(r) = <<Answer(r)>> /\ Answer(r) \in DaemonMessages
      BY <2>1, <1>5, DaemonKinds DEF AnswerTo
    <3>2. Append(d, Answer(r)) = d \o <<Answer(r)>>
      BY <3>1, <1>4, AppendIsConcat
    <3>. QED
      BY <3>1, <3>2, <2>1, <1>6
  <2>2. CASE status[r] # "call"
    <3>1. AnswerTo(r) = <<>>
      BY <2>2 DEF AnswerTo
    <3>. QED
      BY <3>1, <2>2, <1>4, <1>6, ConcatEmptySeq
  <2>. QED
    BY <2>1, <2>2
<1>8. RequestsInv'
  <2>. DEFINE msgs == NotifyFirst({Setting}, r)
  <2>1. /\ msgs \in Seq(DaemonMessages)
        /\ \A m \in Members(msgs) : m.type = "result" => m.request = r
    <3>1. /\ AnswerTo(r) \in Seq(DaemonMessages)
          /\ \A m \in Members(AnswerTo(r)) : m.type = "result" => m.request = r
      <4>1. Answer(r) \in DaemonMessages /\ Answer(r).request = r
        BY <1>5, DaemonKinds
      <4>2. Members(<<>>) = {} /\ Members(<<Answer(r)>>) = {Answer(r)}
        BY DEF Members
      <4>. QED
        BY <4>1, <4>2, EmptySeq DEF AnswerTo
    <3>2. Members(msgs) = Members(NotificationTo({Setting})) \cup Members(AnswerTo(r))
          /\ msgs \in Seq(DaemonMessages)
      BY <3>1, <1>4, MembersConcat DEF NotifyFirst
    <3>. QED
      BY <3>1, <3>2, <1>4
  <2>. HIDE DEF msgs
  <2>2. UNCHANGED <<socketVars, requestVars>> /\ Executes(msgs)
    BY <1>1 DEF msgs
  <2>. QED
    BY <2>1, <2>2, DaemonRequests
<1>9. /\ wrote' \in [Requests -> Values] /\ wrote'[r] = real'[Setting]
      /\ \A x \in Members(executed) : x \in Requests /\ wrote'[x] = wrote[x]
  <2>1. wrote \in [Requests -> Values] /\ real'[Setting] \in Values
    BY <1>4, Numbers, DeltaKinds
  <2>2. \A x \in Members(executed) : x # r /\ x \in Requests
    BY <1>5
  <2>. QED
    BY <2>1, <2>2, <1>1, <1>5
<1>10. Members(executed) \subseteq Members(executed')
  BY <1>5, MembersOf
<1>11. ToldIn(d, main[Setting], callbacks, wrote')
  BY <1>4, <1>9, ToldOther
<1>12. socket \in {"open", "none"} /\ (socket = "none" => callbacks = {})
  BY <1>1 DEF WireInv, WireKept, RequestsInv, RpcTypeOK
<1>13. /\ socket = "open" => \A k \in Keys : Latest(downstream', k, main[k]) = real'[k]
       /\ GrowsIn(downstream', main[Setting], real'[Setting])
       /\ ToldIn(downstream', main[Setting], callbacks, wrote')
       /\ downstream # <<>> => downstream' # <<>> /\ Head(downstream') = Head(downstream)
  <2>1. CASE status[r] # "call"
    BY <2>1, <1>4, <1>7, <1>11
  <2>2. CASE status[r] = "call"
    <3>. DEFINE m == Answer(r)
    <3>1. /\ m \in DaemonMessages /\ m.request = r /\ \A k : ~Speaks(m, k)
      BY <1>5, DaemonKinds
    <3>2. downstream' = Append(d, m)
      BY <2>2, <1>7
    <3>. HIDE DEF m
    <3>3. ASSUME NEW k PROVE Latest(Append(d, m), k, main[k]) = Latest(d, k, main[k])
      BY <3>1, <1>4, LatestAppend
    <3>4. GrowsIn(Append(d, m), main[Setting], real'[Setting])
      <4>1. main[Setting] \in Nat /\ real'[Setting] \in Nat /\ real'[Setting] <= real'[Setting]
        BY <1>4, Numbers
      <4>. QED
        BY <4>1, <3>1, <1>4, GrowsAppend, DaemonKinds
    <3>5. ToldIn(Append(d, m), main[Setting], callbacks, wrote')
      <4>1. ASSUME r \in callbacks
            PROVE  /\ wrote'[r] > 0
                   /\ \E j \in About(d, Setting) : d[j].delta[Setting] >= wrote'[r]
        <5>1. PICK j \in About(d, Setting) : d[j].delta[Setting] = real'[Setting]
          BY <4>1, <1>4, <1>12
        <5>2. real'[Setting] > 0 /\ real'[Setting] >= real'[Setting]
          BY <1>4, DeltaKinds DEF Positive
        <5>. QED
          BY <5>1, <5>2, <1>9
      <4>. QED
        BY <4>1, <3>1, <1>4, <1>11, ToldAppend
    <3>6. d # <<>> => Append(d, m) # <<>> /\ Head(Append(d, m)) = Head(d)
      BY <3>1, <1>4
    <3>. QED
      BY <3>2, <3>3, <3>4, <3>5, <3>6, <1>4
  <2>. QED
    BY <2>1, <2>2
<1>14. WireKept' /\ MainFollows'
  BY <1>2, <1>12, <1>13 DEF WireInv, WireKept, MainFollows
<1>15. /\ GrowsIn(downstream, main[Setting], real[Setting])'
       /\ ToldIn(downstream, main[Setting], callbacks, wrote)'
  <2>1. main'[Setting] = main[Setting]
    BY <1>2
  <2>. QED
    BY <2>1, <1>2, <1>13 DEF GrowsIn, ToldIn, About
<1>. QED
  BY <1>4, <1>8, <1>9, <1>10, <1>14, <1>15 DEF WireInv

\* Where neither the wire nor its ends change, nothing on it does.
LEMMA RestWire ==
    ASSUME WireInv,
           UNCHANGED <<socket, callbacks, upstream, downstream, isopen, main, real, wrote>>
    PROVE  WireInv'
<1>1. WireKept' /\ MainFollows'
  BY DEF WireInv, WireKept, MainFollows
<1>2. /\ GrowsIn(downstream, main[Setting], real[Setting])'
      /\ ToldIn(downstream, main[Setting], callbacks, wrote)'
  BY DEF WireInv, GrowsIn, ToldIn, About
<1>. QED
  BY <1>1, <1>2 DEF WireInv

\* _onopen: the first message of a connection has all the data.
LEMMA OpensWire ==
    ASSUME Typed, RequestsInv, WireInv, SocketOpens
    PROVE  RequestsInv' /\ WireInv'
<1>. DEFINE m == Data(real)
<1>1. /\ Opens(<<m>>) /\ UNCHANGED <<real, wrote, isopen, main>>
      /\ socket' = "open" /\ downstream' = <<m>>
  BY DEF SocketOpens, Opens, daemonVars, mainVars
<1>2. /\ real \in Complete /\ real \in Deltas /\ IsComplete(real)
      /\ real[Setting] \in Nat /\ main[Setting] \in Nat
  BY Numbers, DeltaKinds
<1>3. /\ m \in DaemonMessages /\ m.type = "data" /\ m.delta = real
      /\ \A k \in Keys : Speaks(m, k)
      /\ Setting \in Keys /\ Valued(DaemonMessages)
  BY <1>2, DaemonKinds, DeltaKinds DEF IsComplete
<1>. HIDE DEF m
<1>4. /\ <<m>> \in Seq(DaemonMessages) /\ Members(<<m>>) = {m} /\ <<m>> # <<>> /\ Head(<<m>>) = m
      /\ <<>> \in Seq(DaemonMessages)
  BY <1>3 DEF Members
<1>5. <<m>> = Append(<<>>, m)
  OBVIOUS
<1>6. RequestsInv'
  BY <1>1, <1>3, <1>4, OpensRequests
<1>7. WireKept'
  BY <1>1, <1>2, <1>3, <1>4 DEF WireKept
<1>8. \A k \in Keys : Latest(<<m>>, k, main[k]) = real[k]
  BY <1>3, OneMessage
<1>9. GrowsIn(<<m>>, main[Setting], real[Setting])
  <2>. DEFINE low == main[Setting]
              high == real[Setting]
  <2>1. low \in Nat /\ high \in Nat /\ low <= high
    BY <1>2 DEF WireInv, GrowsIn
  <2>2. m.delta[Setting] = high
    BY <1>3
  <2>. HIDE DEF low, high
  <2>3. low <= low /\ GrowsIn(<<>>, low, low)
    BY <2>1, Silence
  <2>4. Speaks(m, Setting) => low <= m.delta[Setting] /\ m.delta[Setting] <= high
    BY <2>1, <2>2
  <2>5. GrowsIn(Append(<<>>, m), low, high)
    BY <2>1, <2>3, <2>4, <1>3, <1>4, GrowsAppend
  <2>. QED
    BY <2>5, <1>5 DEF low, high
<1>10. ToldIn(<<m>>, main[Setting], callbacks', wrote)
  <2>1. \A i \in DOMAIN <<m>> : <<m>>[i].type = "data"
    BY <1>3
  <2>. QED
    BY <2>1 DEF ToldIn
<1>11. MainFollows'
  BY <1>1, <1>8 DEF MainFollows
<1>12. /\ GrowsIn(downstream, main[Setting], real[Setting])'
       /\ ToldIn(downstream, main[Setting], callbacks, wrote)'
  BY <1>1, <1>9, <1>10 DEF GrowsIn, ToldIn, About
<1>. QED
  BY <1>6, <1>7, <1>11, <1>12 DEF WireInv

\* The loss of the connection takes what is on its way with it.
LEMMA LostWire ==
    ASSUME Typed, WireInv, UNCHANGED <<real, wrote, main>>, upstream' = <<>>, downstream' = <<>>,
           socket' # "open"
    PROVE  WireInv'
<1>1. WireKept' /\ MainFollows'
  BY DEF WireKept, MainFollows
<1>2. main[Setting] <= real[Setting]
  BY DEF WireInv, GrowsIn
<1>3. GrowsIn(<<>>, main'[Setting], real'[Setting]) /\ ToldIn(<<>>, main'[Setting], callbacks', wrote')
  BY <1>2, Silence
<1>4. /\ GrowsIn(downstream, main[Setting], real[Setting])'
      /\ ToldIn(downstream, main[Setting], callbacks, wrote)'
  BY <1>3 DEF GrowsIn, ToldIn, About
<1>. QED
  BY <1>1, <1>4 DEF WireInv

\* After disconnect() no answer is expected.
LEMMA GivenUpWire ==
    ASSUME Typed, RequestsInv, WireInv, UNCHANGED <<real, wrote, main>>,
           socket' = "none", callbacks' = {},
           downstream' = downstream \/ (downstream # <<>> /\ downstream' = Tail(downstream))
    PROVE  WireInv'
<1>1. WireKept' /\ MainFollows'
  BY DEF WireKept, MainFollows
<1>2. ToldIn(downstream', main'[Setting], callbacks', wrote')
  BY DEF ToldIn
<1>3. GrowsIn(downstream', main[Setting], real[Setting])
  <2>1. /\ GrowsIn(downstream, main[Setting], real[Setting]) /\ downstream \in Seq(DaemonMessages)
        /\ Valued(DaemonMessages)
    BY DaemonKinds DEF WireInv, RequestsInv
  <2>2. CASE downstream' = downstream
    BY <2>1, <2>2
  <2>3. CASE downstream # <<>> /\ downstream' = Tail(downstream)
    <3>. DEFINE h == Head(downstream)
                low == IF Speaks(h, Setting) THEN h.delta[Setting] ELSE main[Setting]
                high == real[Setting]
                t == Tail(downstream)
    <3>1. /\ GrowsIn(t, low, high)
          /\ Speaks(h, Setting) => main[Setting] <= h.delta[Setting]
      BY <2>1, <2>3, GrowsTail
    <3>2. low \in Nat /\ main[Setting] \in Nat /\ high \in Nat /\ t \in Seq(DaemonMessages)
      <4>1. h \in DaemonMessages /\ t \in Seq(DaemonMessages)
        BY <2>1, <2>3, FrontTaken
      <4>. QED
        BY <4>1, <2>1, Numbers DEF Valued
    <3>3. main[Setting] <= low /\ high <= high
      BY <3>1, <3>2
    <3>. HIDE DEF low, high, t
    <3>4. GrowsIn(t, main[Setting], high)
      BY <3>1, <3>2, <3>3, <2>1, GrowsWider
    <3>. QED
      BY <3>4, <2>3 DEF high, t
  <2>. QED
    BY <2>2, <2>3
<1>4. /\ GrowsIn(downstream, main[Setting], real[Setting])'
      /\ ToldIn(downstream, main[Setting], callbacks, wrote)'
  BY <1>2, <1>3 DEF GrowsIn, ToldIn, About
<1>. QED
  BY <1>1, <1>4 DEF WireInv

\* onpost: main takes over what it is told, and expects the rest.
LEMMA DataWire ==
    ASSUME Typed, RequestsInv, WireInv, downstream # <<>>, OnData
    PROVE  /\ RequestsInv' /\ WireInv'
           /\ Head(downstream) \in DaemonMessages /\ Head(downstream).delta \in Deltas
           /\ main' = Assign(main, Head(downstream).delta)
           /\ main'[Setting] \in Nat /\ main[Setting] <= main'[Setting]
<1>. DEFINE m == Head(downstream)
            t == Tail(downstream)
<1>1. /\ m.type = "data" /\ isopen' = TRUE /\ main' = Assign(main, m.delta)
      /\ downstream' = t
      /\ UNCHANGED <<socketVars, requestVars, upstream, executed, real, wrote>>
  BY DEF OnData, daemonVars
<1>2. UNCHANGED <<socket, callbacks, upstream, real, wrote>>
  BY <1>1 DEF socketVars, requestVars
<1>3. RequestsInv'
  BY <1>1, ReceivesRequests DEF requestVars
<1>4. /\ downstream \in Seq(DaemonMessages) /\ m \in DaemonMessages /\ t \in Seq(DaemonMessages)
      /\ Valued(DaemonMessages) /\ m.delta \in Deltas /\ Setting \in Keys
  <2>1. downstream \in Seq(DaemonMessages)
    BY DEF RequestsInv
  <2>. QED
    BY <2>1, <1>1, FrontTaken, DaemonKinds, DeltaKinds
<1>5. \A k \in Keys : main'[k] = IF Speaks(m, k) THEN m.delta[k] ELSE main[k]
  <2>1. \A k \in Keys :
           Assign(main, m.delta)[k] = IF k \in DOMAIN m.delta THEN m.delta[k] ELSE main[k]
    BY DEF Assign
  <2>. QED
    BY <2>1, <1>1 DEF Speaks
<1>6. ASSUME socket = "open", NEW k \in Keys PROVE Latest(t, k, main'[k]) = real[k]
  <2>1. Latest(downstream, k, main[k]) = real[k]
    BY <1>6 DEF WireInv, MainFollows
  <2>2. Latest(downstream, k, main[k])
           = Latest(Tail(downstream), k, IF Speaks(Head(downstream), k)
                                         THEN Head(downstream).delta[k] ELSE main[k])
    BY <1>4, LatestTail
  <2>. QED
    BY <2>1, <2>2, <1>5
<1>7. /\ GrowsIn(t, main'[Setting], real[Setting])
      /\ main'[Setting] \in Nat /\ main[Setting] <= main'[Setting]
      /\ Speaks(m, Setting) => m.delta[Setting] <= main'[Setting]
  <2>1. main'[Setting] = IF Speaks(m, Setting) THEN m.delta[Setting] ELSE main[Setting]
    BY <1>4, <1>5
  <2>2. /\ GrowsIn(t, main'[Setting], real[Setting])
        /\ Speaks(m, Setting) => main[Setting] <= m.delta[Setting]
    <3>1. GrowsIn(downstream, main[Setting], real[Setting])
      BY DEF WireInv
    <3>2. /\ GrowsIn(Tail(downstream), IF Speaks(Head(downstream), Setting)
                          THEN Head(downstream).delta[Setting] ELSE main[Setting], real[Setting])
          /\ Speaks(Head(downstream), Setting) => main[Setting] <= Head(downstream).delta[Setting]
      BY <3>1, <1>4, GrowsTail
    <3>. QED
      BY <3>2, <2>1
  <2>. QED
    BY <2>1, <2>2, <1>4, Numbers DEF Valued
<1>8. ToldIn(t, main'[Setting], callbacks, wrote)
  <2>1. ToldIn(downstream, main[Setting], callbacks, wrote)
    BY DEF WireInv
  <2>2. \A x \in DaemonMessages : x.type = "result" => x.request \in Requests
    BY DaemonKinds
  <2>3. main[Setting] \in Nat /\ wrote \in [Requests -> Nat]
    BY Numbers
  <2>. QED
    BY <2>1, <2>2, <2>3, <1>4, <1>7, ToldTail
<1>. HIDE DEF m, t
<1>9. WireKept'
  BY <1>1, <1>2 DEF WireInv, WireKept
<1>10. MainFollows'
  BY <1>1, <1>2, <1>6 DEF MainFollows
<1>11. /\ GrowsIn(downstream, main[Setting], real[Setting])'
       /\ ToldIn(downstream, main[Setting], callbacks, wrote)'
  <2>1. downstream' = t /\ real' = real /\ callbacks' = callbacks /\ wrote' = wrote
    BY <1>1, <1>2
  <2>. QED
    BY <2>1, <1>7, <1>8 DEF GrowsIn, ToldIn, About
<1>. QED
  BY <1>1, <1>3, <1>4, <1>7, <1>9, <1>10, <1>11 DEF WireInv, m

\* An answer: main has had what the call wrote.
LEMMA AnswerWire ==
    ASSUME Typed, RequestsInv, WireInv, downstream # <<>>, OnAnswer
    PROVE  /\ RequestsInv' /\ WireInv'
           /\ Head(downstream).request \in Requests
           /\ Head(downstream) = Answer(Head(downstream).request)
           /\ Head(downstream).request \in callbacks => Settled(Head(downstream).request)
<1>. DEFINE m == Head(downstream)
            t == Tail(downstream)
            r == m.request
<1>1. /\ m.type = "result" /\ OnResult(r) /\ callbacks' = callbacks \ {r} /\ downstream' = t
      /\ UNCHANGED <<socketVars, queue, issued, upstream, executed, real, wrote, isopen, main>>
  BY DEF OnAnswer, OnResult, daemonVars, mainVars
<1>2. UNCHANGED <<socket, upstream, real, wrote, isopen, main>>
  BY <1>1 DEF socketVars
<1>3. RequestsInv'
  BY <1>1, ReceivesRequests
<1>4. /\ downstream \in Seq(DaemonMessages) /\ t \in Seq(DaemonMessages)
      /\ Valued(DaemonMessages) /\ r \in Requests /\ m = Answer(r) /\ Setting \in Keys
      /\ 1 \in DOMAIN downstream /\ downstream[1] = m /\ About(downstream, Setting) \subseteq Nat \ {0}
      /\ \A k : ~Speaks(m, k)
  <2>1. downstream \in Seq(DaemonMessages)
    BY DEF RequestsInv
  <2>2. /\ t \in Seq(DaemonMessages) /\ m \in DaemonMessages /\ m = downstream[1]
        /\ Len(downstream) \in Nat /\ Len(downstream) >= 1 /\ DOMAIN downstream = 1..Len(downstream)
        /\ About(downstream, Setting) \subseteq 1..Len(downstream)
    BY <2>1, FrontTaken
  <2>3. r \in Requests /\ m = Answer(r)
    BY <2>2, <1>1, DaemonKinds
  <2>4. \A k : ~Speaks(m, k)
    BY <1>1 DEF Speaks
  <2>. QED
    BY <2>1, <2>2, <2>3, <2>4, DaemonKinds, DeltaKinds
<1>5. ASSUME r \in callbacks PROVE Settled(r)
  <2>1. r \in Members(executed)
    <3>1. m \in Members(downstream)
      BY <1>4 DEF Members
    <3>. QED
      BY <3>1, <1>1 DEF RequestsInv, AnswersCarried
  <2>2. /\ wrote[r] > 0
        /\ \/ main[Setting] >= wrote[r]
           \/ \E j \in About(downstream, Setting) : j < 1 /\ downstream[j].delta[Setting] >= wrote[r]
    BY <1>1, <1>4, <1>5 DEF WireInv, ToldIn
  <2>3. \A j \in About(downstream, Setting) : ~(j < 1)
    BY <1>4
  <2>. QED
    BY <2>1, <2>2, <2>3 DEF Settled
<1>6. ToldIn(t, main[Setting], callbacks', wrote)
  <2>1. ToldIn(downstream, main[Setting], callbacks, wrote)
    BY DEF WireInv
  <2>2. \A x \in DaemonMessages : x.type = "result" => x.request \in Requests
    BY DaemonKinds
  <2>3. main[Setting] \in Nat /\ main[Setting] <= main[Setting] /\ wrote \in [Requests -> Nat]
    BY Numbers
  <2>4. ToldIn(t, main[Setting], callbacks, wrote)
    BY <2>1, <2>2, <2>3, <1>4, ToldTail
  <2>. QED
    BY <2>4, <1>1, ToldOther
<1>7. GrowsIn(t, main[Setting], real[Setting])
  <2>1. GrowsIn(downstream, main[Setting], real[Setting])
    BY DEF WireInv
  <2>2. GrowsIn(Tail(downstream), IF Speaks(Head(downstream), Setting)
                      THEN Head(downstream).delta[Setting] ELSE main[Setting], real[Setting])
    BY <2>1, <1>4, GrowsTail
  <2>. QED
    BY <2>2, <1>4
<1>8. ASSUME socket = "open", NEW k \in Keys PROVE Latest(t, k, main[k]) = real[k]
  <2>1. Latest(downstream, k, main[k]) = real[k]
    BY <1>8 DEF WireInv, MainFollows
  <2>2. Latest(downstream, k, main[k])
           = Latest(Tail(downstream), k, IF Speaks(Head(downstream), k)
                                         THEN Head(downstream).delta[k] ELSE main[k])
    BY <1>4, LatestTail
  <2>. QED
    BY <2>1, <2>2, <1>4
<1>. HIDE DEF t
<1>9. WireKept'
  BY <1>1, <1>2 DEF WireInv, WireKept
<1>10. MainFollows'
  BY <1>1, <1>2, <1>8 DEF MainFollows
<1>11. /\ GrowsIn(downstream, main[Setting], real[Setting])'
       /\ ToldIn(downstream, main[Setting], callbacks, wrote)'
  BY <1>1, <1>2, <1>6, <1>7 DEF GrowsIn, ToldIn, About
<1>. QED
  BY <1>3, <1>4, <1>5, <1>9, <1>10, <1>11 DEF WireInv

\* send(): a new call waits for an answer that is not on its way yet.
LEMMA SendsWire ==
    ASSUME Typed, RequestsInv, WireInv, NEW kind \in {"call", "post"}, WindowSends(kind)
    PROVE  RequestsInv' /\ WireInv'
<1>1. /\ Send(kind) /\ UNCHANGED <<socket, downstream, executed, real, wrote, isopen, main>>
  BY DEF WindowSends, Send, socketVars, daemonVars, mainVars
<1>2. RequestsInv'
  BY <1>1, SendRequests
<1>3. WireKept'
  <2>1. socket \in {"connecting", "closing", "closed"} => upstream' = upstream
    BY <1>1 DEF Send
  <2>. QED
    BY <2>1, <1>1 DEF WireInv, WireKept
<1>4. callbacks' \subseteq callbacks \cup {issued + 1}
  <2>1. Members(<<issued + 1>>) = {issued + 1}
    BY DEF Members
  <2>. QED
    BY <2>1, <1>1 DEF Send, Transmit
<1>5. ToldIn(downstream, main[Setting], callbacks', wrote)
  <2>1. ASSUME NEW i \in DOMAIN downstream, downstream[i].type = "result",
               downstream[i].request \in callbacks'
        PROVE  downstream[i].request \in callbacks
    <3>1. downstream[i].request \in Members(executed)
      BY <2>1 DEF RequestsInv, AnswersCarried, Members
    <3>2. \A x \in Members(executed) : x \in Nat /\ x <= issued /\ issued \in Nat
      BY RequestNumbers DEF RequestsInv, InOrder
    <3>. QED
      BY <3>1, <3>2, <2>1, <1>4
  <2>. QED
    BY <2>1, ToldOther DEF WireInv
<1>6. MainFollows'
  BY <1>1 DEF WireInv, MainFollows
<1>7. /\ GrowsIn(downstream, main[Setting], real[Setting])'
      /\ ToldIn(downstream, main[Setting], callbacks, wrote)'
  BY <1>1, <1>5 DEF WireInv, GrowsIn, ToldIn, About
<1>. QED
  BY <1>2, <1>3, <1>6, <1>7 DEF WireInv

\* Whatever is done, no request is lost but with its connection, and main goes on to follow
\* the daemon.
LEMMA WireStep ==
    ASSUME Typed, RequestsInv, WireInv, MirrorNext
    PROVE  RequestsInv' /\ WireInv'
<1>1. RpcTypeOK /\ reconnectTimeout \in BOOLEAN
  BY DEF RequestsInv, RpcTypeOK
<1>2. CASE DaemonChanges
  BY <1>2, ChangesWire
<1>3. CASE RPC_applySettings
  BY <1>3, CallsWire
<1>4. CASE DaemonReplaced \/ CreateWindow \/ PageLoads \/ WindowReceives
  <2>1. UNCHANGED <<rpcVars, real, wrote, isopen, main>>
    BY <1>4 DEF DaemonReplaced, CreateWindow, PageLoads, WindowReceives, daemonVars, mainVars
  <2>2. /\ UNCHANGED <<socketVars, requestVars, socket, callbacks, upstream, downstream, executed>>
        /\ reconnectTimeout' = reconnectTimeout
    BY <2>1 DEF rpcVars, socketVars, requestVars, wireVars
  <2>3. RequestsInv'
    BY <2>2, <1>1, ConnectionRequests
  <2>4. WireInv'
    BY <2>1, <2>2, RestWire
  <2>. QED
    BY <2>3, <2>4
<1>5. CASE SocketOpens
  BY <1>5, OpensWire
<1>6. CASE SocketFails
  <2>1. UNCHANGED <<real, wrote, main, requestVars, executed>>
    BY <1>6 DEF SocketFails, ReportDown, Refused, SocketError, Closes, ServerCloses, HandshakeEnds,
                daemonVars, mainVars, wireVars
  <2>2. /\ socket' # "open" /\ upstream' = <<>> /\ downstream' = <<>>
        /\ WireLost \/ UNCHANGED <<upstream, downstream>>
    BY <1>6 DEF SocketFails, Refused, SocketError, Closes, ServerCloses, HandshakeEnds, WireLost,
                wireVars, socketVars, WireInv, WireKept
  <2>3. /\ reconnectTimeout' \in BOOLEAN
        /\ \/ UNCHANGED socket
           \/ socket # "none" /\ socket' \in {"connecting", "closing", "closed"}
    BY <1>1, <1>6 DEF SocketFails, Refused, SocketError, Closes, ServerCloses, HandshakeEnds,
                      OnError, MayReconnect, socketVars
  <2>4. RequestsInv'
    BY <2>1, <2>2, <2>3, ConnectionRequests
  <2>. QED
    BY <2>1, <2>2, <2>4, LostWire
<1>7. CASE TimerFires
  <2>1. /\ UNCHANGED <<real, wrote, isopen, main, requestVars, wireVars>> /\ reconnectTimeout' = FALSE
        /\ socket' = IF socket \in {"closing", "closed"} THEN "connecting" ELSE socket
    BY <1>7 DEF TimerFires, ReconnectTimer, daemonVars, mainVars
  <2>2. UNCHANGED <<callbacks, upstream, downstream, executed>>
    BY <2>1 DEF requestVars, wireVars
  <2>3. RequestsInv'
    BY <2>1, <2>2, ConnectionRequests
  <2>4. WireInv'
    <3>1. CASE socket \in {"closing", "closed"}
      <4>1. upstream' = <<>> /\ downstream' = <<>> /\ socket' # "open"
        BY <3>1, <2>1, <2>2 DEF WireInv, WireKept
      <4>. QED
        BY <4>1, <2>1, LostWire
    <3>2. CASE socket \notin {"closing", "closed"}
      BY <3>2, <2>1, <2>2, RestWire
    <3>. QED
      BY <3>1, <3>2
  <2>. QED
    BY <2>3, <2>4
<1>8. CASE MainReceives
  <2>1. downstream # <<>>
    BY <1>8 DEF MainReceives
  <2>2. CASE VersionMismatch
    <3>1. /\ socket' = "none" /\ queue' = <<>> /\ callbacks' = {} /\ downstream' = Tail(downstream)
          /\ UNCHANGED <<reconnectTimeout, issued, status, upstream, executed, real, wrote, main>>
      BY <2>2 DEF VersionMismatch, daemonVars
    <3>2. RequestsInv'
      BY <3>1, <2>1, DisconnectRequests
    <3>. QED
      BY <3>1, <3>2, <2>1, GivenUpWire
  <2>3. CASE OnEarlyData
    <3>1. /\ downstream' = Tail(downstream) /\ Head(downstream).type = "data"
          /\ UNCHANGED <<socketVars, requestVars, upstream, executed, real, wrote, main>>
      BY <2>3 DEF OnEarlyData, daemonVars, mainVars
    <3>2. socket = "none" /\ callbacks = {}
      BY <2>1, <2>3, <1>1 DEF WireInv, WireKept, OnEarlyData, RequestsInv, RpcTypeOK
    <3>3. UNCHANGED <<socket, queue, callbacks, issued, status>>
      BY <3>1 DEF socketVars, requestVars
    <3>4. RequestsInv'
      BY <3>1, <3>3, <2>1, ReceivesRequests
    <3>. QED
      BY <3>1, <3>2, <3>3, <3>4, <2>1, GivenUpWire
  <2>. QED
    BY <2>1, <2>2, <2>3, <1>8, DataWire, AnswerWire DEF MainReceives
<1>9. CASE Quit
  <2>1. /\ socket' = "none" /\ queue' = <<>> /\ callbacks' = {} /\ downstream' = downstream
        /\ UNCHANGED <<reconnectTimeout, issued, status, upstream, executed, real, wrote, main>>
    BY <1>9 DEF Quit, Disconnect, wireVars, daemonVars, mainVars
  <2>2. RequestsInv'
    BY <2>1, DisconnectRequests
  <2>. QED
    BY <2>1, <2>2, GivenUpWire
<1>10. CASE \E kind \in {"call", "post"} : WindowSends(kind)
  BY <1>10, SendsWire
<1>. QED
  BY <1>2, <1>3, <1>4, <1>5, <1>6, <1>7, <1>8, <1>9, <1>10 DEF MirrorNext

-----------------------------------------------------------------------------
(* Main's data on their way to the window.                                 *)

\* A message with values not older than main's leaves what was told before it told.
LEMMA ToldStill ==
    ASSUME Typed, NEW s \in Seq(WindowMessages), NEW x, NEW m \in WindowMessages,
           ToldTo(s, x), ReturnedTo(s, x),
           Speaks(m, Setting) => m.delta[Setting] >= main[Setting],
           m.type = "result" =>
               Settled(m.request) /\ \E n \in 0..Len(s) : FreshIn(s, x, n, wrote[m.request])
    PROVE  ToldTo(Append(s, m), x) /\ ReturnedTo(Append(s, m), x)
<1>. DEFINE t == Append(s, m)
            l == Len(s)
<1>1. /\ l \in Nat /\ DOMAIN s = 1..l /\ DOMAIN t = 1..(l + 1)
      /\ \A i \in 1..l : t[i] = s[i] /\ s[i] \in WindowMessages
      /\ t[l + 1] = m
  BY EndAdded
<1>2. main[Setting] \in Nat /\ wrote \in [Requests -> Nat] /\ returned \subseteq Requests
  BY Numbers DEF Typed, MirrorTypeOK
<1>3. ASSUME NEW r \in Requests, Settled(r), Speaks(m, Setting)
      PROVE  m.delta[Setting] >= wrote[r]
  <2>1. m.delta[Setting] \in Nat /\ m.delta[Setting] >= main[Setting] /\ wrote[r] \in Nat
    BY <1>2, <1>3, WindowKinds DEF Valued
  <2>2. main[Setting] >= wrote[r]
    BY <1>3 DEF Settled
  <2>. QED
    BY <2>1, <2>2, <1>2
<1>4. ASSUME NEW r \in Requests, Settled(r), NEW n \in 0..l, FreshIn(s, x, n, wrote[r])
      PROVE  FreshIn(t, x, n, wrote[r])
  <2>1. Speaks(m, Setting) => m.delta[Setting] >= wrote[r]
    BY <1>3, <1>4
  <2>. QED
    BY <2>1, <1>4, FreshAppend
<1>. HIDE DEF t, l
<1>5. ASSUME NEW i \in 1..(l + 1), t[i].type = "result"
      PROVE  /\ Settled(t[i].request)
             /\ \E n \in 0..(i - 1) : FreshIn(t, x, n, wrote[t[i].request])
  <2>. DEFINE r == t[i].request
  <2>1. /\ r \in Requests /\ Settled(r)
        /\ \E n \in 0..(i - 1) : FreshIn(s, x, n, wrote[r])
    <3>1. CASE i = l + 1
      <4>1. t[i] = m /\ (l + 1) - 1 = l
        BY <3>1, <1>1
      <4>2. r \in Requests
        BY <4>1, <1>5, WindowKinds
      <4>. QED
        BY <4>1, <4>2, <3>1, <1>5 DEF l
    <3>2. CASE i \in 1..l
      <4>1. t[i] = s[i] /\ s[i] \in WindowMessages /\ i \in DOMAIN s
        BY <3>2, <1>1
      <4>2. r \in Requests
        BY <4>1, <1>5, WindowKinds
      <4>. QED
        BY <4>1, <4>2, <1>5 DEF ToldTo
    <3>. QED
      BY <3>1, <3>2, <1>1
  <2>. HIDE DEF r
  <2>2. PICK n \in 0..(i - 1) : FreshIn(s, x, n, wrote[r])
    BY <2>1
  <2>3. n \in 0..l
    BY <1>1
  <2>4. FreshIn(t, x, n, wrote[r])
    BY <2>1, <2>2, <2>3, <1>4
  <2>. QED
    BY <2>1, <2>4 DEF r
<1>6. ToldTo(t, x)
  BY <1>1, <1>5 DEF ToldTo
<1>7. ReturnedTo(t, x)
  <2>1. 0 \in 0..l
    BY <1>1
  <2>2. \A r \in returned : r \in Requests /\ Settled(r) /\ FreshIn(s, x, 0, wrote[r])
    BY <1>2 DEF ReturnedTo
  <2>. QED
    BY <2>1, <2>2, <1>4 DEF ReturnedTo
<1>. QED
  BY <1>6, <1>7 DEF t

\* "up", with the data that main had before, or has.
LEMMA TellsUp ==
    ASSUME Typed, main \in Complete, NEW s, NEW up, Tells(s, main, up)
    PROVE  Tells(Append(s, Up(main)), main, TRUE)
<1>. DEFINE m == Up(main)
            t == Append(s, m)
<1>1. /\ s \in Seq(WindowMessages) /\ ToldTo(s, window[Setting]) /\ ReturnedTo(s, window[Setting])
  BY DEF Tells
<1>2. /\ m \in WindowMessages /\ m.type = "up" /\ m.delta = main /\ Signalling(m)
      /\ \A k \in Keys : Speaks(m, k)
      /\ main[Setting] \in Nat /\ Setting \in Keys
  BY WindowKinds, DeltaKinds, Numbers
<1>. HIDE DEF m
<1>3. /\ t \in Seq(WindowMessages)
      /\ \A k, v : Latest(t, k, v) = IF Speaks(m, k) THEN m.delta[k] ELSE Latest(s, k, v)
  BY <1>1, <1>2, LatestAppend
<1>4. \A b : Said(t, b) = IF Signalling(m) THEN m.type = "up" ELSE Said(s, b)
  BY <1>1, <1>2, SaidAppend
<1>5. ToldTo(t, window[Setting]) /\ ReturnedTo(t, window[Setting])
  <2>1. m.delta[Setting] >= main[Setting] /\ m.type # "result"
    BY <1>2
  <2>. QED
    BY <2>1, <1>1, <1>2, ToldStill
<1>. HIDE DEF t
<1>6. Tells(t, main, TRUE)
  BY <1>2, <1>3, <1>4, <1>5 DEF Tells
<1>. QED
  BY <1>6 DEF t, m

\* "down": the data stay as they are.
LEMMA TellsDown ==
    ASSUME Typed, NEW s, NEW up, Tells(s, main, up)
    PROVE  Tells(Append(s, Down), main, FALSE)
<1>. DEFINE m == Down
            t == Append(s, m)
<1>1. /\ s \in Seq(WindowMessages) /\ ToldTo(s, window[Setting]) /\ ReturnedTo(s, window[Setting])
  BY DEF Tells
<1>2. m \in WindowMessages /\ m.type = "down" /\ Signalling(m) /\ \A k : ~Speaks(m, k)
  BY WindowKinds
<1>. HIDE DEF m
<1>3. t \in Seq(WindowMessages) /\ \A k, v : Latest(t, k, v) = Latest(s, k, v)
  <2>1. /\ t \in Seq(WindowMessages)
        /\ \A k, v : Latest(t, k, v) = IF Speaks(m, k) THEN m.delta[k] ELSE Latest(s, k, v)
    BY <1>1, <1>2, LatestAppend
  <2>. QED
    BY <2>1, <1>2
<1>4. \A b : Said(t, b) = IF Signalling(m) THEN m.type = "up" ELSE Said(s, b)
  BY <1>1, <1>2, SaidAppend
<1>5. ToldTo(t, window[Setting]) /\ ReturnedTo(t, window[Setting])
  <2>1. ~Speaks(m, Setting) /\ m.type # "result"
    BY <1>2
  <2>. QED
    BY <2>1, <1>1, <1>2, ToldStill
<1>. HIDE DEF t
<1>6. Tells(t, main, FALSE)
  BY <1>2, <1>3, <1>4, <1>5 DEF Tells
<1>. QED
  BY <1>6 DEF t, m

\* daemon-post: what filterChanges leaves is what changes main's data, and so the window's.
LEMMA TellsPost ==
    ASSUME Typed, NEW s, Tells(s, main, TRUE), NEW d \in Deltas,
           main[Setting] <= Assign(main, d)[Setting]
    PROVE  Tells(Append(s, Post(FilterChanges(main, d))), Assign(main, d), TRUE)
<1>. DEFINE f == FilterChanges(main, d)
            m == Post(f)
            t == Append(s, m)
            a == Assign(main, d)
<1>1. /\ s \in Seq(WindowMessages) /\ ToldTo(s, window[Setting]) /\ ReturnedTo(s, window[Setting])
      /\ page = "loaded" /\ opened => \A k \in Keys : Latest(s, k, window[k]) = main[k]
      /\ page = "loaded" => Said(s, ~loaderOn) = TRUE
      /\ \A k \in Keys : Latest(s, k, main[k]) = main[k]
      /\ Said(s, TRUE) = TRUE
  BY DEF Tells
<1>2. /\ f \in Deltas
      /\ \A k \in Keys : /\ k \in DOMAIN f => f[k] = a[k]
                         /\ k \notin DOMAIN f => a[k] = main[k]
  <2>1. /\ f \in Deltas /\ DOMAIN f = {k \in DOMAIN d : d[k] # main[k]}
        /\ \A k \in DOMAIN f : f[k] = d[k]
    BY Filtered
  <2>2. \A k \in Keys : a[k] = IF k \in DOMAIN d THEN d[k] ELSE main[k]
    BY DEF Assign
  <2>. HIDE DEF f, a
  <2>. QED
    BY <2>1, <2>2
<1>. HIDE DEF f, a
<1>3. /\ m \in WindowMessages /\ m.type = "post" /\ m.delta = f /\ ~Signalling(m)
      /\ \A k : Speaks(m, k) <=> k \in DOMAIN f
      /\ Setting \in Keys
  BY <1>2, WindowKinds, DeltaKinds
<1>. HIDE DEF m
<1>4. /\ t \in Seq(WindowMessages)
      /\ \A k, v : Latest(t, k, v) = IF Speaks(m, k) THEN m.delta[k] ELSE Latest(s, k, v)
  BY <1>1, <1>3, LatestAppend
<1>5. \A b : Said(t, b) = Said(s, b)
  <2>1. \A b : Said(t, b) = IF Signalling(m) THEN m.type = "up" ELSE Said(s, b)
    BY <1>1, <1>3, SaidAppend
  <2>. QED
    BY <2>1, <1>3
<1>6. ToldTo(t, window[Setting]) /\ ReturnedTo(t, window[Setting])
  <2>1. Speaks(m, Setting) => m.delta[Setting] >= main[Setting]
    <3>1. Speaks(m, Setting) => m.delta[Setting] = a[Setting]
      BY <1>2, <1>3
    <3>2. main[Setting] <= a[Setting] /\ main[Setting] \in Nat
      BY Numbers DEF a
    <3>3. Speaks(m, Setting) => m.delta[Setting] \in Nat
      BY <1>3, WindowKinds DEF Valued
    <3>. QED
      BY <3>1, <3>2, <3>3
  <2>2. m.type # "result"
    BY <1>3
  <2>. QED
    BY <2>1, <2>2, <1>1, <1>3, ToldStill
<1>. HIDE DEF t
<1>7. \A k \in Keys : \A v : Latest(s, k, v) = main[k] => Latest(t, k, v) = a[k]
  BY <1>2, <1>3, <1>4
<1>8. \A k \in Keys : Latest(t, k, a[k]) = a[k]
  <2>. TAKE k \in Keys
  <2>1. CASE Speaks(m, k)
    BY <2>1, <1>2, <1>3, <1>4
  <2>2. CASE ~Speaks(m, k)
    BY <2>2, <1>1, <1>2, <1>3, <1>4
  <2>. QED
    BY <2>1, <2>2
<1>9. Tells(t, a, TRUE)
  BY <1>1, <1>4, <1>5, <1>6, <1>7, <1>8 DEF Tells
<1>. QED
  BY <1>9 DEF t, m, f, a

\* daemon-result: main forwards an answer after what it was told before.
LEMMA TellsAnswer ==
    ASSUME Typed, NEW s, NEW up, Tells(s, main, up), NEW r \in Requests, Settled(r),
           page = "loaded", opened
    PROVE  Tells(Append(s, Answer(r)), main, up)
<1>. DEFINE m == Answer(r)
            t == Append(s, m)
<1>1. /\ s \in Seq(WindowMessages) /\ ToldTo(s, window[Setting]) /\ ReturnedTo(s, window[Setting])
      /\ \A k \in Keys : Latest(s, k, window[k]) = main[k]
  BY DEF Tells
<1>2. /\ m \in WindowMessages /\ ~Signalling(m) /\ m.request = r /\ \A k : ~Speaks(m, k)
      /\ Setting \in Keys
  BY WindowKinds, DaemonKinds, DeltaKinds
<1>. HIDE DEF m
<1>3. t \in Seq(WindowMessages) /\ \A k, v : Latest(t, k, v) = Latest(s, k, v)
  <2>1. /\ t \in Seq(WindowMessages)
        /\ \A k, v : Latest(t, k, v) = IF Speaks(m, k) THEN m.delta[k] ELSE Latest(s, k, v)
    BY <1>1, <1>2, LatestAppend
  <2>. QED
    BY <2>1, <1>2
<1>4. \A b : Said(t, b) = Said(s, b)
  <2>1. \A b : Said(t, b) = IF Signalling(m) THEN m.type = "up" ELSE Said(s, b)
    BY <1>1, <1>2, SaidAppend
  <2>. QED
    BY <2>1, <1>2
<1>5. \E n \in 0..Len(s) : FreshIn(s, window[Setting], n, wrote[r])
  <2>1. Latest(s, Setting, window[Setting]) >= wrote[r]
    BY <1>1, <1>2 DEF Settled
  <2>. QED
    BY <2>1, <1>1, FreshNow
<1>6. ToldTo(t, window[Setting]) /\ ReturnedTo(t, window[Setting])
  BY <1>1, <1>2, <1>5, ToldStill
<1>. HIDE DEF t
<1>7. Tells(t, main, up)
  BY <1>3, <1>4, <1>6 DEF Tells
<1>. QED
  BY <1>7 DEF t, m

\* While there is no window, nothing is told.
LEMMA TellsNothing ==
    ASSUME page = "none", NEW s, NEW up, Tells(s, main, up), s = <<>>, NEW data, NEW b
    PROVE  Tells(s, data, b)
<1>1. /\ s \in Seq(WindowMessages) /\ ToldTo(s, window[Setting]) /\ ReturnedTo(s, window[Setting])
  BY DEF Tells
<1>2. /\ \A k, v : Latest(s, k, v) = v
      /\ \A v : Said(s, v) = v
  BY Silence
<1>. QED
  BY <1>1, <1>2 DEF Tells

\* What was carried out stays so, and what a call wrote is not forgotten.
LEMMA Remembers ==
    ASSUME Typed, RequestsInv, WireInv, MirrorNext
    PROVE  /\ real' \in Complete /\ wrote' \in [Requests -> Values]
           /\ \A r \in Members(executed) :
                 r \in Requests /\ wrote'[r] = wrote[r] /\ r \in Members(executed')
<1>1. real \in Complete /\ wrote \in [Requests -> Values] /\ Members(executed) \subseteq Requests
  BY RequestNumbers DEF Typed, MirrorTypeOK
<1>2. CASE RPC_applySettings
  BY <1>2, CallsWire
<1>3. CASE DaemonChanges
  <2>1. wrote' = wrote /\ executed' = executed
    BY <1>3 DEF DaemonChanges
  <2>. QED
    BY <2>1, <1>1, <1>3, ChangesWire
<1>4. CASE ~RPC_applySettings /\ ~DaemonChanges
  <2>1. UNCHANGED <<real, wrote, executed>>
    BY <1>4 DEF MirrorNext, DaemonReplaced, SocketOpens, Opens, SocketFails, ReportDown, Refused,
                SocketError, Closes, ServerCloses, HandshakeEnds, TimerFires, ReconnectTimer,
                MainReceives, VersionMismatch, OnData, OnEarlyData, OnAnswer, CreateWindow, Quit,
                Disconnect, WindowSends, Send, PageLoads, WindowReceives, daemonVars, rpcVars, wireVars
  <2>. QED
    BY <2>1, <1>1
<1>. QED
  BY <1>2, <1>3, <1>4

\* The window does nothing, and main has told it what main does.
LEMMA TellsNext ==
    ASSUME Typed, RequestsInv, WireInv, MirrorNext, UNCHANGED pageVars, Tells(ipc', main', isopen'),
           main'[Setting] \in Nat, main[Setting] <= main'[Setting]
    PROVE  Tells(ipc, main, isopen)'
<1>1. UNCHANGED <<page, window, opened, loaderOn, returned>>
  BY DEF pageVars
<1>2. ASSUME NEW r, Settled(r) PROVE Settled(r)' /\ wrote'[r] = wrote[r]
  <2>1. r \in Members(executed) /\ wrote[r] > 0 /\ main[Setting] >= wrote[r]
    BY <1>2 DEF Settled
  <2>2. r \in Requests /\ wrote'[r] = wrote[r] /\ r \in Members(executed')
    BY <2>1, Remembers
  <2>3. wrote[r] \in Nat /\ main[Setting] \in Nat
    BY <2>2, Numbers
  <2>4. main'[Setting] >= wrote[r]
    BY <2>1, <2>3
  <2>. QED
    BY <2>1, <2>2, <2>4 DEF Settled, Members
<1>3. /\ ipc' \in Seq(WindowMessages)
      /\ page' = "loaded" /\ opened' => \A k \in Keys : Latest(ipc', k, window'[k]) = main'[k]
      /\ page' = "loaded" => Said(ipc', ~loaderOn') = isopen'
      /\ \A k \in Keys : Latest(ipc', k, main'[k]) = main'[k]
      /\ Said(ipc', isopen') = isopen'
      /\ ToldTo(ipc', window[Setting]) /\ ReturnedTo(ipc', window[Setting])
  BY <1>1 DEF Tells
<1>4. ToldTo(ipc, window[Setting])'
  <2>. SUFFICES ASSUME NEW i \in DOMAIN ipc', ipc'[i].type = "result", NEW r, r = ipc'[i].request
                PROVE  /\ Settled(r)'
                       /\ \E n \in 0..(i - 1) : FreshIn(ipc', window'[Setting], n, wrote'[r])
    BY DEF ToldTo, FreshIn, About
  <2>1. Settled(r) /\ \E n \in 0..(i - 1) : FreshIn(ipc', window[Setting], n, wrote[r])
    BY <1>3 DEF ToldTo
  <2>2. Settled(r)' /\ wrote'[r] = wrote[r]
    BY <2>1, <1>2
  <2>. QED
    BY <2>1, <2>2, <1>1
<1>5. ReturnedTo(ipc, window[Setting])'
  <2>. SUFFICES ASSUME NEW r \in returned'
                PROVE  Settled(r)' /\ FreshIn(ipc', window'[Setting], 0, wrote'[r])
    BY DEF ReturnedTo, FreshIn, About
  <2>1. Settled(r) /\ FreshIn(ipc', window[Setting], 0, wrote[r])
    BY <1>1, <1>3 DEF ReturnedTo
  <2>2. Settled(r)' /\ wrote'[r] = wrote[r]
    BY <2>1, <1>2
  <2>. QED
    BY <2>1, <2>2, <1>1
<1>. QED
  BY <1>3, <1>4, <1>5 DEF Tells, Latest, Said, About, Signals

\* What main does without a word to the window.
LEMMA RestWindow ==
    ASSUME Typed, RequestsInv, WireInv, WindowInv, MirrorNext,
           UNCHANGED <<ipc, isopen, main, pageVars>>,
           connected' = connected \/ (page = "none" /\ connected' # "resolved"),
           issued' = issued \/ (page = "loaded" /\ opened)
    PROVE  WindowInv'
<1>1. Tells(ipc', main', isopen') /\ main'[Setting] \in Nat /\ main[Setting] <= main'[Setting]
  BY Numbers DEF WindowInv
<1>2. Tells(ipc, main, isopen)'
  BY <1>1, TellsNext
<1>3. UNCHANGED <<page, window, opened, loaderOn>>
  BY DEF pageVars
<1>4. PagesKept'
  BY <1>3 DEF WindowInv, PagesKept
<1>. QED
  BY <1>2, <1>4 DEF WindowInv

\* What webContents.send appends, one message or two.
LEMMA Appended ==
    ASSUME NEW S, NEW s \in Seq(S), NEW m \in S, NEW n \in S
    PROVE  /\ s \o <<m>> = Append(s, m) /\ s \o <<m, n>> = Append(Append(s, m), n)
           /\ <<m>> \o <<n>> = <<m, n>>
<1>1. s \o <<m>> = Append(s, m)
  BY AppendIsConcat
<1>2. Append(s, m) \in Seq(S) /\ <<m>> \in Seq(S) /\ <<n>> \in Seq(S)
  BY AppendProperties
<1>3. Append(s, m) \o <<n>> = Append(Append(s, m), n)
  <2>. DEFINE t == Append(s, m)
  <2>1. t \in Seq(S)
    BY <1>2
  <2>. HIDE DEF t
  <2>2. t \o <<n>> = Append(t, n)
    BY <2>1, AppendIsConcat
  <2>. QED
    BY <2>2 DEF t
<1>4. (s \o <<m>>) \o <<n>> = s \o (<<m>> \o <<n>>)
  <2>. DEFINE a == <<m>>
              b == <<n>>
  <2>1. a \in Seq(S) /\ b \in Seq(S)
    BY <1>2
  <2>. HIDE DEF a, b
  <2>2. (s \o a) \o b = s \o (a \o b)
    BY <2>1, ConcatAssociative
  <2>. QED
    BY <2>2 DEF a, b
<1>5. <<m>> \o <<n>> = <<m, n>>
  <2>. DEFINE a == <<m>>
              b == <<n>>
              c == <<m, n>>
  <2>1. /\ a \in Seq(S) /\ Len(a) = 1 /\ a[1] = m /\ b \in Seq(S) /\ Len(b) = 1 /\ b[1] = n
        /\ c \in Seq(S) /\ Len(c) = 2 /\ c[1] = m /\ c[2] = n
    OBVIOUS
  <2>. HIDE DEF a, b, c
  <2>2. /\ a \o b \in Seq(S) /\ Len(a \o b) = Len(a) + Len(b)
        /\ \A i \in 1..(Len(a) + Len(b)) :
              (a \o b)[i] = IF i <= Len(a) THEN a[i] ELSE b[i - Len(a)]
    BY <2>1, ConcatProperties
  <2>3. Len(a \o b) = 2 /\ (a \o b)[1] = m /\ (a \o b)[2] = n
    BY <2>1, <2>2
  <2>4. \A i \in 1..Len(a \o b) : (a \o b)[i] = c[i]
    BY <2>1, <2>3
  <2>5. a \o b = c
    BY <2>1, <2>2, <2>3, <2>4, SeqEqual
  <2>. QED
    BY <2>5 DEF a, b, c
<1>. QED
  BY <1>1, <1>3, <1>4, <1>5

\* _onerror: the window is told once or twice that the connection is gone.
LEMMA DownWindow ==
    ASSUME Typed, RequestsInv, WireInv, WindowInv, MirrorNext, UNCHANGED issued,
           ReportDown(<<Down>>) \/ ReportDown(<<Down, Down>>)
    PROVE  WindowInv'
<1>1. /\ isopen' = FALSE /\ UNCHANGED <<main, connected, pageVars>>
      /\ ipc' = (IF page = "none" THEN ipc ELSE ipc \o <<Down>>)
             \/ ipc' = (IF page = "none" THEN ipc ELSE ipc \o <<Down, Down>>)
  BY DEF ReportDown, ToWindow
<1>2. Tells(ipc, main, isopen) /\ PagesKept /\ ipc \in Seq(WindowMessages)
  BY DEF WindowInv, Tells
<1>3. Tells(ipc', main, FALSE)
  <2>1. CASE page = "none"
    <3>1. ipc' = ipc /\ ipc = <<>>
      BY <2>1, <1>1, <1>2 DEF PagesKept
    <3>. QED
      BY <3>1, <2>1, <1>2, TellsNothing
  <2>2. CASE page # "none"
    <3>1. ipc' = Append(ipc, Down) \/ ipc' = Append(Append(ipc, Down), Down)
      <4>1. Down \in WindowMessages
        BY WindowKinds
      <4>. QED
        BY <4>1, <2>2, <1>1, <1>2, Appended
    <3>2. Tells(Append(ipc, Down), main, FALSE)
      BY <1>2, TellsDown
    <3>3. Tells(Append(Append(ipc, Down), Down), main, FALSE)
      <4>. DEFINE s == Append(ipc, Down)
      <4>1. Tells(s, main, FALSE)
        BY <3>2
      <4>. HIDE DEF s
      <4>2. Tells(Append(s, Down), main, FALSE)
        BY <4>1, TellsDown
      <4>. QED
        BY <4>2 DEF s
    <3>. QED
      BY <3>1, <3>2, <3>3
  <2>. QED
    BY <2>1, <2>2
<1>4. Tells(ipc, main, isopen)'
  <2>1. Tells(ipc', main', isopen')
    BY <1>1, <1>3
  <2>2. main'[Setting] \in Nat /\ main[Setting] <= main'[Setting]
    BY <1>1, Numbers
  <2>. QED
    BY <2>1, <2>2, <1>1, TellsNext
<1>5. PagesKept'
  <2>1. UNCHANGED <<page, window, opened, loaderOn>>
    BY <1>1 DEF pageVars
  <2>. QED
    BY <2>1, <1>1, <1>2 DEF PagesKept
<1>. QED
  BY <1>4, <1>5 DEF WindowInv

\* onpost: what main relays of the daemon's message.
LEMMA DataWindow ==
    ASSUME Typed, RequestsInv, WireInv, WindowInv, MirrorNext, downstream # <<>>, OnData
    PROVE  WindowInv'
<1>. DEFINE d == Head(downstream).delta
            p == Post(FilterChanges(main, d))
<1>1. /\ isopen' = TRUE /\ main' = Assign(main, d) /\ UNCHANGED pageVars
      /\ isopen \/ IsComplete(d)
      /\ connected' = IF connected = "waiting" THEN "resolved" ELSE connected
      /\ ipc' = IF page = "none" THEN ipc ELSE ipc \o Relayed(d)
      /\ issued' = issued
  BY DEF OnData, ToWindow, requestVars
<1>2. /\ d \in Deltas /\ main'[Setting] \in Nat /\ main[Setting] <= main'[Setting]
  BY DataWire
<1>3. Tells(ipc, main, isopen) /\ PagesKept /\ ipc \in Seq(WindowMessages)
  BY DEF WindowInv, Tells
<1>4. main \in [Keys -> Values]
  BY Numbers
<1>5. main' \in Complete
  <2>1. main \in Complete \/ IsComplete(d)
    BY <1>1, <1>3 DEF PagesKept
  <2>. HIDE DEF d
  <2>2. Assign(main, d) \in Complete
    BY <2>1, <1>2, <1>4, Assigned
  <2>. QED
    BY <2>2, <1>1
<1>6. Tells(ipc', main', TRUE)
  <2>1. CASE page = "none"
    <3>1. ipc' = ipc /\ ipc = <<>>
      BY <2>1, <1>1, <1>3 DEF PagesKept
    <3>. QED
      BY <3>1, <2>1, <1>3, TellsNothing
  <2>2. CASE page # "none"
    <3>1. main \in Complete
      BY <2>2, <1>3 DEF PagesKept
    <3>2. Up(main) \in WindowMessages /\ p \in WindowMessages
      <4>1. FilterChanges(main, d) \in Deltas
        <5>. HIDE DEF d
        <5>. QED
          BY <1>2, Filtered
      <4>. QED
        BY <4>1, <3>1, WindowKinds
    <3>3. PICK s : /\ s = ipc \/ s = Append(ipc, Up(main))
                   /\ Tells(s, main, TRUE) /\ ipc' = Append(s, p)
      <4>1. CASE isopen
        <5>1. Relayed(d) = <<p>>
          <6>. DEFINE q == <<p>>
          <6>1. q \in Seq(WindowMessages)
            BY <3>2
          <6>2. Relayed(d) = <<>> \o q
            BY <4>1 DEF Relayed
          <6>. HIDE DEF q
          <6>3. Relayed(d) = q
            BY <6>1, <6>2, ConcatEmptySeq
          <6>. QED
            BY <6>3 DEF q
        <5>2. ipc' = Append(ipc, p)
          <6>. HIDE DEF p
          <6>. QED
            BY <5>1, <3>2, <2>2, <1>1, <1>3, Appended
        <5>. QED
          BY <5>2, <4>1, <1>3
      <4>2. CASE ~isopen
        <5>1. Relayed(d) = <<Up(main), p>>
          <6>. DEFINE u == Up(main)
          <6>1. u \in WindowMessages /\ p \in WindowMessages /\ Relayed(d) = <<u>> \o <<p>>
            BY <3>2, <4>2 DEF Relayed
          <6>. HIDE DEF u, p
          <6>2. <<u>> \o <<p>> = <<u, p>>
            BY <6>1, <1>3, Appended
          <6>. QED
            BY <6>1, <6>2 DEF u
        <5>2. ipc' = Append(Append(ipc, Up(main)), p)
          <6>. DEFINE u == Up(main)
          <6>1. u \in WindowMessages /\ p \in WindowMessages /\ ipc' = ipc \o <<u, p>>
            BY <5>1, <3>2, <2>2, <1>1
          <6>. HIDE DEF u, p
          <6>2. ipc' = Append(Append(ipc, u), p)
            BY <6>1, <1>3, Appended
          <6>. QED
            BY <6>2 DEF u
        <5>3. Tells(Append(ipc, Up(main)), main, TRUE)
          BY <3>1, <1>3, TellsUp
        <5>. QED
          BY <5>2, <5>3
      <4>. QED
        BY <4>1, <4>2
    <3>4. Tells(Append(s, Post(FilterChanges(main, d))), Assign(main, d), TRUE)
      <4>. HIDE DEF d
      <4>. QED
        BY <3>3, <1>1, <1>2, TellsPost
    <3>. QED
      BY <3>3, <3>4, <1>1
  <2>. QED
    BY <2>1, <2>2
<1>7. Tells(ipc, main, isopen)'
  <2>1. Tells(ipc', main', isopen')
    BY <1>1, <1>6
  <2>. QED
    BY <2>1, <1>1, <1>2, TellsNext
<1>8. PagesKept'
  <2>1. UNCHANGED <<page, window, opened, loaderOn>>
    BY <1>1 DEF pageVars
  <2>2. page = "none" => ipc' = <<>>
    BY <1>1, <1>3 DEF PagesKept
  <2>. QED
    BY <2>1, <2>2, <1>1, <1>3, <1>5 DEF PagesKept
<1>. QED
  BY <1>7, <1>8 DEF WindowInv

\* A call is made by a page that has its data.
LEMMA CallersLoaded ==
    ASSUME RequestsInv, PagesKept
    PROVE  /\ \A r \in callbacks : page = "loaded" /\ opened
           /\ \A r : Settled(r) => page = "loaded" /\ opened
<1>1. RpcTypeOK /\ NewAbove /\ Accounts /\ InOrder
  BY DEF RequestsInv
<1>2. issued \in Nat /\ Requests \subseteq Nat \ {0} /\ Members(executed) \subseteq Requests
  BY <1>1, RequestNumbers DEF Requests
<1>3. ASSUME NEW r \in callbacks PROVE issued > 0
  <2>1. r \in Requests /\ status[r] = "call"
    BY <1>1 DEF RpcTypeOK, Accounts
  <2>2. ~(r > issued)
    BY <2>1, <1>1 DEF NewAbove
  <2>. QED
    BY <2>1, <2>2, <1>2
<1>4. ASSUME NEW r, Settled(r) PROVE issued > 0
  <2>1. r \in Members(executed) /\ r <= issued
    BY <1>1, <1>4 DEF Settled, InOrder
  <2>2. r \in Nat /\ r # 0
    BY <2>1, <1>2
  <2>. QED
    BY <2>1, <2>2, <1>2
<1>. QED
  BY <1>3, <1>4 DEF PagesKept

\* daemon-result, for a call that still waits for it.
LEMMA AnswerWindow ==
    ASSUME Typed, RequestsInv, WireInv, WindowInv, MirrorNext, downstream # <<>>, OnAnswer
    PROVE  WindowInv'
<1>. DEFINE m == Head(downstream)
            r == m.request
<1>1. /\ UNCHANGED <<isopen, main, connected, pageVars, issued>>
      /\ ipc' = IF page = "none" THEN ipc
                ELSE ipc \o (IF r \in callbacks THEN <<m>> ELSE <<>>)
  BY DEF OnAnswer, ToWindow, mainVars
<1>2. Tells(ipc, main, isopen) /\ PagesKept /\ ipc \in Seq(WindowMessages)
  BY DEF WindowInv, Tells
<1>3. main'[Setting] \in Nat /\ main[Setting] <= main'[Setting]
  BY <1>1, Numbers
<1>4. Tells(ipc', main, isopen) /\ (page = "none" => ipc' = <<>>)
  <2>1. CASE page = "none"
    BY <2>1, <1>1, <1>2 DEF PagesKept
  <2>2. CASE page # "none" /\ r \notin callbacks
    <3>1. ipc' = ipc
      BY <2>2, <1>1, <1>2, ConcatEmptySeq
    <3>. QED
      BY <3>1, <2>2, <1>2
  <2>3. CASE page # "none" /\ r \in callbacks
    <3>1. r \in Requests /\ m = Answer(r) /\ Settled(r)
      BY <2>3, AnswerWire
    <3>2. page = "loaded" /\ opened
      BY <2>3, <1>2, CallersLoaded
    <3>3. ipc' = ipc \o <<Answer(r)>> /\ Answer(r) \in WindowMessages
      BY <3>1, <2>3, <1>1, WindowKinds
    <3>. HIDE DEF r
    <3>4. ipc' = Append(ipc, Answer(r))
      BY <3>3, <1>2, Appended
    <3>. QED
      BY <3>1, <3>2, <3>4, <2>3, <1>2, TellsAnswer
  <2>. QED
    BY <2>1, <2>2, <2>3
<1>5. Tells(ipc, main, isopen)'
  <2>1. Tells(ipc', main', isopen')
    BY <1>1, <1>4
  <2>. QED
    BY <2>1, <1>1, <1>3, TellsNext
<1>6. PagesKept'
  <2>1. UNCHANGED <<page, window, opened, loaderOn>>
    BY <1>1 DEF pageVars
  <2>. QED
    BY <2>1, <1>1, <1>2, <1>4 DEF PagesKept
<1>. QED
  BY <1>5, <1>6 DEF WindowInv

\* createMainWindow: the page that loads is told the status, and has no data yet.
LEMMA CreateWindowKeeps ==
    ASSUME Typed, RequestsInv, WireInv, WindowInv, CreateWindow
    PROVE  WindowInv'
<1>. DEFINE m == StatusReply
<1>1. /\ page = "none" /\ connected = "resolved" /\ page' = "loading" /\ ipc' = <<m>>
      /\ UNCHANGED <<isopen, main, connected, window, opened, loaderOn, returned, issued>>
  BY DEF CreateWindow, rpcVars, requestVars, mainVars
<1>2. PagesKept /\ ReturnedTo(ipc, window[Setting])
  BY DEF WindowInv, Tells
<1>3. /\ m \in WindowMessages /\ Signalling(m) /\ m.type # "result"
      /\ (m.type = "up") = isopen
      /\ \A k \in Keys : Speaks(m, k) => m.delta[k] = main[k]
  <2>1. CASE isopen
    <3>1. main \in Complete
      BY <1>1, <1>2 DEF PagesKept
    <3>. QED
      BY <3>1, <2>1, WindowKinds DEF StatusReply
  <2>2. CASE ~isopen
    <3>1. m = Down /\ isopen = FALSE
      BY <2>2 DEF StatusReply, Typed, MirrorTypeOK
    <3>2. Down.type = "down"
      BY DEF Down
    <3>. HIDE DEF m
    <3>. QED
      BY <3>1, <3>2, WindowKinds
  <2>. QED
    BY <2>1, <2>2
<1>. HIDE DEF m
<1>4. <<m>> \in Seq(WindowMessages)
  BY <1>3
<1>5. /\ \A k \in Keys : Latest(<<m>>, k, main[k]) = main[k]
      /\ Said(<<m>>, isopen) = isopen
  BY <1>3, OneMessage
<1>6. ToldTo(ipc, window[Setting])'
  <2>1. \A i \in DOMAIN <<m>> : <<m>>[i].type # "result"
    BY <1>3
  <2>. QED
    BY <2>1, <1>1 DEF ToldTo
<1>7. ReturnedTo(ipc, window[Setting])'
  <2>1. returned = {}
    BY <1>1, <1>2, CallersLoaded DEF ReturnedTo
  <2>. QED
    BY <2>1, <1>1 DEF ReturnedTo
<1>8. Tells(ipc, main, isopen)'
  <2>1. /\ ipc' \in Seq(WindowMessages) /\ page' # "loaded"
        /\ \A k \in Keys : Latest(ipc', k, main'[k]) = main'[k]
        /\ Said(ipc', isopen') = isopen'
    BY <1>1, <1>4, <1>5
  <2>. QED
    BY <2>1, <1>6, <1>7 DEF Tells, Latest, Said, About, Signals
<1>9. PagesKept'
  BY <1>1, <1>2 DEF PagesKept
<1>. QED
  BY <1>8, <1>9 DEF WindowInv

\* The page loads: some of the first messages are lost, and it asks for the status.
LEMMA PageLoadsKeeps ==
    ASSUME Typed, RequestsInv, WireInv, WindowInv, PageLoads
    PROVE  WindowInv'
<1>1. /\ page = "loading" /\ page' = "loaded"
      /\ UNCHANGED <<isopen, main, connected, returned, issued>>
      /\ IF isopen THEN OnUp(main) ELSE UNCHANGED <<window, opened, loaderOn>>
  BY DEF PageLoads, rpcVars, requestVars, mainVars
<1>2. PICK n \in 0..Len(ipc) : ipc' = SubSeq(ipc, n + 1, Len(ipc))
  BY DEF PageLoads
<1>3. /\ PagesKept /\ Tells(ipc, main, isopen) /\ ipc \in Seq(WindowMessages)
      /\ connected = "resolved" /\ ~opened /\ loaderOn /\ main \in Complete
      /\ main \in [Keys -> Values] /\ window \in [Keys -> Values]
      /\ \A k \in Keys : Latest(ipc, k, main[k]) = main[k]
      /\ Said(ipc, isopen) = isopen
  BY <1>1, Numbers DEF WindowInv, Tells, PagesKept
<1>. DEFINE t == SubSeq(ipc, n + 1, Len(ipc))
<1>4. t \in Seq(WindowMessages) /\ EndOf(t, ipc)
  <2>1. Len(ipc) \in Nat /\ n + 1 \in Int /\ Len(ipc) \in Int
    BY <1>3, LenProperties
  <2>2. \A i \in (n + 1)..Len(ipc) : ipc[i] \in WindowMessages
    BY <2>1, <1>3, ElementOfSeq
  <2>3. /\ t \in Seq(WindowMessages)
        /\ Len(t) = IF n + 1 <= Len(ipc) THEN Len(ipc) - (n + 1) + 1 ELSE 0
        /\ \A i \in 1..(Len(ipc) - (n + 1) + 1) : t[i] = ipc[(n + 1) + i - 1]
    BY <2>1, <2>2, SubSeqProperties
  <2>4. Len(t) = Len(ipc) - n /\ Len(ipc) - Len(t) = n
    BY <2>1, <2>3
  <2>5. \A i \in 1..Len(t) : t[i] = ipc[i + n]
    <3>. TAKE i \in 1..Len(t)
    <3>1. i \in 1..(Len(ipc) - (n + 1) + 1) /\ (n + 1) + i - 1 = i + n
      BY <2>1, <2>4
    <3>. QED
      BY <3>1, <2>3
  <2>. QED
    BY <2>1, <2>3, <2>4, <2>5 DEF EndOf
<1>. HIDE DEF t
<1>5. ASSUME NEW k \in Keys PROVE Latest(t, k, main[k]) = main[k]
  <2>1. /\ About(t, k) = {} => Latest(t, k, main[k]) = main[k]
        /\ About(t, k) # {} => Latest(t, k, main[k]) = Latest(ipc, k, main[k])
    BY <1>3, <1>4, LatestSuffix
  <2>. QED
    BY <2>1, <1>3
<1>6. Said(t, isopen) = isopen
  <2>1. /\ Signals(t) = {} => Said(t, isopen) = isopen
        /\ Signals(t) # {} => Said(t, isopen) = Said(ipc, isopen)
    BY <1>3, <1>4, SaidSuffix
  <2>. QED
    BY <2>1, <1>3
<1>7. /\ \A i \in DOMAIN t : t[i].type # "result"
      /\ returned = {}
  <2>1. \A r : ~Settled(r)
    BY <1>1, <1>3, CallersLoaded
  <2>2. \A i \in DOMAIN ipc : ipc[i].type # "result"
    BY <2>1, <1>3 DEF Tells, ToldTo
  <2>3. ASSUME NEW i \in DOMAIN t PROVE t[i].type # "result"
    <3>1. /\ Len(ipc) \in Nat /\ Len(t) \in Nat /\ DOMAIN ipc = 1..Len(ipc) /\ DOMAIN t = 1..Len(t)
      BY <1>3, <1>4, LenProperties
    <3>2. i + (Len(ipc) - Len(t)) \in DOMAIN ipc
      BY <3>1, <1>4 DEF EndOf
    <3>. QED
      BY <3>1, <3>2, <2>2, <1>4 DEF EndOf
  <2>. QED
    BY <2>1, <2>3, <1>3 DEF Tells, ReturnedTo
<1>8. /\ isopen => /\ opened' = TRUE /\ loaderOn' = FALSE
                   /\ window' \in Complete /\ \A k \in Keys : window'[k] = main[k]
      /\ ~isopen => opened' = FALSE /\ loaderOn' = loaderOn /\ loaderOn
  <2>1. CASE isopen
    <3>1. main \in Deltas /\ IsComplete(main)
      BY <1>3, DeltaKinds
    <3>2. /\ Assign(window, FilterChanges(window, main)) \in Complete
          /\ \A k \in Keys : Assign(window, FilterChanges(window, main))[k] = Assign(window, main)[k]
      BY <3>1, <1>3, Assigned
    <3>3. \A k \in Keys : Assign(window, main)[k] = main[k]
      BY <3>1 DEF Assign, IsComplete
    <3>. QED
      BY <3>2, <3>3, <2>1, <1>1 DEF OnUp
  <2>2. CASE ~isopen
    BY <2>2, <1>1, <1>3
  <2>. QED
    BY <2>1, <2>2
<1>9. /\ ipc' \in Seq(WindowMessages)
      /\ opened' => \A k \in Keys : Latest(ipc', k, window'[k]) = main'[k]
      /\ Said(ipc', ~loaderOn') = isopen'
      /\ \A k \in Keys : Latest(ipc', k, main'[k]) = main'[k]
      /\ Said(ipc', isopen') = isopen'
  <2>1. ipc' = t
    BY <1>2 DEF t
  <2>2. (~loaderOn') = isopen
    <3>1. isopen \in BOOLEAN /\ loaderOn \in BOOLEAN
      BY DEF Typed, MirrorTypeOK
    <3>2. CASE isopen
      BY <3>1, <3>2, <1>8
    <3>3. CASE ~isopen
      BY <3>1, <3>3, <1>8
    <3>. QED
      BY <3>2, <3>3
  <2>3. Said(ipc', ~loaderOn') = isopen'
    <3>1. Said(t, ~loaderOn') = isopen
      BY <2>2, <1>6
    <3>. QED
      BY <3>1, <2>1, <1>1
  <2>4. opened' => \A k \in Keys : Latest(ipc', k, window'[k]) = main'[k]
    BY <2>1, <1>1, <1>5, <1>8
  <2>. QED
    BY <2>1, <2>3, <2>4, <1>1, <1>4, <1>5, <1>6
<1>10. ToldTo(ipc, window[Setting])' /\ ReturnedTo(ipc, window[Setting])'
  <2>1. ipc' = t /\ returned' = {}
    BY <1>1, <1>2, <1>7 DEF t
  <2>. QED
    BY <2>1, <1>7 DEF ToldTo, ReturnedTo
<1>11. Tells(ipc, main, isopen)'
  BY <1>9, <1>10 DEF Tells, Latest, Said, About, Signals
<1>12. PagesKept'
  BY <1>1, <1>3, <1>8 DEF PagesKept
<1>. QED
  BY <1>11, <1>12 DEF WindowInv

\* The window takes a message: what it knows afterwards is what the rest builds on.
LEMMA Taken ==
    ASSUME Typed, Tells(ipc, main, isopen), WindowReceives
    PROVE  LET m == Head(ipc) IN
           /\ page = "loaded" /\ page' = "loaded" /\ ipc # <<>> /\ ipc' = Tail(ipc)
           /\ m \in WindowMessages /\ ipc \in Seq(WindowMessages)
           /\ UNCHANGED <<isopen, main, connected, issued, wrote, executed>>
           /\ window' \in [Keys -> Values]
           /\ \A k \in Keys : window'[k] = IF Speaks(m, k) THEN m.delta[k] ELSE window[k]
           /\ m.type = "up" \/ window \in Complete => window' \in Complete
           /\ opened' = (opened \/ m.type = "up")
           /\ (~loaderOn') = IF Signalling(m) THEN m.type = "up" ELSE ~loaderOn
           /\ returned' = IF m.type = "result" THEN returned \cup {m.request} ELSE returned
<1>. DEFINE m == Head(ipc)
<1>1. /\ page = "loaded" /\ page' = page /\ ipc # <<>> /\ ipc' = Tail(ipc)
      /\ UNCHANGED <<isopen, main, connected, issued, wrote, executed>>
  BY DEF WindowReceives, rpcVars, requestVars, wireVars, daemonVars, mainVars
<1>2. ipc \in Seq(WindowMessages) /\ window \in [Keys -> Values]
      /\ opened \in BOOLEAN /\ loaderOn \in BOOLEAN
  BY DEF Tells, Typed, MirrorTypeOK
<1>3. m \in WindowMessages
  BY <1>1, <1>2, HeadTailProperties
<1>4. CASE m.type = "up" \/ m.type = "post"
  <2>. DEFINE d == m.delta
  <2>1. /\ d \in Deltas /\ (m.type = "up" => IsComplete(d))
        /\ Signalling(m) <=> m.type = "up"
        /\ \A k : Speaks(m, k) <=> k \in DOMAIN d
    <3>1. m.type = "up" => m.delta \in Complete
      BY <1>3, WindowKinds
    <3>2. m.type = "post" => m.delta \in Deltas
      BY <1>3, WindowKinds
    <3>. QED
      BY <3>1, <3>2, <1>4, DeltaKinds DEF Signalling, Speaks
  <2>2. /\ window' = Assign(window, FilterChanges(window, d)) /\ returned' = returned
        /\ m.type = "up" => opened' = TRUE /\ loaderOn' = FALSE
        /\ m.type = "post" => opened' = opened /\ loaderOn' = loaderOn
    BY <1>4 DEF WindowReceives, OnUp
  <2>. HIDE DEF d
  <2>3. /\ \A k \in Keys : /\ Assign(window, d)[k] = IF k \in DOMAIN d THEN d[k] ELSE window[k]
                           /\ Assign(window, FilterChanges(window, d))[k] = Assign(window, d)[k]
        /\ Assign(window, FilterChanges(window, d)) \in [Keys -> Values]
        /\ window \in Complete \/ IsComplete(d)
               => Assign(window, FilterChanges(window, d)) \in Complete
    BY <2>1, <1>2, Assigned
  <2>4. \A k \in Keys : window'[k] = IF k \in DOMAIN d THEN d[k] ELSE window[k]
    BY <2>2, <2>3
  <2>5. CASE m.type = "up"
    <3>1. opened' = (opened \/ m.type = "up")
      BY <2>2, <2>5
    <3>2. (~loaderOn') = IF Signalling(m) THEN m.type = "up" ELSE ~loaderOn
      BY <2>1, <2>2, <2>5
    <3>. QED
      BY <3>1, <3>2, <2>1, <2>2, <2>3, <2>4, <2>5, <1>1, <1>2, <1>3 DEF d
  <2>6. CASE m.type = "post"
    <3>1. opened' = (opened \/ m.type = "up")
      BY <2>2, <2>6, <1>2
    <3>2. (~loaderOn') = IF Signalling(m) THEN m.type = "up" ELSE ~loaderOn
      BY <2>1, <2>2, <2>6
    <3>. QED
      BY <3>1, <3>2, <2>1, <2>2, <2>3, <2>4, <2>6, <1>1, <1>2, <1>3 DEF d
  <2>. QED
    BY <2>5, <2>6, <1>4
<1>5. CASE m.type = "down"
  <2>1. loaderOn' = TRUE /\ UNCHANGED <<window, opened, returned>>
    BY <1>5 DEF WindowReceives
  <2>2. Signalling(m) /\ \A k : ~Speaks(m, k)
    BY <1>3, <1>5, WindowKinds
  <2>3. opened' = (opened \/ m.type = "up")
    BY <2>1, <1>2, <1>5
  <2>4. (~loaderOn') = IF Signalling(m) THEN m.type = "up" ELSE ~loaderOn
    BY <2>1, <2>2, <1>5
  <2>. QED
    BY <2>1, <2>2, <2>3, <2>4, <1>1, <1>2, <1>3, <1>5
<1>6. CASE m.type = "result"
  <2>1. returned' = returned \cup {m.request} /\ UNCHANGED <<window, opened, loaderOn>>
    BY <1>6 DEF WindowReceives
  <2>2. ~Signalling(m) /\ \A k : ~Speaks(m, k)
    BY <1>6 DEF Signalling, Speaks
  <2>3. opened' = (opened \/ m.type = "up")
    BY <2>1, <1>2, <1>6
  <2>4. (~loaderOn') = IF Signalling(m) THEN m.type = "up" ELSE ~loaderOn
    BY <2>1, <2>2
  <2>. QED
    BY <2>1, <2>2, <2>3, <2>4, <1>1, <1>2, <1>3, <1>6
<1>. QED
  BY <1>3, <1>4, <1>5, <1>6, WindowKinds

\* So the rest, taken in, leads to what all of it did.
LEMMA WindowReceivesKeeps ==
    ASSUME Typed, RequestsInv, WireInv, WindowInv, WindowReceives
    PROVE  WindowInv'
<1>. DEFINE m == Head(ipc)
            t == Tail(ipc)
            l == Len(ipc)
<1>1. /\ page = "loaded" /\ page' = "loaded" /\ ipc # <<>> /\ ipc' = t
      /\ m \in WindowMessages /\ ipc \in Seq(WindowMessages)
      /\ UNCHANGED <<isopen, main, connected, issued, wrote, executed>>
      /\ window' \in [Keys -> Values]
      /\ \A k \in Keys : window'[k] = IF Speaks(m, k) THEN m.delta[k] ELSE window[k]
      /\ m.type = "up" \/ window \in Complete => window' \in Complete
      /\ opened' = (opened \/ m.type = "up")
      /\ (~loaderOn') = IF Signalling(m) THEN m.type = "up" ELSE ~loaderOn
      /\ returned' = IF m.type = "result" THEN returned \cup {m.request} ELSE returned
  BY Taken DEF WindowInv
<1>2. PagesKept /\ Tells(ipc, main, isopen) /\ Setting \in Keys
  BY DeltaKinds DEF WindowInv
<1>3. PagesKept'
  BY <1>1, <1>2 DEF PagesKept
<1>4. /\ t \in Seq(WindowMessages) /\ l \in Nat /\ l >= 1
      /\ DOMAIN ipc = 1..l /\ DOMAIN t = 1..(l - 1) /\ Len(t) = l - 1
      /\ m = ipc[1] /\ 1 \in DOMAIN ipc
      /\ \A i \in 1..(l - 1) : i + 1 \in 1..l /\ t[i] = ipc[i + 1]
  <2>1. /\ t \in Seq(WindowMessages) /\ l \in Nat /\ l >= 1
        /\ DOMAIN ipc = 1..l /\ DOMAIN t = 1..(l - 1)
        /\ m = ipc[1]
        /\ \A i \in 1..(l - 1) : i + 1 \in 1..l /\ t[i] = ipc[i + 1]
    BY <1>1, FrontTaken
  <2>2. Len(t) = l - 1
    BY <1>1, HeadTailProperties
  <2>. QED
    BY <2>1, <2>2
<1>5. EndOf(t, ipc)
  <2>1. l - Len(t) = 1 /\ Len(t) <= l
    BY <1>4
  <2>. QED
    BY <2>1, <1>4 DEF EndOf
<1>6. ASSUME NEW k \in Keys, NEW v
      PROVE  Latest(ipc, k, v) = Latest(t, k, IF Speaks(m, k) THEN m.delta[k] ELSE v)
  BY <1>1, LatestTail
<1>7. ASSUME NEW b PROVE Said(ipc, b) = Said(t, IF Signalling(m) THEN m.type = "up" ELSE b)
  BY <1>1, SaidTail
<1>8. ASSUME NEW r, NEW n \in 0..l, FreshIn(ipc, window[Setting], n, wrote[r])
      PROVE  FreshIn(t, window'[Setting], IF n = 0 THEN 0 ELSE n - 1, wrote[r])
  <2>1. FreshIn(t, IF Speaks(m, Setting) THEN m.delta[Setting] ELSE window[Setting],
                IF n = 0 THEN 0 ELSE n - 1, wrote[r])
    BY <1>1, <1>8, FreshTail
  <2>. QED
    BY <2>1, <1>1, <1>2
<1>. HIDE DEF t, l
<1>9. ASSUME NEW k \in Keys PROVE Latest(t, k, main[k]) = main[k]
  <2>1. /\ About(t, k) = {} => Latest(t, k, main[k]) = main[k]
        /\ About(t, k) # {} => Latest(t, k, main[k]) = Latest(ipc, k, main[k])
    <3>1. ipc \in Seq(WindowMessages) /\ t \in Seq(WindowMessages)
      BY <1>1, <1>4
    <3>. QED
      BY <3>1, <1>5, LatestSuffix
  <2>. QED
    BY <2>1, <1>2 DEF Tells
<1>10. Said(t, isopen) = isopen
  <2>1. /\ Signals(t) = {} => Said(t, isopen) = isopen
        /\ Signals(t) # {} => Said(t, isopen) = Said(ipc, isopen)
    BY <1>1, <1>4, <1>5, SaidSuffix
  <2>. QED
    BY <2>1, <1>2 DEF Tells
<1>11. ASSUME opened', NEW k \in Keys PROVE Latest(t, k, window'[k]) = main[k]
  <2>1. CASE opened
    <3>1. Latest(ipc, k, window[k]) = main[k]
      BY <2>1, <1>1, <1>2 DEF Tells
    <3>2. Latest(ipc, k, window[k]) = Latest(t, k, IF Speaks(m, k) THEN m.delta[k] ELSE window[k])
      BY <1>6
    <3>. QED
      BY <3>1, <3>2, <1>1
  <2>2. CASE m.type = "up"
    <3>1. Speaks(m, k)
      <4>1. m.delta \in Complete
        BY <2>2, <1>1, WindowKinds
      <4>. QED
        BY <4>1, <2>2 DEF Speaks, Complete
    <3>2. Latest(ipc, k, main[k]) = main[k]
      BY <1>2 DEF Tells
    <3>3. Latest(ipc, k, main[k]) = Latest(t, k, m.delta[k])
      BY <3>1, <1>6
    <3>4. window'[k] = m.delta[k]
      BY <3>1, <1>1
    <3>. QED
      BY <3>2, <3>3, <3>4
  <2>. QED
    BY <2>1, <2>2, <1>1, <1>11
<1>12. Said(t, ~loaderOn') = isopen
  <2>1. Said(ipc, ~loaderOn) = isopen
    BY <1>1, <1>2 DEF Tells
  <2>2. Said(ipc, ~loaderOn) = Said(t, IF Signalling(m) THEN m.type = "up" ELSE ~loaderOn)
    BY <1>7
  <2>3. (~loaderOn') = IF Signalling(m) THEN m.type = "up" ELSE ~loaderOn
    BY <1>1
  <2>. QED
    BY <2>1, <2>2, <2>3
<1>13. \A r : Settled(r) => Settled(r)' /\ wrote'[r] = wrote[r]
  BY <1>1 DEF Settled, Members
<1>14. /\ \A i \in DOMAIN ipc : ipc[i].type = "result" =>
              /\ Settled(ipc[i].request)
              /\ \E n \in 0..(i - 1) : FreshIn(ipc, window[Setting], n, wrote[ipc[i].request])
       /\ \A r \in returned : Settled(r) /\ FreshIn(ipc, window[Setting], 0, wrote[r])
  BY <1>2 DEF Tells, ToldTo, ReturnedTo
<1>15. ASSUME NEW i \in DOMAIN t, t[i].type = "result", NEW r, r = t[i].request
       PROVE  Settled(r) /\ \E n \in 0..(i - 1) : FreshIn(t, window'[Setting], n, wrote[r])
  <2>1. i \in 1..(l - 1) /\ i + 1 \in DOMAIN ipc /\ t[i] = ipc[i + 1] /\ (i + 1) - 1 = i
    BY <1>4
  <2>2. Settled(r) /\ \E n \in 0..((i + 1) - 1) : FreshIn(ipc, window[Setting], n, wrote[r])
    BY <2>1, <1>14, <1>15
  <2>3. PICK n \in 0..i : FreshIn(ipc, window[Setting], n, wrote[r])
    BY <2>1, <2>2
  <2>. DEFINE p == IF n = 0 THEN 0 ELSE n - 1
  <2>4. n \in 0..l /\ p \in 0..(i - 1)
    BY <2>1, <1>4
  <2>5. FreshIn(t, window'[Setting], p, wrote[r])
    BY <2>3, <2>4, <1>8
  <2>. HIDE DEF p
  <2>. QED
    BY <2>2, <2>4, <2>5
<1>16. ASSUME NEW r \in returned' PROVE Settled(r) /\ FreshIn(t, window'[Setting], 0, wrote[r])
  <2>1. Settled(r) /\ FreshIn(ipc, window[Setting], 0, wrote[r])
    <3>1. CASE r \in returned
      BY <3>1, <1>14
    <3>2. CASE m.type = "result" /\ r = m.request
      <4>1. Settled(r) /\ \E n \in 0..(1 - 1) : FreshIn(ipc, window[Setting], n, wrote[r])
        BY <3>2, <1>4, <1>14
      <4>2. \A n \in 0..(1 - 1) : n = 0
        OBVIOUS
      <4>. QED
        BY <4>1, <4>2
    <3>. QED
      BY <3>1, <3>2, <1>1
  <2>2. 0 \in 0..l
    BY <1>4
  <2>3. FreshIn(t, window'[Setting], IF 0 = 0 THEN 0 ELSE 0 - 1, wrote[r])
    BY <2>1, <2>2, <1>8
  <2>. QED
    BY <2>1, <2>3
<1>17. ToldTo(ipc, window[Setting])'
  <2>. SUFFICES ASSUME NEW i \in DOMAIN ipc', ipc'[i].type = "result", NEW r, r = ipc'[i].request
                PROVE  /\ Settled(r)'
                       /\ \E n \in 0..(i - 1) : FreshIn(ipc', window'[Setting], n, wrote'[r])
    BY DEF ToldTo, FreshIn, About
  <2>. QED
    BY <1>1, <1>13, <1>15
<1>18. ReturnedTo(ipc, window[Setting])'
  <2>. SUFFICES ASSUME NEW r \in returned'
                PROVE  Settled(r)' /\ FreshIn(ipc', window'[Setting], 0, wrote'[r])
    BY DEF ReturnedTo, FreshIn, About
  <2>. QED
    BY <1>1, <1>13, <1>16
<1>19. /\ ipc' \in Seq(WindowMessages)
       /\ opened' => \A k \in Keys : Latest(ipc', k, window'[k]) = main'[k]
       /\ Said(ipc', ~loaderOn') = isopen'
       /\ \A k \in Keys : Latest(ipc', k, main'[k]) = main'[k]
       /\ Said(ipc', isopen') = isopen'
  <2>1. ipc' = t /\ isopen' = isopen /\ main' = main
    BY <1>1
  <2>2. Said(ipc', ~loaderOn') = isopen'
    BY <2>1, <1>12
  <2>3. opened' => \A k \in Keys : Latest(ipc', k, window'[k]) = main'[k]
    BY <2>1, <1>11
  <2>. QED
    BY <2>1, <2>2, <2>3, <1>4, <1>9, <1>10
<1>20. Tells(ipc, main, isopen)'
  BY <1>17, <1>18, <1>19 DEF Tells, Latest, Said, About, Signals
<1>. QED
  BY <1>3, <1>20 DEF WindowInv

\* Whatever is done, the window goes on to follow main.
LEMMA WindowStep ==
    ASSUME Typed, RequestsInv, WireInv, WindowInv, MirrorNext
    PROVE  WindowInv'
<1>1. CASE DaemonChanges \/ DaemonReplaced \/ RPC_applySettings \/ SocketOpens \/ TimerFires \/ Quit
  <2>1. UNCHANGED <<ipc, isopen, main, connected, pageVars, issued>>
    BY <1>1 DEF DaemonChanges, DaemonReplaced, RPC_applySettings, SocketOpens, Opens, TimerFires,
                ReconnectTimer, Quit, Disconnect, mainVars, rpcVars, requestVars
  <2>. QED
    BY <2>1, RestWindow
<1>2. CASE SocketFails
  <2>1. CASE Refused /\ ReportDown(<<Down, Down>>)
    <3>1. issued' = issued
      BY <2>1 DEF Refused, requestVars
    <3>. QED
      BY <3>1, <2>1, DownWindow
  <2>2. CASE (SocketError \/ Closes) /\ ReportDown(<<Down>>)
    <3>1. issued' = issued
      BY <2>2 DEF SocketError, Closes, requestVars
    <3>. QED
      BY <3>1, <2>2, DownWindow
  <2>3. CASE (ServerCloses \/ HandshakeEnds) /\ UNCHANGED <<daemonVars, mainVars, ipc, pageVars>>
    <3>1. UNCHANGED <<ipc, isopen, main, connected, pageVars, issued>>
      BY <2>3 DEF ServerCloses, HandshakeEnds, mainVars, requestVars
    <3>. QED
      BY <3>1, RestWindow
  <2>. QED
    BY <1>2, <2>1, <2>2, <2>3 DEF SocketFails
<1>3. CASE MainReceives
  <2>1. downstream # <<>>
    BY <1>3 DEF MainReceives
  <2>2. CASE VersionMismatch
    <3>1. UNCHANGED <<ipc, isopen, main, pageVars, issued>>
      BY <2>2 DEF VersionMismatch
    <3>2. connected' = connected \/ (page = "none" /\ connected' # "resolved")
      <4>1. CASE connected = "waiting"
        BY <4>1, <2>2 DEF VersionMismatch, WindowInv, PagesKept
      <4>2. CASE connected # "waiting"
        BY <4>2, <2>2 DEF VersionMismatch
      <4>. QED
        BY <4>1, <4>2
    <3>. QED
      BY <3>1, <3>2, RestWindow
  <2>3. CASE OnEarlyData
    <3>1. UNCHANGED <<ipc, isopen, main, connected, pageVars, issued>>
      BY <2>3 DEF OnEarlyData, mainVars, requestVars
    <3>. QED
      BY <3>1, RestWindow
  <2>. QED
    BY <1>3, <2>1, <2>2, <2>3, DataWindow, AnswerWindow DEF MainReceives
<1>4. CASE \E kind \in {"call", "post"} : WindowSends(kind)
  <2>1. /\ UNCHANGED <<ipc, isopen, main, connected, pageVars>>
        /\ page = "loaded" /\ opened
    BY <1>4 DEF WindowSends, mainVars
  <2>. QED
    BY <2>1, RestWindow
<1>. QED
  BY <1>1, <1>2, <1>3, <1>4, CreateWindowKeeps, PageLoadsKeeps, WindowReceivesKeeps DEF MirrorNext

\* Every value stays in its type.
LEMMA TypedStep ==
    ASSUME Typed, RequestsInv, WireInv, WindowInv, MirrorNext
    PROVE  Typed'
<1>1. /\ RpcTypeOK' /\ real' \in Complete /\ real' \in [Keys -> Values]
      /\ wrote' \in [Requests -> Values]
  BY WireStep, Remembers, DeltaKinds DEF RequestsInv
<1>2. MirrorTypeOK
  BY DEF Typed
<1>3. CASE UNCHANGED <<isopen, main, connected, pageVars>>
  <2>1. UNCHANGED <<isopen, main, connected, page, window, opened, loaderOn, returned>>
    BY <1>3 DEF pageVars
  <2>2. version' \in BOOLEAN
    BY <1>2 DEF MirrorTypeOK, MirrorNext, DaemonChanges, DaemonReplaced, RPC_applySettings, SocketOpens,
                SocketFails, ReportDown, TimerFires, MainReceives, VersionMismatch, OnData,
                OnEarlyData, OnAnswer, CreateWindow, Quit, WindowSends, PageLoads, WindowReceives,
                daemonVars
  <2>. QED
    BY <2>1, <2>2, <1>1, <1>2 DEF Typed, MirrorTypeOK
<1>4. CASE DaemonChanges \/ DaemonReplaced \/ RPC_applySettings \/ SocketOpens \/ TimerFires \/ Quit
           \/ \E kind \in {"call", "post"} : WindowSends(kind)
  <2>1. UNCHANGED <<isopen, main, connected, pageVars>>
    BY <1>4 DEF DaemonChanges, DaemonReplaced, RPC_applySettings, SocketOpens, TimerFires, Quit,
                WindowSends, mainVars
  <2>. QED
    BY <2>1, <1>3
<1>5. CASE SocketFails
  <2>1. /\ UNCHANGED <<main, connected, version, page, window, opened, loaderOn, returned>>
        /\ isopen' \in BOOLEAN
    BY <1>2, <1>5 DEF SocketFails, ReportDown, MirrorTypeOK, daemonVars, mainVars, pageVars
  <2>. QED
    BY <2>1, <1>1, <1>2 DEF Typed, MirrorTypeOK
<1>6. CASE MainReceives
  <2>1. /\ UNCHANGED <<version, page, window, opened, loaderOn, returned>>
        /\ isopen' \in BOOLEAN /\ connected' \in {"waiting", "resolved", "rejected"}
    BY <1>2, <1>6 DEF MainReceives, VersionMismatch, OnData, OnEarlyData, OnAnswer, MirrorTypeOK,
                      daemonVars, mainVars, pageVars
  <2>2. main' \in [Keys -> Values]
    <3>1. CASE OnData
      <4>1. main' = Assign(main, Head(downstream).delta) /\ Head(downstream).delta \in Deltas
        BY <3>1, <1>6, DataWire DEF MainReceives
      <4>2. main \in [Keys -> Values]
        BY Numbers
      <4>. DEFINE d == Head(downstream).delta
      <4>. HIDE DEF d
      <4>3. d \in Deltas => Assign(main, d) \in [Keys -> Values]
        BY <4>2, Assigned
      <4>. QED
        BY <4>1, <4>3 DEF d
    <3>2. CASE ~OnData
      BY <3>2, <1>2, <1>6 DEF MainReceives, VersionMismatch, OnEarlyData, OnAnswer, MirrorTypeOK, mainVars
    <3>. QED
      BY <3>1, <3>2
  <2>. QED
    BY <2>1, <2>2, <1>1, <1>2 DEF Typed, MirrorTypeOK
<1>7. CASE CreateWindow
  <2>1. /\ UNCHANGED <<version, isopen, main, connected, window, opened, loaderOn, returned>>
        /\ page' = "loading"
    BY <1>7 DEF CreateWindow, daemonVars, mainVars
  <2>. QED
    BY <2>1, <1>1, <1>2 DEF Typed, MirrorTypeOK
<1>8. CASE PageLoads
  <2>1. UNCHANGED <<version, isopen, main, connected, returned>> /\ page' = "loaded"
    BY <1>8 DEF PageLoads, daemonVars, mainVars
  <2>2. window' \in [Keys -> Values] /\ opened' \in BOOLEAN /\ loaderOn' \in BOOLEAN
    <3>1. CASE isopen
      <4>1. OnUp(main) /\ main \in Complete
        BY <3>1, <1>8 DEF PageLoads, WindowInv, PagesKept
      <4>2. main \in Deltas /\ window \in [Keys -> Values]
        BY <4>1, DeltaKinds, Numbers
      <4>3. Assign(window, FilterChanges(window, main)) \in [Keys -> Values]
        BY <4>2, Assigned
      <4>. QED
        BY <4>1, <4>3 DEF OnUp
    <3>2. CASE ~isopen
      BY <3>2, <1>2, <1>8 DEF PageLoads, MirrorTypeOK
    <3>. QED
      BY <3>1, <3>2
  <2>. QED
    BY <2>1, <2>2, <1>1, <1>2 DEF Typed, MirrorTypeOK
<1>9. CASE WindowReceives
  <2>1. UNCHANGED <<version, isopen, main, connected, page>>
    BY <1>9 DEF WindowReceives, daemonVars, mainVars
  <2>2. /\ window' \in [Keys -> Values] /\ Head(ipc) \in WindowMessages
        /\ returned' = IF Head(ipc).type = "result" THEN returned \cup {Head(ipc).request} ELSE returned
    BY <1>9, Taken DEF WindowInv
  <2>3. opened' \in BOOLEAN /\ loaderOn' \in BOOLEAN
    BY <1>2, <1>9 DEF WindowReceives, OnUp, MirrorTypeOK
  <2>4. returned' \subseteq Requests
    <3>1. Head(ipc).type = "result" => Head(ipc).request \in Requests
      BY <2>2, WindowKinds
    <3>. QED
      BY <3>1, <2>2, <1>2 DEF MirrorTypeOK
  <2>. QED
    BY <2>1, <2>2, <2>3, <2>4, <1>1, <1>2 DEF Typed, MirrorTypeOK
<1>. QED
  BY <1>4, <1>5, <1>6, <1>7, <1>8, <1>9 DEF MirrorNext

-----------------------------------------------------------------------------
(* The theorems.                                                           *)

\* The invariant holds when the client starts: nothing was sent yet, and main waits for
\* the daemon's first message.
LEMMA MirrorInitially ==
    ASSUME MirrorInit
    PROVE  MirrorInv
<1>1. /\ socket = "connecting" /\ reconnectTimeout = FALSE /\ queue = <<>> /\ callbacks = {}
      /\ issued = 0 /\ status = [r \in Requests |-> "new"]
      /\ upstream = <<>> /\ downstream = <<>> /\ executed = <<>>
  BY DEF MirrorInit, RpcInit
<1>2. /\ real = [k \in Keys |-> 1] /\ wrote = [r \in Requests |-> 0] /\ version \in BOOLEAN
      /\ isopen = FALSE /\ main = Empty /\ connected = "waiting" /\ page = "none" /\ ipc = <<>>
      /\ window = Empty /\ opened = FALSE /\ loaderOn = TRUE /\ returned = {}
  BY DEF MirrorInit
<1>3. \A S : <<>> \in Seq(S)
  BY EmptySeq
<1>4. Members(<<>>) = {}
  BY DEF Members
<1>5. RpcTypeOK
  <2>1. queue \in Seq(Requests) /\ upstream \in Seq(Requests) /\ executed \in Seq(Requests)
    BY <1>1, <1>3
  <2>2. status \in [Requests -> {"new", "call", "post", "answered", "failed"}]
    BY <1>1
  <2>3. issued \in 0..MaxRequests
    BY <1>1, RpcAssumption
  <2>. QED
    BY <1>1, <2>1, <2>2, <2>3 DEF RpcTypeOK
<1>6. Typed
  <2>1. real \in Complete
    BY <1>2, MirrorAssumption DEF Complete, Positive
  <2>2. 0 \in Values
    BY MirrorAssumption DEF Values
  <2>3. real \in [Keys -> Values] /\ main \in [Keys -> Values] /\ wrote \in [Requests -> Values]
    BY <1>2, <2>1, <2>2, DeltaKinds DEF Empty
  <2>. QED
    BY <1>2, <1>5, <2>1, <2>3 DEF Typed, MirrorTypeOK
<1>7. RequestsInv
  <2>1. InOrder
    BY <1>1, <1>4 DEF InOrder, Increasing, Below
  <2>2. AnswersCarried /\ Accounts
    BY <1>1, <1>4 DEF AnswersCarried, Accounts
  <2>3. NewAbove
    <3>1. \A r \in Requests : r > 0
      BY RpcAssumption DEF Requests
    <3>. QED
      BY <1>1, <3>1 DEF NewAbove
  <2>. QED
    BY <1>1, <1>3, <1>5, <2>1, <2>2, <2>3 DEF RequestsInv
<1>8. main[Setting] = 0 /\ real[Setting] = 1
  BY <1>2, MirrorAssumption DEF Empty
<1>9. WireInv
  <2>1. WireKept /\ MainFollows
    BY <1>1 DEF WireKept, MainFollows
  <2>2. GrowsIn(downstream, main[Setting], real[Setting])
    <3>1. GrowsIn(<<>>, 0, 1)
      BY Silence
    <3>. QED
      BY <3>1, <1>1, <1>8
  <2>3. ToldIn(downstream, main[Setting], callbacks, wrote)
    BY <1>1, Silence
  <2>. QED
    BY <2>1, <2>2, <2>3 DEF WireInv
<1>10. PagesKept
  BY <1>1, <1>2 DEF PagesKept
<1>11. Tells(ipc, main, isopen)
  <2>1. ipc \in Seq(WindowMessages)
    BY <1>2, <1>3
  <2>2. (\A k \in Keys : Latest(ipc, k, main[k]) = main[k]) /\ Said(ipc, isopen) = isopen
    BY <1>2, Silence
  <2>3. ToldTo(ipc, window[Setting]) /\ ReturnedTo(ipc, window[Setting])
    BY <1>2 DEF ToldTo, ReturnedTo
  <2>. QED
    BY <1>2, <2>1, <2>2, <2>3 DEF Tells
<1>. QED
  BY <1>6, <1>7, <1>9, <1>10, <1>11 DEF MirrorInv, WindowInv

\* Every step keeps it.
LEMMA MirrorStep ==
    ASSUME MirrorInv, [MirrorNext]_mirrorVars
    PROVE  MirrorInv'
<1>1. Typed /\ RequestsInv /\ WireInv /\ WindowInv
  BY DEF MirrorInv
<1>2. CASE MirrorNext
  BY <1>1, <1>2, WireStep, WindowStep, TypedStep DEF MirrorInv
<1>3. CASE UNCHANGED mirrorVars
  <2>1. /\ UNCHANGED <<socket, reconnectTimeout, queue, callbacks, issued, status>>
        /\ UNCHANGED <<upstream, downstream, executed, real, wrote, version>>
        /\ UNCHANGED <<isopen, main, connected, ipc, page, window, opened, loaderOn, returned>>
    BY <1>3 DEF mirrorVars, rpcVars, socketVars, requestVars, wireVars, daemonVars, mainVars, pageVars
  <2>2. WireInv'
    BY <1>1, <2>1, RestWire
  <2>3. RpcTypeOK'
    BY <1>1, <2>1 DEF RequestsInv, RpcTypeOK
  <2>4. Typed'
    BY <1>1, <2>1, <2>3 DEF Typed, MirrorTypeOK
  <2>5. InOrder' /\ AnswersCarried' /\ NewAbove' /\ Accounts'
    BY <1>1, <2>1 DEF RequestsInv, InOrder, AnswersCarried, NewAbove, Accounts
  <2>6. RequestsInv'
    BY <1>1, <2>1, <2>3, <2>5 DEF RequestsInv
  <2>7. PagesKept'
    BY <1>1, <2>1 DEF WindowInv, PagesKept
  <2>8. ToldTo(ipc, window[Setting])' /\ ReturnedTo(ipc, window[Setting])'
    BY <1>1, <2>1 DEF WindowInv, Tells, ToldTo, ReturnedTo, Settled, FreshIn, About
  <2>9. Tells(ipc, main, isopen)'
    BY <1>1, <2>1, <2>8 DEF WindowInv, Tells, Latest, Said, About, Signals
  <2>. QED
    BY <2>2, <2>4, <2>6, <2>7, <2>9 DEF MirrorInv, WindowInv
<1>. QED
  BY <1>2, <1>3

\* The inductive invariant, from which the four theorems below follow: the requests are in
\* order wherever they are, what is on the wire completes main's copy, and what is on its
\* way to the window (webContents.send, onpost) completes the window's.
THEOREM MirrorInvariant == MirrorSpec => []MirrorInv
<1>. QED
  BY MirrorInitially, MirrorStep, PTL DEF MirrorSpec

\* Whatever is sent, lost and loaded, the variables of both copies (web/daemon.js and
\* daemon.js of the client) and of the socket (websocket-rpc-client) keep their types.
THEOREM MirrorTypes == MirrorSpec => []MirrorTypeOK
<1>1. MirrorInv => MirrorTypeOK
  BY DEF MirrorInv, Typed
<1>. QED
  BY <1>1, MirrorInvariant, PTL

\* The daemon never carries out a request twice or before one that was sent earlier, and
\* each call is answered, failed or still expected, as sendInternal, _onopen, _onmessage
\* and disconnect() have it, however often the connection breaks between them.
THEOREM RequestsAreKept == MirrorSpec => []RequestsKept
<1>1. ASSUME MirrorInv PROVE RequestsKept
  <2>1. RpcTypeOK /\ Accounts /\ Increasing(executed)
    BY <1>1 DEF MirrorInv, RequestsInv, InOrder
  <2>2. CallsAccounted
    BY <2>1, AccountsIsCallsAccounted
  <2>3. ExecutedInOrder
    BY <2>1 DEF ExecutedInOrder, Increasing
  <2>. QED
    BY <2>2, <2>3 DEF RequestsKept
<1>. QED
  BY <1>1, MirrorInvariant, PTL

\* Main's copy catches up with the daemon's data, and the window's copy and loader with
\* main's, as soon as nothing is on its way: onpost may forward mere differences, the page
\* may load in the middle of it all (notifyWindowCreated, daemon-open), and connections
\* may come and go.
THEOREM MirrorsAlwaysFollow == MirrorSpec => []MirrorsFollow
<1>1. ASSUME MirrorInv PROVE MirrorsFollow
  <2>1. MainFollows /\ PagesKept /\ Tells(ipc, main, isopen) /\ MirrorTypeOK
    BY <1>1 DEF MirrorInv, WireInv, WindowInv, Typed
  <2>2. WindowFollows
    BY <2>1 DEF Tells, WindowFollows
  <2>3. OpenedHasData
    <3>1. opened => \A k \in Keys : window[k] \in Positive
      BY <2>1, DeltaKinds DEF PagesKept
    <3>2. 0 \notin Positive
      BY DEF Positive
    <3>. QED
      BY <3>1, <3>2 DEF OpenedHasData
  <2>4. LoaderFollows
    <3>1. loaderOn \in BOOLEAN /\ isopen \in BOOLEAN
      BY <2>1 DEF MirrorTypeOK
    <3>2. page = "loaded" => Said(ipc, ~loaderOn) = isopen
      BY <2>1 DEF Tells
    <3>3. CASE Signals(ipc) = {}
      <4>1. page = "loaded" => (~loaderOn) = isopen
        BY <3>2, <3>3 DEF Said
      <4>2. page = "loaded" => loaderOn = ~isopen
        BY <3>1, <4>1
      <4>. QED
        BY <3>3, <4>2 DEF LoaderFollows
    <3>4. CASE Signals(ipc) # {}
      <4>1. page = "loaded" => (ipc[LastIn(Signals(ipc))].type = "up") = isopen
        BY <3>2, <3>4 DEF Said
      <4>. QED
        BY <3>1, <3>4, <4>1 DEF LoaderFollows
    <3>. QED
      BY <3>3, <3>4
  <2>. QED
    BY <2>1, <2>2, <2>3, <2>4 DEF MirrorsFollow
<1>. QED
  BY <1>1, MirrorInvariant, PTL

\* When the promise of applySettings is resolved in the window, the window has settings at
\* least as new as what the call wrote, and keeps them: RPC_applySettings notifies before
\* it returns, and the notification, relayed by onpost, is not overtaken by daemon-result.
THEOREM WritesAreRead == MirrorSpec => []ReadYourWrites
<1>1. ASSUME MirrorInv PROVE ReadYourWrites
  <2>1. ReturnedTo(ipc, window[Setting])
    BY <1>1 DEF MirrorInv, WindowInv, Tells
  <2>. SUFFICES ASSUME NEW r \in returned PROVE wrote[r] > 0 /\ window[Setting] >= wrote[r]
    BY DEF ReadYourWrites
  <2>2. Settled(r) /\ FreshIn(ipc, window[Setting], 0, wrote[r])
    BY <2>1 DEF ReturnedTo
  <2>. QED
    BY <2>2 DEF Settled, FreshIn
<1>. QED
  BY <1>1, MirrorInvariant, PTL
=============================================================================
