--------------------------- MODULE FirewallProofs ---------------------------
(***************************************************************************)
(* The killswitch of either platform is applied whole.  On Linux it stays  *)
(* so without a gap, wherever the daemon was killed between two of its     *)
(* commands: KillswitchHolds of PosixFirewall, for any number of stops.    *)
(* On Windows a transaction leaves all of it or nothing, whatever fails in *)
(* it: AllOrNothing of WinFirewall, for any set of adapters.               *)
(***************************************************************************)
EXTENDS PosixFirewall, WinFirewall, SequenceTheorems, FiniteSetTheorems, TLAPS

-----------------------------------------------------------------------------
(* The inductive invariant.                                                *)

Installing == {"clear", "fill"}
Moving == {"append", "delete"}
Looking == {"enable", "disable"}

FirewallCommands ==
    {Command(do, f, a) : do \in Installing \cup Moving, f \in Families, a \in Anchors}
        \cup {Command(do, "both", a) : do \in Looking, a \in Anchors}

\* What is still to be done.
Pending(c) == c \in ToSet(todo)
Looked(a) == Pending(Command("enable", "both", a)) \/ Pending(Command("disable", "both", a))

Kept ==
    /\ PosixTypeOK
    /\ todo \in Seq(FirewallCommands) /\ IsInjective(todo)
    /\ engaged => running
    /\ ~running => todo = <<>>
    /\ stops = 0 => running

\* No command is to come twice: what firewall_anchor_enabled looks at is moved after it was
\* looked at.
MovedOnce ==
    \A c \in ToSet(todo) : c.do \in Moving =>
        /\ ~Looked(c.anchor)
        /\ ~Pending(Command(IF c.do = "append" THEN "delete" ELSE "append", c.family, c.anchor))
LookedOnce ==
    \A a \in Anchors : ~(Pending(Command("enable", "both", a)) /\ Pending(Command("disable", "both", a)))

\* A chain is cleared before it is filled, and is full afterwards.
InOrder(s) ==
    \A i, j \in DOMAIN s :
        s[i].do = "fill" /\ s[j] = Command("clear", s[i].family, s[i].anchor) => j < i
ClearedFirst == InOrder(todo)
Filled ==
    running => \A f \in Families, a \in Anchors :
        \/ Pending(Command("fill", f, a))
        \/ chain[f][a] = "full" /\ ~Pending(Command("clear", f, a))

\* A killswitch that is wanted is there or is going to be, and nothing takes it away.
Engages ==
    engaged =>
        /\ \A c \in ToSet(todo) :
              c.do \in {"enable", "append"} \/ (c.do \in {"disable", "delete"} /\ c.anchor = "exemptLAN")
        /\ \A f \in Families :
              \/ Jumps(f, "killswitch")
              \/ Pending(Command("append", f, "killswitch"))
              \/ Pending(Command("enable", "both", "killswitch"))

\* Whether f jumps to a once all commands that are pending were run.
WillJump(f, a) ==
    \/ Pending(Command("append", f, a))
    \/ Jumps(f, a) /\ ~Pending(Command("delete", f, a))

\* Without a stop both families agree, no jump is there twice, and one that is not wanted
\* is going to go.
Agrees ==
    stops = 0 =>
        /\ \A f \in Families : IsInjective(output[f])
        /\ \A f \in Families, a \in Anchors : Pending(Command("append", f, a)) => ~Jumps(f, a)
        /\ \A a \in Anchors : WillJump("v4", a) <=> WillJump("v6", a)
        /\ ~engaged => \A a \in Anchors :
              /\ ~Pending(Command("enable", "both", a))
              /\ \A f \in Families : WillJump(f, a) => Pending(Command("disable", "both", a))

PosixInv == Kept /\ MovedOnce /\ LookedOnce /\ ClearedFirst /\ Filled /\ Engages /\ Agrees

-----------------------------------------------------------------------------
(* Sequences of commands, and of jumps.                                    *)

\* A set of positions that is not empty has a first one.
LEMMA FirstOne ==
    ASSUME NEW n \in Nat, NEW S, S \subseteq 1..n, S # {}
    PROVE  \E i \in S : \A j \in S : i <= j
<1>. DEFINE T == {1..(i - 1) : i \in S}
<1>1. IsWellFoundedOn(StrictSubsetOrdering(1..n), SUBSET (1..n))
  <2>1. IsFiniteSet(1..n)
    BY FS_Interval
  <2>. QED
    BY <2>1, FS_FiniteSubsetsOfFinite, FS_StrictSubsetOrderingWellFounded
<1>2. T \subseteq SUBSET (1..n) /\ T # {}
  <2>1. ASSUME NEW i \in S PROVE 1..(i - 1) \subseteq 1..n
    <3>1. i \in 1..n
      OBVIOUS
    <3>. QED
      BY <3>1
  <2>. QED
    BY <2>1
<1>3. \A V \in T : \E j \in S : V = 1..(j - 1)
  OBVIOUS
<1>4. \A j \in S : 1..(j - 1) \in T
  OBVIOUS
<1>. HIDE DEF T
<1>5. PICK U \in T : \A V \in T : <<V, U>> \notin StrictSubsetOrdering(1..n)
  BY <1>1, <1>2, WFMin
<1>6. PICK i \in S : U = 1..(i - 1)
  BY <1>3
<1>7. ASSUME NEW j \in S, j < i PROVE FALSE
  <2>1. i \in 1..n /\ j \in 1..n
    OBVIOUS
  <2>2. j \in U /\ j \notin 1..(j - 1) /\ 1..(j - 1) \subseteq U
    BY <1>6, <1>7, <2>1
  <2>3. <<1..(j - 1), U>> \in StrictSubsetOrdering(1..n)
    BY <2>2, <1>2, <1>4 DEF StrictSubsetOrdering
  <2>. QED
    BY <2>3, <1>4, <1>5
<1>8. \A j \in S : i <= j
  <2>1. \A j \in S : j \in Nat /\ i \in Nat
    OBVIOUS
  <2>. QED
    BY <1>7, <2>1
<1>. QED
  BY <1>8

\* The same of Min.
LEMMA FirstExists ==
    ASSUME NEW n \in Nat, NEW S, S \subseteq 1..n, S # {}
    PROVE  Min(S) \in S
BY FirstOne DEF Min

\* RemoveFirst takes one element a away and nothing else, and the only one if there is
\* just one.
LEMMA FirstRemoved ==
    ASSUME NEW S, NEW s \in Seq(S), NEW a \in S
    PROVE  /\ RemoveFirst(s, a) \in Seq(S)
           /\ \A b \in S : b # a => (b \in ToSet(RemoveFirst(s, a)) <=> b \in ToSet(s))
           /\ ToSet(RemoveFirst(s, a)) \subseteq ToSet(s)
           /\ IsInjective(s) => IsInjective(RemoveFirst(s, a)) /\ a \notin ToSet(RemoveFirst(s, a))
<1>1. Len(s) \in Nat /\ DOMAIN s = 1..Len(s) /\ \A j \in 1..Len(s) : s[j] \in S
  BY LenProperties, ElementOfSeq
<1>. DEFINE I == {j \in 1..Len(s) : s[j] = a}
            i == Min(I)
            t == RemoveFirst(s, a)
<1>2. CASE I = {}
  <2>1. t = s
    BY <1>2 DEF RemoveFirst
  <2>. QED
    BY <2>1, <1>1, <1>2 DEF ToSet
<1>3. CASE I # {}
  <2>1. t = RemoveAt(s, i)
    BY <1>3 DEF RemoveFirst, SelectInSeq
  <2>2. i \in I
    BY <1>1, <1>3, FirstExists
  <2>. DEFINE l == Len(s)
              u == SubSeq(s, 1, i - 1)
              v == SubSeq(s, i + 1, l)
  <2>3. t = u \o v
    BY <2>1 DEF RemoveAt
  <2>. HIDE DEF i, t, I, l
  <2>4. /\ i \in 1..l /\ s[i] = a /\ l \in Nat /\ DOMAIN s = 1..l /\ \A j \in 1..l : s[j] \in S
    BY <1>1, <2>2 DEF I, l
  <2>5. u \in Seq(S) /\ Len(u) = i - 1 /\ \A j \in 1..(i - 1) : u[j] = s[j]
    <3>1. 1 \in Int /\ i - 1 \in Int /\ (i - 1) - 1 + 1 = i - 1 /\ \A j \in 1..(i - 1) : s[j] \in S /\ 1 + j - 1 = j
      BY <2>4
    <3>2. /\ u \in Seq(S) /\ Len(u) = IF 1 <= i - 1 THEN (i - 1) - 1 + 1 ELSE 0
          /\ \A j \in 1..((i - 1) - 1 + 1) : u[j] = s[1 + j - 1]
      BY <3>1, SubSeqProperties
    <3>. QED
      BY <3>1, <3>2, <2>4
  <2>6. v \in Seq(S) /\ Len(v) = l - i /\ \A j \in 1..(l - i) : v[j] = s[i + j]
    <3>1. /\ i + 1 \in Int /\ l \in Int /\ l - (i + 1) + 1 = l - i
          /\ \A j \in (i + 1)..l : s[j] \in S
          /\ \A j \in 1..(l - i) : (i + 1) + j - 1 = i + j
      BY <2>4
    <3>2. /\ v \in Seq(S) /\ Len(v) = IF i + 1 <= l THEN l - (i + 1) + 1 ELSE 0
          /\ \A j \in 1..(l - (i + 1) + 1) : v[j] = s[(i + 1) + j - 1]
      BY <3>1, SubSeqProperties
    <3>. QED
      BY <3>1, <3>2, <2>4
  <2>. HIDE DEF u, v
  <2>7. /\ t \in Seq(S) /\ Len(t) = l - 1 /\ DOMAIN t = 1..(l - 1)
        /\ \A j \in 1..(l - 1) : t[j] = IF j < i THEN s[j] ELSE s[j + 1]
    <3>1. /\ t \in Seq(S) /\ Len(t) = Len(u) + Len(v)
          /\ \A j \in 1..(Len(u) + Len(v)) : t[j] = IF j <= Len(u) THEN u[j] ELSE v[j - Len(u)]
      BY <2>3, <2>5, <2>6, ConcatProperties
    <3>2. Len(u) + Len(v) = l - 1
      BY <2>4, <2>5, <2>6
    <3>3. ASSUME NEW j \in 1..(l - 1) PROVE t[j] = IF j < i THEN s[j] ELSE s[j + 1]
      <4>1. CASE j < i
        <5>1. j \in 1..(i - 1) /\ j <= Len(u)
          BY <4>1, <2>4, <2>5
        <5>. QED
          BY <5>1, <4>1, <3>1, <3>2, <2>5
      <4>2. CASE ~(j < i)
        <5>1. j - Len(u) \in 1..(l - i) /\ ~(j <= Len(u)) /\ i + (j - Len(u)) = j + 1
          BY <4>2, <2>4, <2>5
        <5>. QED
          BY <5>1, <4>2, <3>1, <3>2, <2>6
      <4>. QED
        BY <4>1, <4>2
    <3>. QED
      BY <3>1, <3>2, <3>3, LenProperties
  <2>. DEFINE at(j) == IF j < i THEN j ELSE j + 1
  <2>8. \A j \in 1..(l - 1) : at(j) \in 1..l /\ at(j) # i /\ t[j] = s[at(j)]
    BY <2>4, <2>7
  <2>9. \A j \in 1..l : j # i => \E k \in 1..(l - 1) : at(k) = j
    <3>. SUFFICES ASSUME NEW j \in 1..l, j # i PROVE \E k \in 1..(l - 1) : at(k) = j
      OBVIOUS
    <3>1. CASE j < i
      <4>1. j \in 1..(l - 1) /\ at(j) = j
        BY <3>1, <2>4
      <4>. QED
        BY <4>1
    <3>2. CASE j > i
      <4>1. j - 1 \in 1..(l - 1) /\ at(j - 1) = j
        BY <3>2, <2>4
      <4>. QED
        BY <4>1
    <3>. QED
      BY <3>1, <3>2, <2>4
  <2>10. \A j, k \in 1..(l - 1) : at(j) = at(k) => j = k
    BY <2>4
  <2>. HIDE DEF at
  <2>11. ToSet(t) \subseteq ToSet(s)
    BY <2>4, <2>7, <2>8 DEF ToSet
  <2>12. ASSUME NEW b \in S, b # a, b \in ToSet(s) PROVE b \in ToSet(t)
    <3>1. PICK j \in 1..l : s[j] = b
      BY <2>4, <2>12 DEF ToSet
    <3>2. j # i
      BY <3>1, <2>4, <2>12
    <3>3. PICK k \in 1..(l - 1) : at(k) = j
      BY <3>2, <2>9
    <3>. QED
      BY <3>1, <3>3, <2>7, <2>8 DEF ToSet
  <2>13. ASSUME IsInjective(s) PROVE IsInjective(t) /\ a \notin ToSet(t)
    <3>1. IsInjective(t)
      BY <2>13, <2>4, <2>7, <2>8, <2>10 DEF IsInjective
    <3>2. a \notin ToSet(t)
      BY <2>13, <2>4, <2>7, <2>8 DEF IsInjective, ToSet
    <3>. QED
      BY <3>1, <3>2
  <2>14. \A b \in S : b # a => (b \in ToSet(t) <=> b \in ToSet(s))
    BY <2>11, <2>12
  <2>. QED
    BY <2>7, <2>11, <2>13, <2>14 DEF t
<1>. QED
  BY <1>2, <1>3

\* What is left when the first command was run.
LEMMA FrontRun ==
    ASSUME NEW S, NEW s \in Seq(S), s # <<>>, IsInjective(s)
    PROVE  /\ Head(s) \in S /\ Head(s) \in ToSet(s) /\ Head(s) = s[1]
           /\ Tail(s) \in Seq(S) /\ IsInjective(Tail(s))
           /\ ToSet(Tail(s)) = ToSet(s) \ {Head(s)}
           /\ Len(s) \in Nat /\ DOMAIN s = 1..Len(s) /\ DOMAIN Tail(s) = 1..(Len(s) - 1) /\ 1 \in DOMAIN s
           /\ \A i \in DOMAIN Tail(s) : i + 1 \in DOMAIN s /\ Tail(s)[i] = s[i + 1]
<1>. DEFINE l == Len(s)
            t == Tail(s)
<1>1. /\ l \in Nat /\ l >= 1 /\ DOMAIN s = 1..l
      /\ Head(s) \in S /\ Head(s) = s[1] /\ t \in Seq(S) /\ DOMAIN t = 1..(l - 1)
      /\ \A i \in 1..(l - 1) : t[i] = s[i + 1]
  BY HeadTailProperties, LenProperties, EmptySeq
<1>. HIDE DEF l, t
<1>2. \A i \in 1..(l - 1) : i + 1 \in 1..l /\ i + 1 # 1
  BY <1>1
<1>3. IsInjective(t)
  <2>. SUFFICES ASSUME NEW i \in 1..(l - 1), NEW j \in 1..(l - 1), t[i] = t[j] PROVE i = j
    BY <1>1 DEF IsInjective
  <2>1. i + 1 \in DOMAIN s /\ j + 1 \in DOMAIN s /\ s[i + 1] = s[j + 1]
    BY <1>1, <1>2
  <2>2. i + 1 = j + 1
    BY <2>1 DEF IsInjective
  <2>. QED
    BY <2>2
<1>4. ToSet(t) \subseteq ToSet(s) \ {Head(s)}
  <2>. SUFFICES ASSUME NEW i \in 1..(l - 1) PROVE t[i] \in ToSet(s) /\ t[i] # Head(s)
    BY <1>1 DEF ToSet
  <2>1. 1 \in 1..l /\ i + 1 \in 1..l /\ i + 1 # 1 /\ t[i] = s[i + 1]
    BY <1>1, <1>2
  <2>2. s[i + 1] # s[1] /\ s[i + 1] \in ToSet(s)
    BY <2>1, <1>1 DEF ToSet, IsInjective
  <2>. QED
    BY <2>1, <2>2, <1>1
<1>5. ToSet(s) \ {Head(s)} \subseteq ToSet(t)
  <2>. SUFFICES ASSUME NEW i \in 1..l, s[i] # Head(s) PROVE s[i] \in ToSet(t)
    BY <1>1 DEF ToSet
  <2>1. i - 1 \in 1..(l - 1) /\ (i - 1) + 1 = i
    BY <1>1
  <2>2. t[i - 1] = s[i]
    BY <2>1, <1>1
  <2>. QED
    BY <2>1, <2>2, <1>1 DEF ToSet
<1>6. 1 \in DOMAIN s /\ Head(s) \in ToSet(s)
  <2>1. 1 \in DOMAIN s
    BY <1>1
  <2>. QED
    BY <2>1, <1>1 DEF ToSet
<1>. QED
  BY <1>1, <1>2, <1>3, <1>4, <1>5, <1>6 DEF l, t

\* Two commands in front of others.
LEMMA TwoInFront ==
    ASSUME NEW S, NEW t \in Seq(S), NEW a \in S, NEW b \in S
    PROVE  /\ <<a, b>> \o t \in Seq(S) /\ <<>> \o t = t
           /\ ToSet(<<a, b>> \o t) = {a, b} \cup ToSet(t)
           /\ IsInjective(t) /\ a # b /\ a \notin ToSet(t) /\ b \notin ToSet(t) => IsInjective(<<a, b>> \o t)
           /\ Len(t) \in Nat /\ DOMAIN t = 1..Len(t) /\ DOMAIN (<<a, b>> \o t) = 1..(Len(t) + 2)
           /\ (<<a, b>> \o t)[1] = a /\ (<<a, b>> \o t)[2] = b
           /\ \A i \in 1..Len(t) : (<<a, b>> \o t)[i + 2] = t[i]
<1>. DEFINE p == <<a, b>>
            s == p \o t
            l == Len(t)
<1>1. p \in Seq(S) /\ Len(p) = 2 /\ p[1] = a /\ p[2] = b
  OBVIOUS
<1>. HIDE DEF p
<1>2. /\ s \in Seq(S) /\ Len(s) = 2 + l /\ \A i \in 1..(2 + l) : s[i] = IF i <= 2 THEN p[i] ELSE t[i - 2]
  <2>1. /\ s \in Seq(S) /\ Len(s) = Len(p) + l
        /\ \A i \in 1..(Len(p) + l) : s[i] = IF i <= Len(p) THEN p[i] ELSE t[i - Len(p)]
    BY <1>1, ConcatProperties
  <2>. QED
    BY <2>1, <1>1
<1>3. l \in Nat /\ DOMAIN t = 1..l /\ DOMAIN s = 1..(l + 2)
  BY <1>2, LenProperties
<1>. HIDE DEF s, l
<1>4. 1 \in 1..(l + 2) /\ 2 \in 1..(l + 2) /\ s[1] = a /\ s[2] = b
  BY <1>1, <1>2, <1>3
<1>5. \A i \in 1..l : i + 2 \in 1..(l + 2) /\ s[i + 2] = t[i]
  <2>. SUFFICES ASSUME NEW i \in 1..l PROVE i + 2 \in 1..(l + 2) /\ s[i + 2] = t[i]
    OBVIOUS
  <2>1. i + 2 \in 1..(2 + l) /\ ~(i + 2 <= 2) /\ (i + 2) - 2 = i /\ i + 2 \in 1..(l + 2)
    BY <1>3
  <2>. QED
    BY <2>1, <1>2
<1>6. \A j \in 1..(l + 2) : j = 1 \/ j = 2 \/ (j - 2 \in 1..l /\ (j - 2) + 2 = j)
  BY <1>3
<1>7. ToSet(s) = {a, b} \cup ToSet(t)
  <2>1. ASSUME NEW j \in 1..(l + 2) PROVE s[j] \in {a, b} \cup ToSet(t)
    <3>1. CASE j = 1 \/ j = 2
      BY <3>1, <1>4
    <3>2. CASE j - 2 \in 1..l /\ (j - 2) + 2 = j
      <4>1. s[j] = t[j - 2]
        BY <3>2, <1>5
      <4>. QED
        BY <4>1, <3>2, <1>3 DEF ToSet
    <3>. QED
      BY <3>1, <3>2, <1>6
  <2>2. \A i \in 1..l : t[i] \in ToSet(s)
    BY <1>3, <1>5 DEF ToSet
  <2>3. a \in ToSet(s) /\ b \in ToSet(s)
    BY <1>3, <1>4 DEF ToSet
  <2>4. ToSet(s) \subseteq {a, b} \cup ToSet(t)
    BY <2>1, <1>3 DEF ToSet
  <2>5. ToSet(t) \subseteq ToSet(s)
    BY <2>2, <1>3 DEF ToSet
  <2>. QED
    BY <2>3, <2>4, <2>5
<1>8. ASSUME IsInjective(t), a # b, a \notin ToSet(t), b \notin ToSet(t) PROVE IsInjective(s)
  <2>. SUFFICES ASSUME NEW i \in 1..(l + 2), NEW j \in 1..(l + 2), s[i] = s[j] PROVE i = j
    BY <1>3 DEF IsInjective
  <2>1. ASSUME NEW k \in 1..(l + 2), k \notin {1, 2}
        PROVE  s[k] = t[k - 2] /\ k - 2 \in 1..l /\ s[k] \in ToSet(t)
    <3>1. k - 2 \in 1..l /\ (k - 2) + 2 = k
      BY <2>1, <1>6
    <3>2. s[k] = t[k - 2]
      BY <3>1, <1>5
    <3>. QED
      BY <3>1, <3>2, <1>3 DEF ToSet
  <2>2. CASE i \in {1, 2} \/ j \in {1, 2}
    BY <2>1, <2>2, <1>4, <1>8
  <2>3. CASE i \notin {1, 2} /\ j \notin {1, 2}
    <3>1. i - 2 = j - 2
      BY <2>1, <2>3, <1>3, <1>8 DEF IsInjective
    <3>. QED
      BY <3>1
  <2>. QED
    BY <2>2, <2>3
<1>9. <<>> \o t = t
  BY ConcatEmptySeq
<1>. QED
  BY <1>2, <1>3, <1>4, <1>5, <1>7, <1>8, <1>9 DEF s, l, p

-----------------------------------------------------------------------------
(* FirewallCommands.                                                               *)

\* What a command is, and when two are the same.
LEMMA CommandKinds ==
    /\ \A do, f, a, do2, f2, a2 :
          Command(do, f, a) = Command(do2, f2, a2) <=> do = do2 /\ f = f2 /\ a = a2
    /\ \A do, f, a : /\ Command(do, f, a).do = do /\ Command(do, f, a).family = f
                     /\ Command(do, f, a).anchor = a
    /\ \A do \in Installing \cup Moving, f \in Families, a \in Anchors : Command(do, f, a) \in FirewallCommands
    /\ \A do \in Looking, a \in Anchors : Command(do, "both", a) \in FirewallCommands
    /\ \A c \in FirewallCommands :
          /\ c = Command(c.do, c.family, c.anchor) /\ c.anchor \in Anchors
          /\ \/ c.do \in Installing \cup Moving /\ c.family \in Families
             \/ c.do \in Looking /\ c.family = "both"
<1>1. \A do, f, a : /\ Command(do, f, a).do = do /\ Command(do, f, a).family = f
                    /\ Command(do, f, a).anchor = a
  BY DEF Command
<1>2. /\ \A do \in Installing \cup Moving, f \in Families, a \in Anchors : Command(do, f, a) \in FirewallCommands
      /\ \A do \in Looking, a \in Anchors : Command(do, "both", a) \in FirewallCommands
  BY DEF FirewallCommands
<1>3. \A do, f, a, do2, f2, a2 :
         Command(do, f, a) = Command(do2, f2, a2) <=> do = do2 /\ f = f2 /\ a = a2
  <2>. SUFFICES ASSUME NEW do, NEW f, NEW a, NEW do2, NEW f2, NEW a2,
                       Command(do, f, a) = Command(do2, f2, a2)
                PROVE  do = do2 /\ f = f2 /\ a = a2
    OBVIOUS
  <2>1. /\ Command(do, f, a).do = Command(do2, f2, a2).do
        /\ Command(do, f, a).family = Command(do2, f2, a2).family
        /\ Command(do, f, a).anchor = Command(do2, f2, a2).anchor
    OBVIOUS
  <2>. QED
    BY <2>1, <1>1
<1>4. ASSUME NEW c \in FirewallCommands
      PROVE  /\ c = Command(c.do, c.family, c.anchor) /\ c.anchor \in Anchors
             /\ \/ c.do \in Installing \cup Moving /\ c.family \in Families
                \/ c.do \in Looking /\ c.family = "both"
  <2>1. CASE c \in {Command(do, f, a) : do \in Installing \cup Moving, f \in Families, a \in Anchors}
    <3>1. PICK do \in Installing \cup Moving, f \in Families, a \in Anchors : c = Command(do, f, a)
      BY <2>1
    <3>. QED
      BY <3>1, <1>1
  <2>2. CASE c \in {Command(do, "both", a) : do \in Looking, a \in Anchors}
    <3>1. PICK do \in Looking, a \in Anchors : c = Command(do, "both", a)
      BY <2>2
    <3>. QED
      BY <3>1, <1>1
  <2>. QED
    BY <2>1, <2>2 DEF FirewallCommands
<1>. QED
  BY <1>1, <1>2, <1>3, <1>4

\* Two commands in front of others, none of which would undo what they do.
LEMMA OrderInFront ==
    ASSUME NEW t \in Seq(FirewallCommands), InOrder(t), NEW a \in FirewallCommands, NEW b \in FirewallCommands,
           a.do # "fill",
           b.do = "fill" => Command("clear", b.family, b.anchor) \notin ToSet(t)
    PROVE  InOrder(<<a, b>> \o t)
<1>. DEFINE s == <<a, b>> \o t
            l == Len(t)
<1>1. /\ l \in Nat /\ DOMAIN t = 1..l /\ DOMAIN s = 1..(l + 2) /\ s[1] = a /\ s[2] = b
      /\ \A i \in 1..l : s[i + 2] = t[i]
  BY TwoInFront
<1>. HIDE DEF s, l
<1>2. ASSUME NEW j \in 1..(l + 2), j # 1, j # 2 PROVE j - 2 \in 1..l /\ s[j] = t[j - 2] /\ s[j] \in ToSet(t)
  <2>1. j - 2 \in 1..l /\ (j - 2) + 2 = j
    BY <1>1, <1>2
  <2>. QED
    BY <2>1, <1>1 DEF ToSet
<1>. SUFFICES ASSUME NEW i \in 1..(l + 2), NEW j \in 1..(l + 2), s[i].do = "fill",
                     s[j] = Command("clear", s[i].family, s[i].anchor)
              PROVE  j < i
  BY <1>1 DEF InOrder, s
<1>3. CASE i = 1
  BY <1>1, <1>3
<1>4. CASE i = 2
  <2>1. b.do = "fill" /\ Command("clear", b.family, b.anchor) \notin ToSet(t)
    BY <1>1, <1>4
  <2>2. s[j] = Command("clear", b.family, b.anchor)
    BY <1>1, <1>4
  <2>3. j = 1 \/ j = 2
    BY <2>1, <2>2, <1>2
  <2>4. j # 2
    <3>1. Command("clear", b.family, b.anchor).do = "clear"
      BY CommandKinds
    <3>. QED
      BY <3>1, <2>1, <2>2, <1>1
  <2>. QED
    BY <2>3, <2>4, <1>4
<1>5. CASE i # 1 /\ i # 2 /\ (j = 1 \/ j = 2)
  BY <1>5, <1>1
<1>6. CASE i # 1 /\ i # 2 /\ j # 1 /\ j # 2
  <2>1. i - 2 \in 1..l /\ s[i] = t[i - 2] /\ j - 2 \in 1..l /\ s[j] = t[j - 2]
    BY <1>6, <1>2
  <2>2. j - 2 < i - 2
    BY <2>1, <1>1 DEF InOrder
  <2>. QED
    BY <2>2
<1>. QED
  BY <1>3, <1>4, <1>5, <1>6

\* firewall_install_anchor, before what else is to be installed.
LEMMA AnchorInFront ==
    ASSUME NEW t \in Seq(FirewallCommands), IsInjective(t), InOrder(t), NEW f \in Families, NEW a \in Anchors,
           \A do : Command(do, f, a) \notin ToSet(t)
    PROVE  /\ InstallAnchor(f, a) \o t \in Seq(FirewallCommands)
           /\ IsInjective(InstallAnchor(f, a) \o t) /\ InOrder(InstallAnchor(f, a) \o t)
           /\ ToSet(InstallAnchor(f, a) \o t)
                 = {Command("clear", f, a), Command("fill", f, a)} \cup ToSet(t)
<1>. DEFINE x == Command("clear", f, a)
            y == Command("fill", f, a)
<1>1. /\ x \in FirewallCommands /\ y \in FirewallCommands /\ x # y /\ x.do # "fill"
      /\ Command("clear", y.family, y.anchor) = x
  <2>1. "clear" \in Installing \cup Moving /\ "fill" \in Installing \cup Moving
    BY DEF Installing
  <2>. QED
    BY <2>1, CommandKinds
<1>2. x \notin ToSet(t) /\ y \notin ToSet(t)
  OBVIOUS
<1>. HIDE DEF x, y
<1>3. /\ <<x, y>> \o t \in Seq(FirewallCommands) /\ IsInjective(<<x, y>> \o t)
      /\ ToSet(<<x, y>> \o t) = {x, y} \cup ToSet(t)
  BY <1>1, <1>2, TwoInFront
<1>4. InOrder(<<x, y>> \o t)
  BY <1>1, <1>2, OrderInFront
<1>. QED
  BY <1>3, <1>4 DEF InstallAnchor, x, y

\* firewall_install: every anchor is cleared and filled, once.
LEMMA Installation ==
    /\ FirewallInstall \in Seq(FirewallCommands) /\ IsInjective(FirewallInstall) /\ InOrder(FirewallInstall)
    /\ ToSet(FirewallInstall) = {Command(do, f, a) : do \in Installing, f \in Families, a \in Anchors}
<1>. DEFINE e4 == InstallAnchor("v4", "exemptLAN")
            e6 == InstallAnchor("v6", "exemptLAN")
            k4 == InstallAnchor("v4", "killswitch")
            k6 == InstallAnchor("v6", "killswitch")
            both(f, a) == {Command("clear", f, a), Command("fill", f, a)}
<1>1. "v4" \in Families /\ "v6" \in Families /\ "exemptLAN" \in Anchors /\ "killswitch" \in Anchors
  BY DEF Families, Anchors
<1>2. /\ <<>> \in Seq(FirewallCommands) /\ IsInjective(<<>>) /\ InOrder(<<>>) /\ ToSet(<<>>) = {}
  BY EmptySeq DEF IsInjective, InOrder, ToSet
<1>3. \A f, a, do, f2, a2 : (f # f2 \/ a # a2) => Command(do, f, a) \notin both(f2, a2)
  BY CommandKinds
<1>4. \A f \in Families, a \in Anchors : InstallAnchor(f, a) \in Seq(FirewallCommands)
  <2>. SUFFICES ASSUME NEW f \in Families, NEW a \in Anchors PROVE InstallAnchor(f, a) \in Seq(FirewallCommands)
    OBVIOUS
  <2>1. Command("clear", f, a) \in FirewallCommands /\ Command("fill", f, a) \in FirewallCommands
    BY CommandKinds DEF Installing
  <2>. QED
    BY <2>1 DEF InstallAnchor
<1>5. e4 \in Seq(FirewallCommands) /\ e6 \in Seq(FirewallCommands) /\ k4 \in Seq(FirewallCommands) /\ k6 \in Seq(FirewallCommands)
  BY <1>1, <1>4
<1>. DEFINE t3 == k6 \o <<>>
            t2 == k4 \o t3
            t1 == e6 \o t2
            t0 == e4 \o t1
<1>6. t3 \in Seq(FirewallCommands) /\ IsInjective(t3) /\ InOrder(t3) /\ ToSet(t3) = both("v6", "killswitch")
  <2>1. \A do : Command(do, "v6", "killswitch") \notin ToSet(<<>>)
    BY <1>2
  <2>. DEFINE none == <<>>
  <2>2. /\ none \in Seq(FirewallCommands) /\ IsInjective(none) /\ InOrder(none) /\ ToSet(none) = {}
        /\ \A do : Command(do, "v6", "killswitch") \notin ToSet(none)
    BY <1>2, <2>1
  <2>. HIDE DEF none
  <2>3. LET s == InstallAnchor("v6", "killswitch") \o none IN
        /\ s \in Seq(FirewallCommands) /\ IsInjective(s) /\ InOrder(s)
        /\ ToSet(s) = both("v6", "killswitch") \cup ToSet(none)
    BY <2>2, <1>1, AnchorInFront
  <2>. QED
    BY <2>2, <2>3 DEF none
<1>. HIDE DEF t3, both
<1>7. /\ t2 \in Seq(FirewallCommands) /\ IsInjective(t2) /\ InOrder(t2)
      /\ ToSet(t2) = both("v4", "killswitch") \cup both("v6", "killswitch")
  <2>1. \A do : Command(do, "v4", "killswitch") \notin ToSet(t3)
    BY <1>3, <1>6
  <2>. QED
    BY <2>1, <1>1, <1>6, AnchorInFront DEF both
<1>. HIDE DEF t2
<1>8. /\ t1 \in Seq(FirewallCommands) /\ IsInjective(t1) /\ InOrder(t1)
      /\ ToSet(t1) = both("v6", "exemptLAN") \cup both("v4", "killswitch") \cup both("v6", "killswitch")
  <2>1. \A do : Command(do, "v6", "exemptLAN") \notin ToSet(t2)
    BY <1>3, <1>7
  <2>. QED
    BY <2>1, <1>1, <1>7, AnchorInFront DEF both
<1>. HIDE DEF t1
<1>9. /\ t0 \in Seq(FirewallCommands) /\ IsInjective(t0) /\ InOrder(t0)
      /\ ToSet(t0) = both("v4", "exemptLAN") \cup both("v6", "exemptLAN")
                        \cup both("v4", "killswitch") \cup both("v6", "killswitch")
  <2>1. \A do : Command(do, "v4", "exemptLAN") \notin ToSet(t1)
    BY <1>3, <1>8
  <2>. QED
    BY <2>1, <1>1, <1>8, AnchorInFront DEF both
<1>10. FirewallInstall = t0
  <2>. HIDE DEF e4, e6, k4, k6
  <2>1. t3 = k6
    BY <1>5, ConcatEmptySeq DEF t3
  <2>2. ((e4 \o e6) \o k4) \o k6 = e4 \o (e6 \o (k4 \o k6))
    <3>. DEFINE p == e4 \o e6
                q == k4 \o k6
    <3>1. /\ p \in Seq(FirewallCommands) /\ q \in Seq(FirewallCommands)
          /\ e4 \in Seq(FirewallCommands) /\ e6 \in Seq(FirewallCommands) /\ k4 \in Seq(FirewallCommands) /\ k6 \in Seq(FirewallCommands)
      BY <1>5, ConcatProperties
    <3>. HIDE DEF p, q
    <3>2. \A u, v, w \in Seq(FirewallCommands) : (u \o v) \o w = u \o (v \o w)
      BY ConcatAssociative, SMTT(20)
    <3>3. (p \o k4) \o k6 = p \o (k4 \o k6)
      <4>1. p \in Seq(FirewallCommands) /\ k4 \in Seq(FirewallCommands) /\ k6 \in Seq(FirewallCommands)
        BY <3>1
      <4>2. \A v, w \in Seq(FirewallCommands) : (p \o v) \o w = p \o (v \o w)
        BY ONLY <3>2, <4>1, ZenonT(30)
      <4>. QED
        BY ONLY <4>1, <4>2, ZenonT(30)
    <3>4. (e4 \o e6) \o q = e4 \o (e6 \o q)
      <4>1. e4 \in Seq(FirewallCommands) /\ e6 \in Seq(FirewallCommands) /\ q \in Seq(FirewallCommands)
        BY <3>1
      <4>2. \A v, w \in Seq(FirewallCommands) : (e4 \o v) \o w = e4 \o (v \o w)
        BY ONLY <3>2, <4>1, ZenonT(30)
      <4>. QED
        BY ONLY <4>1, <4>2, ZenonT(30)
    <3>. QED
      BY <3>3, <3>4 DEF p, q
  <2>5. FirewallInstall = ((e4 \o e6) \o k4) \o k6
    BY DEF FirewallInstall, e4, e6, k4, k6
  <2>. QED
    BY <2>1, <2>2, <2>5 DEF t1, t2
<1>11. {Command(do, f, a) : do \in Installing, f \in Families, a \in Anchors}
          = both("v4", "exemptLAN") \cup both("v6", "exemptLAN")
               \cup both("v4", "killswitch") \cup both("v6", "killswitch")
  BY DEF Installing, Families, Anchors, both
<1>. QED
  BY <1>9, <1>10, <1>11

-----------------------------------------------------------------------------
(* The steps.                                                              *)

\* The jumps of a family are what is in its OUTPUT.
LEMMA JumpsIn == ASSUME PosixTypeOK, NEW f \in Families
                 PROVE  /\ output[f] \in Seq(Anchors)
                        /\ \A a : Jumps(f, a) <=> a \in ToSet(output[f])
BY DEF PosixTypeOK, Jumps, ToSet

\* What the first command is, and what is pending once it was run.
LEMMA NextCommand ==
    ASSUME Kept, todo # <<>>
    PROVE  /\ Head(todo) \in FirewallCommands /\ Pending(Head(todo))
           /\ Tail(todo) \in Seq(FirewallCommands) /\ IsInjective(Tail(todo))
           /\ ToSet(Tail(todo)) = ToSet(todo) \ {Head(todo)}
           /\ ClearedFirst =>
                 /\ InOrder(Tail(todo))
                 /\ Head(todo).do = "fill" =>
                        ~Pending(Command("clear", Head(todo).family, Head(todo).anchor))
<1>. DEFINE t == Tail(todo)
            c == Head(todo)
            l == Len(todo)
<1>1. todo \in Seq(FirewallCommands) /\ IsInjective(todo)
  BY DEF Kept
<1>2. /\ c \in FirewallCommands /\ c \in ToSet(todo) /\ c = todo[1] /\ t \in Seq(FirewallCommands) /\ IsInjective(t)
      /\ ToSet(t) = ToSet(todo) \ {c}
      /\ l \in Nat /\ DOMAIN todo = 1..l /\ DOMAIN t = 1..(l - 1) /\ 1 \in DOMAIN todo
      /\ \A i \in DOMAIN t : i + 1 \in DOMAIN todo /\ t[i] = todo[i + 1]
  BY <1>1, FrontRun
<1>. HIDE DEF t, c, l
<1>3. ASSUME ClearedFirst PROVE InOrder(t)
  <2>. SUFFICES ASSUME NEW i \in DOMAIN t, NEW j \in DOMAIN t, t[i].do = "fill",
                       t[j] = Command("clear", t[i].family, t[i].anchor)
                PROVE  j < i
    BY DEF InOrder
  <2>1. /\ i + 1 \in DOMAIN todo /\ j + 1 \in DOMAIN todo /\ t[i] = todo[i + 1] /\ t[j] = todo[j + 1]
        /\ i \in 1..(l - 1) /\ j \in 1..(l - 1)
    BY <1>2
  <2>2. j + 1 < i + 1
    BY <2>1, <1>3 DEF ClearedFirst, InOrder
  <2>. QED
    BY <2>1, <2>2, <1>2
<1>4. ASSUME ClearedFirst, c.do = "fill", Pending(Command("clear", c.family, c.anchor)) PROVE FALSE
  <2>1. PICK j \in DOMAIN todo : todo[j] = Command("clear", c.family, c.anchor)
    BY <1>4 DEF Pending, ToSet
  <2>2. j < 1
    BY <2>1, <1>2, <1>4 DEF ClearedFirst, InOrder
  <2>. QED
    BY <2>1, <2>2, <1>2
<1>. QED
  BY <1>2, <1>3, <1>4 DEF t, c, Pending

\* A command of firewall_install takes no jump away: only the chain it is for changes, and
\* a chain that was cleared has its fill still to come.
LEMMA InstallsKeeps ==
    ASSUME PosixInv, RunsCommand, Installs(Head(todo))
    PROVE  PosixInv' /\ NoGap
<1>. DEFINE c == Head(todo)
<1>1. /\ running /\ todo # <<>> /\ todo' = Tail(todo)
      /\ UNCHANGED <<output, running, engaged, stops>>
      /\ c.do \in Installing
      /\ chain' = [chain EXCEPT ![c.family][c.anchor] = IF c.do = "fill" THEN "full" ELSE "partial"]
  BY DEF RunsCommand, Installs, Installing
<1>2. Kept /\ MovedOnce /\ LookedOnce /\ ClearedFirst /\ Filled /\ Engages /\ Agrees
  BY DEF PosixInv
<1>3. /\ c \in FirewallCommands /\ Pending(c) /\ todo' \in Seq(FirewallCommands) /\ IsInjective(todo')
      /\ ToSet(todo') = ToSet(todo) \ {c} /\ InOrder(todo')
      /\ c.do = "fill" => ~Pending(Command("clear", c.family, c.anchor))
  BY <1>1, <1>2, NextCommand
<1>. HIDE DEF c
<1>4. \A x : Pending(x)' <=> Pending(x) /\ x # c
  BY <1>3 DEF Pending
<1>5. c = Command(c.do, c.family, c.anchor) /\ c.family \in Families /\ c.anchor \in Anchors
  BY <1>1, <1>3, CommandKinds DEF Installing, Looking
<1>6. ~engaged
  BY <1>1, <1>2, <1>3 DEF Engages, Installing, Pending
<1>7. PosixTypeOK /\ chain \in [Families -> [Anchors -> {"none", "partial", "full"}]]
  BY <1>2 DEF Kept, PosixTypeOK
<1>8. /\ chain' \in [Families -> [Anchors -> {"none", "partial", "full"}]]
      /\ \A f \in Families, a \in Anchors :
            chain'[f][a] = IF f = c.family /\ a = c.anchor
                           THEN IF c.do = "fill" THEN "full" ELSE "partial" ELSE chain[f][a]
  BY <1>1, <1>5, <1>7
<1>9. Kept'
  <2>1. PosixTypeOK'
    BY <1>1, <1>7, <1>8 DEF PosixTypeOK
  <2>. QED
    BY <2>1, <1>1, <1>2, <1>3 DEF Kept
<1>10. MovedOnce' /\ LookedOnce'
  <2>1. \A a : Looked(a)' => Looked(a)
    BY <1>4 DEF Looked
  <2>. QED
    BY <2>1, <1>2, <1>3, <1>4 DEF MovedOnce, LookedOnce
<1>11. ClearedFirst'
  BY <1>3 DEF ClearedFirst
<1>12. Filled'
  <2>. SUFFICES ASSUME NEW f \in Families, NEW a \in Anchors
                PROVE  \/ Pending(Command("fill", f, a))'
                       \/ chain'[f][a] = "full" /\ ~Pending(Command("clear", f, a))'
    BY DEF Filled
  <2>1. \/ Pending(Command("fill", f, a))
        \/ chain[f][a] = "full" /\ ~Pending(Command("clear", f, a))
    BY <1>1, <1>2 DEF Filled
  <2>2. CASE f = c.family /\ a = c.anchor
    <3>1. CASE c.do = "fill"
      BY <2>2, <3>1, <1>3, <1>4, <1>8
    <3>2. CASE c.do = "clear"
      <4>1. c = Command("clear", f, a) /\ Command("clear", f, a) # Command("fill", f, a)
        BY <2>2, <3>2, <1>5, CommandKinds
      <4>. QED
        BY <4>1, <2>1, <1>3, <1>4
    <3>. QED
      BY <3>1, <3>2, <1>1 DEF Installing
  <2>3. CASE ~(f = c.family /\ a = c.anchor)
    <3>1. Command("fill", f, a) # c
      BY <2>3, <1>5, CommandKinds
    <3>. QED
      BY <3>1, <2>1, <2>3, <1>4, <1>8
  <2>. QED
    BY <2>2, <2>3
<1>13. Engages'
  BY <1>1, <1>6 DEF Engages
<1>14. Agrees'
  <2>1. \A do, f, a : do \in Moving \cup Looking => Command(do, f, a) # c
    <3>1. \A do, f, a : Command(do, f, a) = c => do = c.do
      BY <1>5, CommandKinds
    <3>. QED
      BY <3>1, <1>1 DEF Installing, Moving, Looking
  <2>2. \A do \in Moving \cup Looking : \A f, a : Pending(Command(do, f, a))' <=> Pending(Command(do, f, a))
    BY <2>1, <1>4
  <2>3. \A f, a : /\ Jumps(f, a)' <=> Jumps(f, a)
                  /\ Pending(Command("append", f, a))' <=> Pending(Command("append", f, a))
                  /\ Pending(Command("delete", f, a))' <=> Pending(Command("delete", f, a))
                  /\ Pending(Command("enable", f, a))' <=> Pending(Command("enable", f, a))
                  /\ Pending(Command("disable", f, a))' <=> Pending(Command("disable", f, a))
    BY <2>2, <1>1 DEF Jumps, Moving, Looking
  <2>4. \A f, a : WillJump(f, a)' <=> WillJump(f, a)
    BY <2>3 DEF WillJump
  <2>. QED
    BY <2>3, <2>4, <1>1, <1>2 DEF Agrees
<1>. QED
  BY <1>6, <1>9, <1>10, <1>11, <1>12, <1>13, <1>14 DEF PosixInv, NoGap

\* iptables -A and -D: one family changes, and as it was going to.
LEMMA MovesKeeps ==
    ASSUME PosixInv, RunsCommand, Moves(Head(todo))
    PROVE  PosixInv' /\ NoGap
<1>0. PICK c : c = Head(todo)
  OBVIOUS
<1>1. /\ running /\ todo # <<>> /\ todo' = Tail(todo)
      /\ UNCHANGED <<chain, running, engaged, stops>>
      /\ c.do \in Moving
      /\ output' = [output EXCEPT ![c.family] =
                       IF c.do = "append" THEN Append(@, c.anchor) ELSE RemoveFirst(@, c.anchor)]
  BY <1>0 DEF RunsCommand, Moves, Moving
<1>2. Kept /\ MovedOnce /\ LookedOnce /\ ClearedFirst /\ Filled /\ Engages /\ Agrees
  BY DEF PosixInv
<1>3. /\ c \in FirewallCommands /\ Pending(c) /\ todo' \in Seq(FirewallCommands) /\ IsInjective(todo')
      /\ ToSet(todo') = ToSet(todo) \ {c} /\ InOrder(todo')
  BY <1>0, <1>1, <1>2, NextCommand
<1>4. \A x : Pending(x)' <=> Pending(x) /\ x # c
  BY <1>3 DEF Pending
<1>5. c = Command(c.do, c.family, c.anchor) /\ c.family \in Families /\ c.anchor \in Anchors
  BY <1>1, <1>3, CommandKinds DEF Moving, Looking
<1>6. PosixTypeOK /\ DOMAIN output = Families
  BY <1>2 DEF Kept, PosixTypeOK
<1>7. /\ \A f \in Families : output'[f] \in Seq(Anchors) /\ (f # c.family => output'[f] = output[f])
      /\ \A f \in Families, a \in Anchors :
            f # c.family \/ a # c.anchor => (Jumps(f, a)' <=> Jumps(f, a))
      /\ c.do = "append" => Jumps(c.family, c.anchor)'
      /\ IsInjective(output[c.family]) =>
            /\ c.do = "append" /\ ~Jumps(c.family, c.anchor) => IsInjective(output'[c.family])
            /\ c.do = "delete" => IsInjective(output'[c.family]) /\ ~Jumps(c.family, c.anchor)'
  <2>. DEFINE s == output[c.family]
              t == output'[c.family]
  <2>1. /\ t = IF c.do = "append" THEN Append(s, c.anchor) ELSE RemoveFirst(s, c.anchor)
        /\ \A f \in Families : f # c.family => output'[f] = output[f]
    BY <1>1, <1>5, <1>6
  <2>2. s \in Seq(Anchors) /\ \A f \in Families : output[f] \in Seq(Anchors)
    BY <1>5, <1>6, JumpsIn
  <2>3. /\ \A a : Jumps(c.family, a) <=> a \in ToSet(s)
        /\ \A a : Jumps(c.family, a)' <=> a \in ToSet(t)
    BY DEF Jumps, ToSet
  <2>9. \A f \in Families : \A a : f # c.family => (Jumps(f, a)' <=> Jumps(f, a))
    <3>1. \A f, a : Jumps(f, a)' <=> \E i \in DOMAIN (output'[f]) : output'[f][i] = a
      BY DEF Jumps
    <3>2. \A f, a : Jumps(f, a) <=> \E i \in DOMAIN (output[f]) : output[f][i] = a
      BY DEF Jumps
    <3>3. ASSUME NEW f \in Families, f # c.family, NEW a PROVE Jumps(f, a)' <=> Jumps(f, a)
      <4>1. output'[f] = output[f]
        BY <2>1, <3>3
      <4>. QED
        BY <3>1, <3>2, <4>1
    <3>. QED
      BY <3>3
  <2>. HIDE DEF s, t
  <2>4. CASE c.do = "append"
    <3>1. /\ t \in Seq(Anchors) /\ Len(s) \in Nat /\ DOMAIN s = 1..Len(s) /\ DOMAIN t = 1..(Len(s) + 1)
          /\ \A i \in 1..Len(s) : t[i] = s[i]
          /\ t[Len(s) + 1] = c.anchor
      BY <2>1, <2>2, <2>4, <1>5, AppendProperties, LenProperties
    <3>2. \A i \in 1..(Len(s) + 1) : i \in 1..Len(s) \/ i = Len(s) + 1
      BY <3>1
    <3>3. ToSet(t) = ToSet(s) \cup {c.anchor}
      <4>1. Len(s) + 1 \in 1..(Len(s) + 1) /\ 1..Len(s) \subseteq 1..(Len(s) + 1)
        BY <3>1
      <4>. QED
        BY <4>1, <3>1, <3>2 DEF ToSet
    <3>4. IsInjective(s) /\ c.anchor \notin ToSet(s) => IsInjective(t)
      <4>. SUFFICES ASSUME IsInjective(s), c.anchor \notin ToSet(s), NEW i \in 1..(Len(s) + 1),
                           NEW j \in 1..(Len(s) + 1), t[i] = t[j]
                    PROVE  i = j
        BY <3>1 DEF IsInjective
      <4>. QED
        BY <3>1, <3>2 DEF IsInjective, ToSet
    <3>5. \A f \in Families : output'[f] \in Seq(Anchors)
      <4>1. output'[c.family] \in Seq(Anchors)
        BY <3>1 DEF t
      <4>. QED
        BY <4>1, <2>1, <2>2
    <3>6. \A a : Jumps(c.family, a)' <=> Jumps(c.family, a) \/ a = c.anchor
      BY <2>3, <3>3
    <3>7. \A f \in Families, a \in Anchors : f # c.family \/ a # c.anchor => (Jumps(f, a)' <=> Jumps(f, a))
      <4>1. ASSUME NEW f \in Families, NEW a \in Anchors, f = c.family, a # c.anchor
            PROVE  Jumps(f, a)' <=> Jumps(f, a)
        BY <3>6, <4>1
      <4>. QED
        BY <4>1, <2>9
    <3>8. IsInjective(output[c.family]) /\ ~Jumps(c.family, c.anchor) => IsInjective(output'[c.family])
      BY <2>3, <3>4 DEF s, t
    <3>9. Jumps(c.family, c.anchor)'
      BY <3>6
    <3>. QED
      BY <2>1, <2>4, <3>5, <3>7, <3>8, <3>9
  <2>5. CASE c.do = "delete"
    <3>1. /\ t \in Seq(Anchors)
          /\ \A b \in Anchors : b # c.anchor => (b \in ToSet(t) <=> b \in ToSet(s))
          /\ IsInjective(s) => IsInjective(t) /\ c.anchor \notin ToSet(t)
      BY <2>1, <2>2, <2>5, <1>5, FirstRemoved
    <3>5. \A f \in Families : output'[f] \in Seq(Anchors)
      <4>1. output'[c.family] \in Seq(Anchors)
        BY <3>1 DEF t
      <4>. QED
        BY <4>1, <2>1, <2>2
    <3>7. \A f \in Families, a \in Anchors : f # c.family \/ a # c.anchor => (Jumps(f, a)' <=> Jumps(f, a))
      <4>1. ASSUME NEW f \in Families, NEW a \in Anchors, f = c.family, a # c.anchor
            PROVE  Jumps(f, a)' <=> Jumps(f, a)
        BY <2>3, <3>1, <4>1
      <4>. QED
        BY <4>1, <2>9
    <3>8. IsInjective(output[c.family]) => IsInjective(output'[c.family]) /\ ~Jumps(c.family, c.anchor)'
      BY <2>3, <3>1 DEF s, t
    <3>. QED
      BY <2>1, <2>5, <3>5, <3>7, <3>8
  <2>. QED
    BY <2>4, <2>5, <1>1 DEF Moving
<1>8. Kept'
  <2>1. PosixTypeOK'
    BY <1>1, <1>6, <1>7 DEF PosixTypeOK
  <2>. QED
    BY <2>1, <1>1, <1>2, <1>3 DEF Kept
<1>9. MovedOnce' /\ LookedOnce'
  <2>1. \A a : Looked(a)' => Looked(a)
    BY <1>4 DEF Looked
  <2>. QED
    BY <2>1, <1>2, <1>3, <1>4 DEF MovedOnce, LookedOnce
<1>10. ClearedFirst'
  BY <1>3 DEF ClearedFirst
<1>11. /\ ~Looked(c.anchor)
       /\ c.do = "append" => ~Pending(Command("delete", c.family, c.anchor))
       /\ c.do = "delete" => ~Pending(Command("append", c.family, c.anchor))
  BY <1>1, <1>2, <1>3 DEF MovedOnce, Pending
<1>12. \A do, f, a : Command(do, f, a) = c <=> do = c.do /\ f = c.family /\ a = c.anchor
  BY <1>5, CommandKinds
<1>13. Filled'
  <2>1. \A f, a : Command("fill", f, a) # c
    BY <1>1, <1>12 DEF Moving
  <2>. QED
    BY <2>1, <1>1, <1>2, <1>4 DEF Filled
<1>14. engaged => /\ c.do = "append" \/ c.anchor = "exemptLAN"
                  /\ \A f \in Families : Jumps(f, "killswitch") => Jumps(f, "killswitch")'
  <2>1. engaged => c.do = "append" \/ c.anchor = "exemptLAN"
    BY <1>1, <1>2, <1>3 DEF Engages, Pending, Moving
  <2>2. "killswitch" \in Anchors /\ "killswitch" # "exemptLAN"
    BY DEF Anchors
  <2>. QED
    BY <2>1, <2>2, <1>7
<1>15. Engages'
  <2>. SUFFICES ASSUME engaged
                PROVE  /\ \A x \in ToSet(todo)' :
                             \/ x.do \in {"enable", "append"}
                             \/ x.do \in {"disable", "delete"} /\ x.anchor = "exemptLAN"
                       /\ \A f \in Families :
                             \/ Jumps(f, "killswitch")'
                             \/ Pending(Command("append", f, "killswitch"))'
                             \/ Pending(Command("enable", "both", "killswitch"))'
    BY <1>1 DEF Engages
  <2>1. \A x \in ToSet(todo)' : \/ x.do \in {"enable", "append"}
                                \/ x.do \in {"disable", "delete"} /\ x.anchor = "exemptLAN"
    BY <1>2, <1>3 DEF Engages
  <2>2. ASSUME NEW f \in Families
        PROVE  \/ Jumps(f, "killswitch")'
               \/ Pending(Command("append", f, "killswitch"))'
               \/ Pending(Command("enable", "both", "killswitch"))'
    <3>1. \/ Jumps(f, "killswitch")
          \/ Pending(Command("append", f, "killswitch"))
          \/ Pending(Command("enable", "both", "killswitch"))
      BY <1>2 DEF Engages
    <3>2. CASE c = Command("append", f, "killswitch")
      BY <3>2, <1>7, <1>12
    <3>3. Command("enable", "both", "killswitch") # c
      BY <1>1, <1>12 DEF Moving
    <3>. QED
      BY <3>1, <3>2, <3>3, <1>4, <1>14
  <2>. QED
    BY <2>1, <2>2
<1>16. Agrees'
  <2>. SUFFICES ASSUME stops = 0 PROVE Agrees'
    BY <1>1 DEF Agrees
  <2>1. /\ \A f \in Families : IsInjective(output[f])
        /\ \A f \in Families, a \in Anchors : Pending(Command("append", f, a)) => ~Jumps(f, a)
        /\ \A a \in Anchors : WillJump("v4", a) <=> WillJump("v6", a)
        /\ ~engaged => \A a \in Anchors :
              /\ ~Pending(Command("enable", "both", a))
              /\ \A f \in Families : WillJump(f, a) => Pending(Command("disable", "both", a))
    BY <1>2 DEF Agrees
  <2>2. c.do = "append" => ~Jumps(c.family, c.anchor)
    BY <2>1, <1>3, <1>5
  <2>3. \A f \in Families : IsInjective(output'[f])
    BY <2>1, <2>2, <1>1, <1>7 DEF Moving
  <2>4. ASSUME NEW f \in Families, NEW a \in Anchors, Pending(Command("append", f, a))'
        PROVE  ~Jumps(f, a)'
    <3>1. Pending(Command("append", f, a)) /\ Command("append", f, a) # c /\ ~Jumps(f, a)
      BY <2>1, <2>4, <1>4
    <3>2. f # c.family \/ a # c.anchor
      BY <3>1, <1>1, <1>11, <1>12 DEF Moving
    <3>. QED
      BY <3>1, <3>2, <1>7
  <2>5. ASSUME NEW f \in Families, NEW a \in Anchors PROVE WillJump(f, a)' <=> WillJump(f, a)
    <3>1. CASE f = c.family /\ a = c.anchor
      <4>1. CASE c.do = "append"
        <5>1. WillJump(f, a)
          BY <4>1, <3>1, <1>3, <1>5 DEF WillJump
        <5>2. Jumps(f, a)' /\ ~Pending(Command("delete", f, a))'
          BY <4>1, <3>1, <1>4, <1>7, <1>11
        <5>. QED
          BY <5>1, <5>2 DEF WillJump
      <4>2. CASE c.do = "delete"
        <5>1. ~WillJump(f, a)
          BY <4>2, <3>1, <1>3, <1>5, <1>11 DEF WillJump
        <5>2. ~Jumps(f, a)' /\ ~Pending(Command("append", f, a))'
          BY <4>2, <3>1, <2>1, <1>4, <1>7, <1>11
        <5>. QED
          BY <5>1, <5>2 DEF WillJump
      <4>. QED
        BY <4>1, <4>2, <1>1 DEF Moving
    <3>2. CASE ~(f = c.family /\ a = c.anchor)
      <4>1. /\ Jumps(f, a)' <=> Jumps(f, a)
            /\ \A do : Pending(Command(do, f, a))' <=> Pending(Command(do, f, a))
        BY <3>2, <1>4, <1>7, <1>12
      <4>. QED
        BY <4>1 DEF WillJump
    <3>. QED
      BY <3>1, <3>2
  <2>6. \A do \in Looking : \A a : Pending(Command(do, "both", a))' <=> Pending(Command(do, "both", a))
    BY <1>1, <1>4, <1>12 DEF Looking, Moving
  <2>7. \A a : /\ Pending(Command("enable", "both", a))' <=> Pending(Command("enable", "both", a))
               /\ Pending(Command("disable", "both", a))' <=> Pending(Command("disable", "both", a))
    BY <2>6 DEF Looking
  <2>8. \A a \in Anchors : WillJump("v4", a)' <=> WillJump("v6", a)'
    BY <2>1, <2>5 DEF Families
  <2>9. ~engaged => \A a \in Anchors :
              /\ ~Pending(Command("enable", "both", a))'
              /\ \A f \in Families : WillJump(f, a)' => Pending(Command("disable", "both", a))'
    BY <2>1, <2>5, <2>7
  <2>. QED
    BY <2>3, <2>4, <2>8, <2>9, <1>1 DEF Agrees
<1>17. NoGap
  BY <1>1, <1>14 DEF NoGap, Rejecting
<1>. QED
  BY <1>8, <1>9, <1>10, <1>13, <1>15, <1>16, <1>17 DEF PosixInv

\* firewall_set_anchor_enabled: what it finds decides whether the jumps of both families are
\* moved, and nothing that is still to come moves them.
LEMMA LooksKeeps ==
    ASSUME PosixInv, RunsCommand, Looks(Head(todo))
    PROVE  PosixInv' /\ NoGap
<1>0. PICK c : c = Head(todo)
  OBVIOUS
<1>. DEFINE do == IF c.do = "enable" THEN "append" ELSE "delete"
            x == Command(do, "v4", c.anchor)
            y == Command(do, "v6", c.anchor)
            finds == (c.do = "enable") = AnchorEnabled(c.anchor)
            new == IF finds THEN {} ELSE {x, y}
<1>1. /\ running /\ todo # <<>>
      /\ UNCHANGED <<chain, output, running, engaged, stops>>
      /\ c.do \in Looking
      /\ todo' = (IF finds THEN <<>> ELSE <<x, y>>) \o Tail(todo)
  BY <1>0 DEF RunsCommand, Looks, Looking, ForBoth
<1>2. Kept /\ MovedOnce /\ LookedOnce /\ ClearedFirst /\ Filled /\ Engages /\ Agrees
  BY DEF PosixInv
<1>3. /\ c \in FirewallCommands /\ Pending(c) /\ Tail(todo) \in Seq(FirewallCommands) /\ IsInjective(Tail(todo))
      /\ ToSet(Tail(todo)) = ToSet(todo) \ {c} /\ InOrder(Tail(todo))
  BY <1>0, <1>1, <1>2, NextCommand
<1>4. c = Command(c.do, "both", c.anchor) /\ c.anchor \in Anchors
  BY <1>1, <1>3, CommandKinds DEF Installing, Moving, Looking
<1>5. do \in Moving /\ x \in FirewallCommands /\ y \in FirewallCommands /\ x # y
  <2>1. do \in Moving /\ do \in Installing \cup Moving /\ "v4" \in Families /\ "v6" \in Families
    BY DEF Moving, Families
  <2>. QED
    BY <2>1, <1>4, CommandKinds
<1>6. \A m \in Moving, f \in Families : ~Pending(Command(m, f, c.anchor))
  <2>1. Looked(c.anchor)
    BY <1>1, <1>3, <1>4 DEF Looked, Looking
  <2>2. \A m, f : Command(m, f, c.anchor).do = m /\ Command(m, f, c.anchor).anchor = c.anchor
    BY CommandKinds
  <2>. QED
    BY <2>1, <2>2, <1>2 DEF MovedOnce, Pending
<1>7. ~Pending(x) /\ ~Pending(y)
  BY <1>5, <1>6 DEF Families
<1>8. /\ \A k \in new : k.do = do /\ k.anchor = c.anchor
      /\ \A m, f, a : Command(m, f, a) \in new => m = do /\ f \in Families /\ a = c.anchor
      /\ finds \/ \A f \in Families : Command(do, f, c.anchor) \in new
  <2>1. /\ x.do = do /\ x.anchor = c.anchor /\ y.do = do /\ y.anchor = c.anchor
        /\ \A m, f, a : Command(m, f, a) = x => m = do /\ f = "v4" /\ a = c.anchor
        /\ \A m, f, a : Command(m, f, a) = y => m = do /\ f = "v6" /\ a = c.anchor
    BY CommandKinds
  <2>. QED
    BY <2>1 DEF Families
<1>9. finds <=> (c.do = "enable" <=> AnchorEnabled(c.anchor))
  <2>1. (c.do = "enable") \in BOOLEAN /\ AnchorEnabled(c.anchor) \in BOOLEAN
    BY DEF AnchorEnabled
  <2>. QED
    BY <2>1
<1>10. /\ todo' \in Seq(FirewallCommands) /\ IsInjective(todo') /\ InOrder(todo')
       /\ ToSet(todo') = (ToSet(todo) \ {c}) \cup new
  <2>. DEFINE t == Tail(todo)
  <2>1. t \in Seq(FirewallCommands) /\ IsInjective(t) /\ ToSet(t) = ToSet(todo) \ {c} /\ InOrder(t)
    BY <1>3
  <2>2. x \notin ToSet(t) /\ y \notin ToSet(t)
    BY <2>1, <1>7 DEF Pending
  <2>3. x.do # "fill" /\ y.do # "fill"
    <3>1. x.do = do /\ y.do = do
      BY CommandKinds
    <3>. QED
      BY <3>1
  <2>4. CASE finds
    <3>1. todo' = <<>> \o t /\ new = {}
      BY <2>4, <1>1
    <3>2. <<>> \o t = t
      BY <2>1, ConcatEmptySeq
    <3>. QED
      BY <3>1, <3>2, <2>1
  <2>5. CASE ~finds
    <3>1. todo' = <<x, y>> \o t /\ new = {x, y}
      BY <2>5, <1>1
    <3>. HIDE DEF x, y, t, new, finds
    <3>2. /\ <<x, y>> \o t \in Seq(FirewallCommands) /\ IsInjective(<<x, y>> \o t)
          /\ ToSet(<<x, y>> \o t) = {x, y} \cup ToSet(t)
      BY <2>1, <2>2, <1>5, TwoInFront
    <3>3. InOrder(<<x, y>> \o t)
      BY <2>1, <2>3, <1>5, OrderInFront
    <3>. QED
      BY <3>1, <3>2, <3>3, <2>1
  <2>. QED
    BY <2>4, <2>5
<1>11. (do = "append" /\ c.do = "enable") \/ (do = "delete" /\ c.do = "disable")
  BY <1>1 DEF Looking
<1>. HIDE DEF x, y, new, finds, do
<1>12. \A k : Pending(k)' <=> (Pending(k) /\ k # c) \/ k \in new
  BY <1>10 DEF Pending
<1>13. \A m, f, a : Command(m, f, a) = c <=> m = c.do /\ f = "both" /\ a = c.anchor
  BY <1>4, CommandKinds
<1>14. /\ \A m, f, a : m \notin Moving => Command(m, f, a) \notin new
       /\ \A m, f, a : m \notin Looking => Command(m, f, a) # c
  BY <1>1, <1>5, <1>8, <1>13
<1>15. Kept'
  BY <1>1, <1>2, <1>10 DEF Kept, PosixTypeOK
<1>16. /\ \A a : Looked(a)' => Looked(a)
       /\ ~Looked(c.anchor)'
       /\ \A m \in Looking : \A f, a : Pending(Command(m, f, a))' => Pending(Command(m, f, a))
  <2>1. \A m \in Looking : \A f, a : Pending(Command(m, f, a))' <=> Pending(Command(m, f, a)) /\ Command(m, f, a) # c
    BY <1>12, <1>14 DEF Looking, Moving
  <2>2. \A a : /\ Pending(Command("enable", "both", a))' <=>
                     Pending(Command("enable", "both", a)) /\ Command("enable", "both", a) # c
               /\ Pending(Command("disable", "both", a))' <=>
                     Pending(Command("disable", "both", a)) /\ Command("disable", "both", a) # c
    BY <2>1 DEF Looking
  <2>3. ~(Pending(Command("enable", "both", c.anchor)) /\ Pending(Command("disable", "both", c.anchor)))
    BY <1>2, <1>4 DEF LookedOnce
  <2>4. c = Command("enable", "both", c.anchor) \/ c = Command("disable", "both", c.anchor)
    BY <1>1, <1>4 DEF Looking
  <2>5. ~Pending(Command("enable", "both", c.anchor))' /\ ~Pending(Command("disable", "both", c.anchor))'
    BY <2>2, <2>3, <2>4, <1>3
  <2>6. \A a : Looked(a)' => Looked(a)
    BY <2>2 DEF Looked
  <2>7. ~Looked(c.anchor)'
    BY <2>5 DEF Looked
  <2>. QED
    BY <2>1, <2>6, <2>7
<1>17. MovedOnce'
  <2>. DEFINE opposite(k) == Command(IF k.do = "append" THEN "delete" ELSE "append", k.family, k.anchor)
  <2>. SUFFICES ASSUME NEW k \in ToSet(todo'), k.do \in Moving
                PROVE  ~Looked(k.anchor)' /\ ~Pending(opposite(k))'
    BY DEF MovedOnce
  <2>1. opposite(k) # c
    BY <1>14 DEF Looking
  <2>2. CASE k \in new
    <3>1. k.do = do /\ k.anchor = c.anchor
      BY <2>2, <1>8
    <3>2. opposite(k) \notin new
      BY <3>1, <1>8, <1>11
    <3>3. k.family \in Families
      <4>1. k = x \/ k = y
        BY <2>2 DEF new
      <4>2. x.family = "v4" /\ y.family = "v6"
        BY CommandKinds DEF x, y
      <4>. QED
        BY <4>1, <4>2 DEF Families
    <3>4. ~Pending(opposite(k))
      BY <3>1, <3>3, <1>6 DEF Moving
    <3>. QED
      BY <3>1, <3>2, <3>4, <1>12, <1>16
  <2>3. CASE k \in ToSet(todo)
    <3>1. ~Looked(k.anchor) /\ ~Pending(opposite(k))
      BY <2>3, <1>2 DEF MovedOnce
    <3>2. Looked(c.anchor)
      BY <1>1, <1>3, <1>4 DEF Looked, Looking
    <3>3. opposite(k) \notin new
      BY <3>1, <3>2, <1>8
    <3>. QED
      BY <3>1, <3>3, <1>12, <1>16
  <2>. QED
    BY <2>2, <2>3, <1>10
<1>18. LookedOnce'
  BY <1>2, <1>16 DEF LookedOnce, Looking
<1>19. ClearedFirst'
  BY <1>10 DEF ClearedFirst
<1>20. Filled'
  <2>1. \A f, a : /\ Pending(Command("fill", f, a))' <=> Pending(Command("fill", f, a))
                  /\ Pending(Command("clear", f, a))' <=> Pending(Command("clear", f, a))
    BY <1>12, <1>14 DEF Moving, Looking
  <2>. QED
    BY <2>1, <1>1, <1>2 DEF Filled
<1>21. \A f, a : Jumps(f, a)' <=> Jumps(f, a)
  BY <1>1 DEF Jumps
<1>22. Engages'
  <2>. SUFFICES ASSUME engaged
                PROVE  /\ \A k \in ToSet(todo') :
                             \/ k.do \in {"enable", "append"}
                             \/ k.do \in {"disable", "delete"} /\ k.anchor = "exemptLAN"
                       /\ \A f \in Families :
                             \/ Jumps(f, "killswitch")'
                             \/ Pending(Command("append", f, "killswitch"))'
                             \/ Pending(Command("enable", "both", "killswitch"))'
    BY <1>1 DEF Engages
  <2>1. /\ \A k \in ToSet(todo) :
              \/ k.do \in {"enable", "append"}
              \/ k.do \in {"disable", "delete"} /\ k.anchor = "exemptLAN"
        /\ \A f \in Families :
              \/ Jumps(f, "killswitch")
              \/ Pending(Command("append", f, "killswitch"))
              \/ Pending(Command("enable", "both", "killswitch"))
    BY <1>2 DEF Engages
  <2>2. c.do = "enable" \/ c.anchor = "exemptLAN"
    BY <2>1, <1>1, <1>3 DEF Pending, Looking
  <2>3. ASSUME NEW k \in ToSet(todo')
        PROVE  \/ k.do \in {"enable", "append"}
               \/ k.do \in {"disable", "delete"} /\ k.anchor = "exemptLAN"
    <3>1. CASE k \in new
      <4>1. k.do = do /\ k.anchor = c.anchor
        BY <3>1, <1>8
      <4>. QED
        BY <4>1, <2>2, <1>11
    <3>. QED
      BY <3>1, <2>1, <1>10
  <2>4. ASSUME NEW f \in Families
        PROVE  \/ Jumps(f, "killswitch")'
               \/ Pending(Command("append", f, "killswitch"))'
               \/ Pending(Command("enable", "both", "killswitch"))'
    <3>1. CASE c = Command("enable", "both", "killswitch")
      <4>1. c.do = "enable" /\ c.anchor = "killswitch" /\ do = "append"
        BY <3>1, <1>11, <1>13
      <4>2. CASE finds
        <5>1. AnchorEnabled("killswitch")
          BY <4>1, <4>2, <1>9
        <5>. QED
          BY <5>1, <1>21 DEF AnchorEnabled
      <4>3. CASE ~finds
        <5>1. Command("append", f, "killswitch") \in new
          BY <4>1, <4>3, <1>8
        <5>. QED
          BY <5>1, <1>12
      <4>. QED
        BY <4>2, <4>3
    <3>2. CASE c # Command("enable", "both", "killswitch")
      <4>1. Command("append", f, "killswitch") # c
        BY <1>14 DEF Looking
      <4>. QED
        BY <3>2, <4>1, <2>1, <1>12, <1>21
    <3>. QED
      BY <3>1, <3>2
  <2>. QED
    BY <2>3, <2>4
<1>23. Agrees'
  <2>. SUFFICES ASSUME stops = 0 PROVE Agrees'
    BY <1>1 DEF Agrees
  <2>1. /\ \A f \in Families : IsInjective(output[f])
        /\ \A f \in Families, a \in Anchors : Pending(Command("append", f, a)) => ~Jumps(f, a)
        /\ \A a \in Anchors : WillJump("v4", a) <=> WillJump("v6", a)
        /\ ~engaged => \A a \in Anchors :
              /\ ~Pending(Command("enable", "both", a))
              /\ \A f \in Families : WillJump(f, a) => Pending(Command("disable", "both", a))
    BY <1>2 DEF Agrees
  <2>2. \A f \in Families : WillJump(f, c.anchor) <=> Jumps(f, c.anchor)
    BY <1>6 DEF WillJump, Moving
  <2>3. \A f \in Families : AnchorEnabled(c.anchor) <=> Jumps(f, c.anchor)
    BY <2>1, <2>2, <1>4 DEF AnchorEnabled, Families
  <2>4. ASSUME NEW f \in Families, NEW a \in Anchors, a # c.anchor
        PROVE  /\ WillJump(f, a)' <=> WillJump(f, a)
               /\ Pending(Command("append", f, a))' <=> Pending(Command("append", f, a))
    <3>1. \A m \in Moving : Pending(Command(m, f, a))' <=> Pending(Command(m, f, a))
      BY <2>4, <1>8, <1>12, <1>13
    <3>2. /\ Pending(Command("append", f, a))' <=> Pending(Command("append", f, a))
          /\ Pending(Command("delete", f, a))' <=> Pending(Command("delete", f, a))
      BY <3>1 DEF Moving
    <3>. QED
      BY <3>2, <1>21 DEF WillJump
  <2>5. ASSUME NEW f \in Families
        PROVE  /\ WillJump(f, c.anchor)' <=> c.do = "enable"
               /\ Pending(Command("append", f, c.anchor))' => ~Jumps(f, c.anchor)
    <3>1. \A m \in Moving : Pending(Command(m, f, c.anchor))' <=> Command(m, f, c.anchor) \in new
      BY <1>6, <1>12
    <3>2. /\ Pending(Command("append", f, c.anchor))' <=> Command("append", f, c.anchor) \in new
          /\ Pending(Command("delete", f, c.anchor))' <=> Command("delete", f, c.anchor) \in new
      BY <3>1 DEF Moving
    <3>3. CASE finds
      <4>1. ~Pending(Command("append", f, c.anchor))' /\ ~Pending(Command("delete", f, c.anchor))'
        BY <3>2, <3>3 DEF new
      <4>2. c.do = "enable" <=> Jumps(f, c.anchor)
        BY <3>3, <2>3, <1>9
      <4>. QED
        BY <4>1, <4>2, <1>21 DEF WillJump
    <3>4. CASE ~finds /\ c.do = "enable"
      <4>1. Command("append", f, c.anchor) \in new
        BY <3>4, <1>8, <1>11
      <4>2. ~Jumps(f, c.anchor)
        BY <3>4, <2>3, <1>9
      <4>. QED
        BY <3>4, <4>1, <4>2, <3>2 DEF WillJump
    <3>5. CASE ~finds /\ c.do # "enable"
      <4>1. Command("delete", f, c.anchor) \in new /\ Command("append", f, c.anchor) \notin new
        BY <3>5, <1>8, <1>11
      <4>. QED
        BY <3>5, <4>1, <3>2 DEF WillJump
    <3>. QED
      BY <3>3, <3>4, <3>5
  <2>6. \A f \in Families : IsInjective(output'[f])
    BY <2>1, <1>1
  <2>7. \A f \in Families, a \in Anchors : Pending(Command("append", f, a))' => ~Jumps(f, a)'
    BY <2>1, <2>4, <2>5, <1>21
  <2>8. \A a \in Anchors : WillJump("v4", a)' <=> WillJump("v6", a)'
    <3>1. "v4" \in Families /\ "v6" \in Families
      BY DEF Families
    <3>. QED
      BY <3>1, <2>1, <2>4, <2>5
  <2>9. ASSUME ~engaged, NEW a \in Anchors
        PROVE  /\ ~Pending(Command("enable", "both", a))'
               /\ \A f \in Families : WillJump(f, a)' => Pending(Command("disable", "both", a))'
    <3>1. ~Pending(Command("enable", "both", a))'
      BY <2>1, <2>9, <1>16 DEF Looking
    <3>2. ASSUME NEW f \in Families, WillJump(f, a)' PROVE Pending(Command("disable", "both", a))'
      <4>1. a # c.anchor
        <5>1. ~Pending(Command("enable", "both", c.anchor))
          BY <2>1, <2>9, <1>4
        <5>2. c.do # "enable"
          BY <5>1, <1>3, <1>4
        <5>. QED
          BY <5>2, <3>2, <2>5
      <4>2. Pending(Command("disable", "both", a)) /\ Command("disable", "both", a) # c
        BY <4>1, <3>2, <2>1, <2>4, <2>9, <1>13
      <4>. QED
        BY <4>2, <1>12
    <3>. QED
      BY <3>1, <3>2
  <2>. QED
    BY <2>6, <2>7, <2>8, <2>9, <1>1 DEF Agrees
<1>24. NoGap
  BY <1>1, <1>21 DEF NoGap, Rejecting
<1>. QED
  BY <1>15, <1>17, <1>18, <1>19, <1>20, <1>22, <1>23, <1>24 DEF PosixInv

\* One call after another.
LEMMA TwoCalls ==
    ASSUME NEW a \in FirewallCommands, NEW b \in FirewallCommands, a # b, a.do # "fill", b.do # "fill"
    PROVE  /\ <<a>> \o <<b>> \in Seq(FirewallCommands) /\ IsInjective(<<a>> \o <<b>>) /\ InOrder(<<a>> \o <<b>>)
           /\ ToSet(<<a>> \o <<b>>) = {a, b}
<1>. DEFINE p == <<a>>
            q == <<b>>
            s == p \o q
<1>1. /\ p \in Seq(FirewallCommands) /\ Len(p) = 1 /\ p[1] = a
      /\ q \in Seq(FirewallCommands) /\ Len(q) = 1 /\ q[1] = b
  OBVIOUS
<1>. HIDE DEF p, q
<1>2. /\ s \in Seq(FirewallCommands) /\ Len(s) = Len(p) + Len(q)
      /\ \A i \in 1..(Len(p) + Len(q)) : s[i] = IF i <= Len(p) THEN p[i] ELSE q[i - Len(p)]
  BY <1>1, ConcatProperties
<1>. HIDE DEF s
<1>3. Len(s) = 2 /\ DOMAIN s = 1..Len(s)
  BY <1>1, <1>2, LenProperties
<1>4. s[1] = a /\ s[2] = b
  BY <1>1, <1>2
<1>5. DOMAIN s = {1, 2}
  BY <1>3
<1>. HIDE DEF s
<1>6. ToSet(s) = {a, b} /\ IsInjective(s)
  BY <1>4, <1>5 DEF ToSet, IsInjective
<1>7. InOrder(s)
  BY <1>4, <1>5 DEF InOrder
<1>. QED
  BY <1>2, <1>6, <1>7 DEF s, p, q

\* ApplyFirewallSettings begins when nothing is pending, and looks at either anchor once.
LEMMA AppliesKeeps ==
    ASSUME PosixInv, Applies
    PROVE  PosixInv' /\ NoGap
<1>1. /\ running /\ todo = <<>> /\ UNCHANGED <<chain, output, running, stops>>
      /\ \E on, lan \in BOOLEAN : engaged' = on /\ todo' = AppliedSettings(on, lan)
  BY DEF Applies
<1>2. PICK on \in BOOLEAN, lan \in BOOLEAN : engaged' = on /\ todo' = AppliedSettings(on, lan)
  BY <1>1
<1>3. Kept /\ Filled /\ Agrees
  BY DEF PosixInv
<1>. DEFINE x == Command(IF on /\ lan THEN "enable" ELSE "disable", "both", "exemptLAN")
            y == Command(IF on THEN "enable" ELSE "disable", "both", "killswitch")
<1>4. todo' = <<x>> \o <<y>>
  BY <1>2 DEF AppliedSettings, SetAnchorEnabled
<1>5. /\ x \in FirewallCommands /\ y \in FirewallCommands /\ x # y
      /\ x.do \in Looking /\ y.do \in Looking /\ x.anchor = "exemptLAN" /\ y.anchor = "killswitch"
      /\ y.do = "enable" <=> on
      /\ ~on => x.do = "disable" /\ y.do = "disable"
  <2>1. "exemptLAN" \in Anchors /\ "killswitch" \in Anchors /\ "enable" \in Looking /\ "disable" \in Looking
    BY DEF Anchors, Looking
  <2>. QED
    BY <2>1, CommandKinds
<1>6. \A do, f, a : /\ Command(do, f, a) = x => do = x.do /\ a = "exemptLAN"
                    /\ Command(do, f, a) = y => do = y.do /\ a = "killswitch"
  BY <1>5, CommandKinds
<1>7. x = Command(x.do, "both", "exemptLAN") /\ y = Command(y.do, "both", "killswitch")
  BY CommandKinds
<1>. HIDE DEF x, y
<1>8. x.do # "fill" /\ y.do # "fill"
  BY <1>5 DEF Looking
<1>9. /\ todo' \in Seq(FirewallCommands) /\ IsInjective(todo') /\ InOrder(todo') /\ ToSet(todo') = {x, y}
  BY <1>4, <1>5, <1>8, TwoCalls
<1>10. /\ \A k : ~Pending(k)
       /\ \A k : Pending(k)' <=> k = x \/ k = y
  <2>1. ToSet(todo) = {}
    BY <1>1 DEF ToSet
  <2>2. \A k : Pending(k)' <=> k \in ToSet(todo')
    BY DEF Pending
  <2>. QED
    BY <2>1, <2>2, <1>9 DEF Pending
<1>11. \A do, f, a : do \notin Looking => ~Pending(Command(do, f, a))'
  BY <1>5, <1>6, <1>10
<1>12. Kept'
  BY <1>1, <1>2, <1>3, <1>9 DEF Kept, PosixTypeOK
<1>13. MovedOnce'
  <2>1. \A k \in ToSet(todo') : k.do \notin Moving
    BY <1>5, <1>9 DEF Looking, Moving
  <2>. QED
    BY <2>1 DEF MovedOnce
<1>14. LookedOnce'
  <2>. SUFFICES ASSUME NEW a \in Anchors, Pending(Command("enable", "both", a))',
                       Pending(Command("disable", "both", a))'
                PROVE  FALSE
    BY DEF LookedOnce
  <2>. QED
    BY <1>6, <1>10
<1>15. ClearedFirst'
  BY <1>9 DEF ClearedFirst
<1>16. Filled'
  <2>1. \A f \in Families, a \in Anchors : chain[f][a] = "full"
    BY <1>1, <1>3, <1>10 DEF Filled
  <2>2. \A f, a : ~Pending(Command("clear", f, a))'
    BY <1>11 DEF Looking
  <2>. QED
    BY <2>1, <2>2, <1>1 DEF Filled
<1>17. Engages'
  <2>. SUFFICES ASSUME on
                PROVE  /\ \A k \in ToSet(todo') :
                             \/ k.do \in {"enable", "append"}
                             \/ k.do \in {"disable", "delete"} /\ k.anchor = "exemptLAN"
                       /\ \A f \in Families :
                             \/ Jumps(f, "killswitch")'
                             \/ Pending(Command("append", f, "killswitch"))'
                             \/ Pending(Command("enable", "both", "killswitch"))'
    BY <1>2 DEF Engages
  <2>1. Pending(Command("enable", "both", "killswitch"))'
    BY <1>5, <1>7, <1>10
  <2>. QED
    BY <2>1, <1>5, <1>9 DEF Looking
<1>18. \A f, a : Jumps(f, a)' <=> Jumps(f, a)
  BY <1>1 DEF Jumps
<1>19. Agrees'
  <2>. SUFFICES ASSUME stops = 0 PROVE Agrees'
    BY <1>1 DEF Agrees
  <2>1. /\ \A f \in Families : IsInjective(output[f])
        /\ \A a \in Anchors : WillJump("v4", a) <=> WillJump("v6", a)
    BY <1>3 DEF Agrees
  <2>2. \A f, a : /\ ~Pending(Command("append", f, a))' /\ ~Pending(Command("delete", f, a))'
                  /\ ~Pending(Command("append", f, a)) /\ ~Pending(Command("delete", f, a))
    BY <1>10, <1>11 DEF Looking
  <2>3. \A f, a : WillJump(f, a)' <=> WillJump(f, a)
    BY <2>2, <1>18 DEF WillJump
  <2>4. ASSUME ~engaged', NEW a \in Anchors
        PROVE  ~Pending(Command("enable", "both", a))' /\ Pending(Command("disable", "both", a))'
    <3>1. x = Command("disable", "both", "exemptLAN") /\ y = Command("disable", "both", "killswitch")
      BY <2>4, <1>2, <1>5, <1>7
    <3>2. a = "exemptLAN" \/ a = "killswitch"
      BY DEF Anchors
    <3>3. Pending(Command("disable", "both", a))'
      BY <3>1, <3>2, <1>10
    <3>4. x.do = "disable" /\ y.do = "disable"
      BY <2>4, <1>2, <1>5
    <3>5. ~Pending(Command("enable", "both", a))'
      BY <3>4, <1>6, <1>10
    <3>. QED
      BY <3>3, <3>5
  <2>. QED
    BY <2>1, <2>2, <2>3, <2>4, <1>1 DEF Agrees
<1>20. NoGap
  BY <1>1, <1>18 DEF NoGap, Rejecting
<1>. QED
  BY <1>12, <1>13, <1>14, <1>15, <1>16, <1>17, <1>19, <1>20 DEF PosixInv

\* OnBeforeRun: a daemon that starts installs every anchor before it applies its settings,
\* whatever an earlier one left.
LEMMA StartingInv ==
    /\ PosixTypeOK /\ todo = FirewallInstall /\ running /\ ~engaged
    /\ stops = 0 => \A f \in Families : output[f] = <<>>
    => PosixInv
<1>. SUFFICES ASSUME PosixTypeOK, todo = FirewallInstall, running, ~engaged,
                     stops = 0 => \A f \in Families : output[f] = <<>>
              PROVE  PosixInv
  OBVIOUS
<1>1. /\ todo \in Seq(FirewallCommands) /\ IsInjective(todo) /\ InOrder(todo)
      /\ ToSet(todo) = {Command(do, f, a) : do \in Installing, f \in Families, a \in Anchors}
  BY Installation
<1>2. \A c \in ToSet(todo) : c.do \in Installing
  BY <1>1, CommandKinds
<1>3. \A do, f, a : do \notin Installing => ~Pending(Command(do, f, a))
  <2>1. \A do, f, a : Command(do, f, a).do = do
    BY CommandKinds
  <2>. QED
    BY <2>1, <1>2 DEF Pending
<1>4. Kept
  BY <1>1 DEF Kept
<1>5. MovedOnce
  BY <1>2 DEF MovedOnce, Installing, Moving
<1>6. LookedOnce
  BY <1>3 DEF LookedOnce, Installing
<1>7. ClearedFirst
  BY <1>1 DEF ClearedFirst
<1>8. Filled
  BY <1>1 DEF Filled, Pending, Installing
<1>9. Engages
  BY DEF Engages
<1>10. Agrees
  <2>. SUFFICES ASSUME stops = 0 PROVE Agrees
    BY DEF Agrees
  <2>1. \A f \in Families : output[f] = <<>> /\ IsInjective(output[f])
    BY DEF IsInjective
  <2>2. \A f \in Families : \A a : ~Jumps(f, a)
    BY <2>1 DEF Jumps
  <2>3. \A f, a : ~Pending(Command("append", f, a)) /\ ~Pending(Command("enable", f, a))
    BY <1>3 DEF Installing
  <2>4. \A f \in Families : \A a : ~WillJump(f, a)
    BY <2>2, <2>3 DEF WillJump
  <2>5. "v4" \in Families /\ "v6" \in Families
    BY DEF Families
  <2>. QED
    BY <2>1, <2>3, <2>4, <2>5 DEF Agrees
<1>. QED
  BY <1>4, <1>5, <1>6, <1>7, <1>8, <1>9, <1>10 DEF PosixInv

\* A daemon starts anew only after a stop, so that nothing is said of what is left over.
LEMMA StartsKeeps ==
    ASSUME PosixInv, DaemonStarts
    PROVE  PosixInv' /\ NoGap
<1>1. /\ ~running /\ running' /\ todo' = FirewallInstall
      /\ UNCHANGED <<chain, output, engaged, stops>>
  BY DEF DaemonStarts
<1>2. PosixTypeOK /\ ~engaged /\ stops # 0
  BY <1>1 DEF PosixInv, Kept
<1>3. PosixTypeOK'
  BY <1>1, <1>2 DEF PosixTypeOK, DaemonStarts
<1>4. ( /\ PosixTypeOK /\ todo = FirewallInstall /\ running /\ ~engaged
        /\ stops = 0 => \A f \in Families : output[f] = <<>>
        => PosixInv )'
  BY StartingInv, PTL
<1>5. FirewallInstall' = FirewallInstall
  BY DEF FirewallInstall, InstallAnchor, Command
<1>6. NoGap
  BY <1>1 DEF NoGap
<1>. QED
  BY <1>1, <1>2, <1>3, <1>4, <1>5, <1>6

\* When the daemon is gone nothing is pending and nothing is promised.
LEMMA StopsKeeps ==
    ASSUME PosixInv, DaemonStops \/ MachineRestarts
    PROVE  PosixInv' /\ NoGap
<1>1. /\ PosixTypeOK
      /\ engaged => running
      /\ ~running => todo = <<>>
      /\ stops = 0 => running
  BY DEF PosixInv, Kept
<1>2. running' = FALSE /\ engaged' = FALSE /\ todo' = <<>> /\ stops' # 0 /\ stops' \in 0..MaxStops
  <2>1. stops \in 0..MaxStops /\ engaged \in BOOLEAN /\ running \in BOOLEAN
    BY <1>1 DEF PosixTypeOK
  <2>2. CASE DaemonStops
    <3>1. running' = FALSE /\ engaged' = FALSE /\ todo' = <<>> /\ stops' = stops + 1 /\ stops < MaxStops
      BY <2>2 DEF DaemonStops
    <3>. QED
      BY <3>1, <2>1, StopsAssumption
  <2>3. CASE MachineRestarts
    <3>1. ~running /\ UNCHANGED <<todo, running, engaged, stops>>
      BY <2>3 DEF MachineRestarts
    <3>. QED
      BY <3>1, <2>1, <1>1
  <2>. QED
    BY <2>2, <2>3
<1>3. /\ chain' \in [Families -> [Anchors -> {"none", "partial", "full"}]]
      /\ output' \in [Families -> Seq(Anchors)]
  <2>1. CASE DaemonStops
    BY <2>1, <1>1 DEF DaemonStops, PosixTypeOK
  <2>2. CASE MachineRestarts
    <3>1. <<>> \in Seq(Anchors)
      OBVIOUS
    <3>. QED
      BY <2>2, <3>1 DEF MachineRestarts
  <2>. QED
    BY <2>1, <2>2
<1>4. ToSet(todo') = {} /\ DOMAIN (todo') = {} /\ IsInjective(todo') /\ todo' \in Seq(FirewallCommands)
  BY <1>2 DEF ToSet, IsInjective
<1>5. Kept'
  BY <1>2, <1>3, <1>4 DEF Kept, PosixTypeOK
<1>6. MovedOnce' /\ LookedOnce'
  BY <1>4 DEF MovedOnce, LookedOnce, Pending
<1>7. ClearedFirst'
  BY <1>4 DEF ClearedFirst, InOrder
<1>8. Filled' /\ Engages' /\ Agrees'
  BY <1>2 DEF Filled, Engages, Agrees
<1>9. NoGap
  BY <1>2 DEF NoGap
<1>. QED
  BY <1>5, <1>6, <1>7, <1>8, <1>9 DEF PosixInv

\* Every step keeps the invariant, and none opens a gap.
LEMMA StepKeeps == PosixInv /\ [PosixNext]_posixVars => PosixInv' /\ NoGap
<1>. SUFFICES ASSUME PosixInv, [PosixNext]_posixVars PROVE PosixInv' /\ NoGap
  OBVIOUS
<1>1. CASE RunsCommand
  <2>1. Looks(Head(todo)) \/ Installs(Head(todo)) \/ Moves(Head(todo))
    BY <1>1 DEF RunsCommand
  <2>. QED
    BY <2>1, <1>1, LooksKeeps, InstallsKeeps, MovesKeeps
<1>2. CASE Applies
  BY <1>2, AppliesKeeps
<1>3. CASE DaemonStops \/ MachineRestarts
  BY <1>3, StopsKeeps
<1>4. CASE DaemonStarts
  BY <1>4, StartsKeeps
<1>5. CASE UNCHANGED posixVars
  <2>1. UNCHANGED <<chain, output, todo, running, engaged, stops>>
    BY <1>5 DEF posixVars
  <2>2. Kept' /\ MovedOnce' /\ LookedOnce' /\ ClearedFirst'
    BY <2>1 DEF PosixInv, Kept, PosixTypeOK, MovedOnce, LookedOnce, ClearedFirst, Looked, Pending
  <2>3. \A k, f, a : (Pending(k)' <=> Pending(k)) /\ (Jumps(f, a)' <=> Jumps(f, a))
    BY <2>1 DEF Pending, Jumps
  <2>4. \A f, a : WillJump(f, a)' <=> WillJump(f, a)
    BY <2>3 DEF WillJump
  <2>5. Filled' /\ Engages' /\ Agrees'
    BY <2>1, <2>3, <2>4 DEF PosixInv, Filled, Engages, Agrees
  <2>6. NoGap
    BY <2>1, <2>3 DEF NoGap, Rejecting
  <2>. QED
    BY <2>2, <2>5, <2>6 DEF PosixInv
<1>. QED
  BY <1>1, <1>2, <1>3, <1>4, <1>5 DEF PosixNext

\* When nothing is pending, the settings are applied in full.
LEMMA InvApplied == PosixInv => AppliedInFull
<1>. SUFFICES ASSUME PosixInv, running, todo = <<>>
              PROVE  /\ engaged => \A f \in Families : Rejecting(f)
                     /\ ~engaged /\ stops = 0 => \A f \in Families : output[f] = <<>>
  BY DEF AppliedInFull
<1>1. \A k : ~Pending(k)
  BY DEF Pending, ToSet
<1>2. Kept /\ Filled /\ Engages /\ Agrees
  BY DEF PosixInv
<1>3. engaged => \A f \in Families : Rejecting(f)
  <2>1. "killswitch" \in Anchors
    BY DEF Anchors
  <2>. QED
    BY <2>1, <1>1, <1>2 DEF Filled, Engages, Rejecting
<1>4. ASSUME ~engaged, stops = 0, NEW f \in Families PROVE output[f] = <<>>
  <2>1. output[f] \in Seq(Anchors) /\ \A a : Jumps(f, a) <=> a \in ToSet(output[f])
    BY <1>2, JumpsIn DEF Kept
  <2>2. \A a \in Anchors : ~Jumps(f, a)
    BY <1>1, <1>2, <1>4 DEF Agrees, WillJump
  <2>3. ASSUME output[f] # <<>> PROVE FALSE
    <3>1. Len(output[f]) \in Nat /\ Len(output[f]) >= 1 /\ DOMAIN output[f] = 1..Len(output[f])
      BY <2>1, <2>3, EmptySeq, LenProperties
    <3>2. 1 \in DOMAIN output[f]
      BY <3>1
    <3>3. output[f][1] \in Anchors /\ output[f][1] \in ToSet(output[f])
      BY <2>1, <3>1, <3>2, ElementOfSeq DEF ToSet
    <3>. QED
      BY <3>3, <2>1, <2>2
  <2>. QED
    BY <2>3
<1>. QED
  BY <1>3, <1>4

-----------------------------------------------------------------------------
(* The theorems.                                                           *)

\* What is pending always completes what was asked for, wherever a daemon was killed, and
\* without a stop both families agree (firewall_install, firewall_set_anchor_enabled).
THEOREM PosixInvariance == PosixSpec => []PosixInv
<1>1. PosixInit => PosixInv
  <2>. SUFFICES ASSUME PosixInit PROVE PosixInv
    OBVIOUS
  <2>1. <<>> \in Seq(Anchors) /\ 0 \in 0..MaxStops
    BY StopsAssumption
  <2>2. PosixTypeOK
    BY <2>1 DEF PosixInit, PosixTypeOK
  <2>3. todo = FirewallInstall /\ running /\ ~engaged /\ \A f \in Families : output[f] = <<>>
    BY DEF PosixInit
  <2>. QED
    BY <2>2, <2>3, StartingInv
<1>2. PosixInv /\ [PosixNext]_posixVars => PosixInv'
  BY StepKeeps
<1>. QED
  BY <1>1, <1>2, PTL DEF PosixSpec

\* A killswitch that is wanted becomes complete and stays so until it is not wanted or the
\* daemon is killed, for any number of stops (PosixCypherDaemon::ApplyFirewallSettings).
THEOREM KillswitchIsKept == PosixSpec => KillswitchHolds
<1>1. PosixInv /\ PosixInv' /\ [PosixNext]_posixVars => [NoGap /\ AppliedInFull']_posixVars
  <2>1. PosixInv' => AppliedInFull'
    BY InvApplied, PTL
  <2>. QED
    BY <2>1, StepKeeps
<1>. QED
  BY <1>1, PosixInvariance, PTL DEF PosixSpec, KillswitchHolds

-----------------------------------------------------------------------------
(* Windows: a transaction is a loop of calls.                              *)

\* A loop of calls ends in G[n] when the i-th call leads from G[i - 1] to G[i].
LEMMA EachDone ==
    ASSUME NEW list, Len(list) \in Nat, NEW w, NEW do, NEW broken, NEW G,
           w \in G[0],
           \A i \in 1..Len(list) : \A v \in G[i - 1] : Do(v, do, list[i], broken) \in G[i]
    PROVE  DoEach(w, do, list, broken) \in G[Len(list)]
<1>. DEFINE n == Len(list)
            Next(v, i) == Do(v, do, list[i], broken)
            Runs(f, k) == f = [i \in 0..k |-> IF i = 0 THEN w ELSE Next(f[i - 1], i)]
            after == CHOOSE f : Runs(f, n)
<1>1. DoEach(w, do, list, broken) = after[n]
  BY DEF DoEach
<1>2. n \in Nat /\ w \in G[0] /\ \A i \in 1..n : \A v \in G[i - 1] : Next(v, i) \in G[i]
  OBVIOUS
<1>. HIDE DEF n, Next
<1>3. \E f : Runs(f, 0)
  <2>. DEFINE f == [i \in 0..0 |-> w]
  <2>1. Runs(f, 0)
    OBVIOUS
  <2>. QED
    BY <2>1
<1>4. ASSUME NEW k \in 1..n, NEW f, Runs(f, k - 1) PROVE \E g : Runs(g, k)
  <2>. DEFINE g == [i \in 0..k |-> IF i = k THEN Next(f[k - 1], k) ELSE f[i]]
  <2>1. ASSUME NEW i \in 0..k PROVE g[i] = IF i = 0 THEN w ELSE Next(g[i - 1], i)
    <3>1. k \in Nat /\ k > 0 /\ i \in Nat /\ i <= k
      BY <1>2
    <3>2. CASE i = 0
      <4>1. g[i] = f[0] /\ 0 \in 0..(k - 1)
        BY <3>1, <3>2
      <4>. QED
        BY <4>1, <3>2, <1>4
    <3>3. CASE i # 0 /\ i < k
      <4>1. i \in 0..(k - 1) /\ i - 1 \in 0..k /\ i - 1 # k
        BY <3>1, <3>3
      <4>2. g[i] = f[i] /\ g[i - 1] = f[i - 1]
        BY <4>1, <3>3
      <4>3. f[i] = Next(f[i - 1], i)
        BY <4>1, <3>3, <1>4
      <4>. QED
        BY <4>2, <4>3, <3>3
    <3>4. CASE i = k
      <4>1. k - 1 \in 0..k /\ k - 1 # k /\ i # 0
        BY <3>1, <3>4
      <4>2. g[k - 1] = f[k - 1] /\ g[k] = Next(f[k - 1], k)
        BY <4>1, <3>4
      <4>. QED
        BY <4>1, <4>2, <3>4
    <3>. QED
      BY <3>1, <3>2, <3>3, <3>4
  <2>2. g = [i \in 0..k |-> IF i = 0 THEN w ELSE Next(g[i - 1], i)]
    <3>. DEFINE h == [i \in 0..k |-> IF i = 0 THEN w ELSE Next(g[i - 1], i)]
    <3>1. g = [i \in 0..k |-> g[i]] /\ h = [i \in 0..k |-> h[i]]
      OBVIOUS
    <3>2. \A i \in 0..k : g[i] = h[i]
      <4>. HIDE DEF g
      <4>. QED
        BY <2>1
    <3>. HIDE DEF g, h
    <3>3. [i \in 0..k |-> g[i]] = [i \in 0..k |-> h[i]]
      BY <3>2
    <3>4. g = h
      BY <3>1, <3>3
    <3>. QED
      BY <3>4 DEF h
  <2>. QED
    BY <2>2
<1>5. \E f : Runs(f, n)
  <2>. DEFINE Bad == {k \in 1..n : ~\E f : Runs(f, k)}
  <2>1. Bad = {}
    <3>. SUFFICES ASSUME Bad # {} PROVE FALSE
      OBVIOUS
    <3>1. Bad \subseteq 1..n
      OBVIOUS
    <3>2. PICK k \in Bad : \A j \in Bad : k <= j
      <4>. HIDE DEF Bad
      <4>. QED
        BY <3>1, <1>2, FirstOne
    <3>3. k \in 1..n /\ k - 1 \notin Bad
      <4>. HIDE DEF Bad
      <4>. QED
        BY <3>1, <3>2, <1>2
    <3>4. k - 1 = 0 \/ k - 1 \in 1..n
      BY <3>3, <1>2
    <3>5. \E f : Runs(f, k - 1)
      BY <3>3, <3>4, <1>3
    <3>. QED
      BY <3>2, <3>3, <3>5, <1>4
  <2>2. n = 0 \/ n \in 1..n
    BY <1>2
  <2>. QED
    BY <2>1, <2>2, <1>3
<1>6. Runs(after, n)
  BY <1>5
<1>. HIDE DEF after
<1>7. /\ after[0] = w
      /\ \A i \in 1..n : after[i] = Next(after[i - 1], i)
  <2>1. 0 \in 0..n /\ \A i \in 1..n : i \in 0..n /\ i # 0
    BY <1>2
  <2>. QED
    BY <2>1, <1>6
<1>8. \A i \in 0..n : after[i] \in G[i]
  <2>. DEFINE Bad == {i \in 1..n : after[i] \notin G[i]}
  <2>1. Bad = {}
    <3>. SUFFICES ASSUME Bad # {} PROVE FALSE
      OBVIOUS
    <3>1. Bad \subseteq 1..n
      OBVIOUS
    <3>2. PICK k \in Bad : \A j \in Bad : k <= j
      <4>. HIDE DEF Bad
      <4>. QED
        BY <3>1, <1>2, FirstOne
    <3>3. k \in 1..n /\ k - 1 \notin Bad
      <4>. HIDE DEF Bad
      <4>. QED
        BY <3>1, <3>2, <1>2
    <3>4. k - 1 = 0 \/ k - 1 \in 1..n
      BY <3>3, <1>2
    <3>5. after[k - 1] \in G[k - 1]
      BY <3>3, <3>4, <1>2, <1>7
    <3>6. after[k] \in G[k]
      BY <3>3, <3>5, <1>2, <1>7
    <3>. QED
      BY <3>2, <3>6
  <2>2. \A i \in 0..n : i = 0 \/ i \in 1..n
    BY <1>2
  <2>. QED
    BY <2>1, <2>2, <1>2, <1>7
<1>. QED
  BY <1>1, <1>2, <1>8 DEF n

\* The works in which the daemon's keys are those of filters that are there.
Coherent ==
    {v \in [engine : SUBSET Filters, known : SUBSET Names, tracked : SUBSET Adapters,
            success : BOOLEAN, error : BOOLEAN, thrown : BOOLEAN] :
        /\ v.known = v.engine \cap Names
        /\ v.engine \cap Adapters \subseteq v.tracked}

\* The works of one call, in a transaction that found the engine at e, and those from which
\* the adapters were removed after the keys had been k.
Works(e) == {v \in Coherent : ~v.success => v.engine = e}
Cleared(k) == {v \in Coherent : v.tracked = {} /\ ~v.thrown /\ (~v.success => v.known = k)}

\* The names of filters, and the order in which they are set and removed.
Strings == {"allow_lan", "block_dns", "allow_client", "allow_daemon", "allow_openvpn",
            "allow_cypherpunk_dns", "allow_localhost", "allow_dhcp", "block"}

LEMMA FiltersAre ==
    /\ Permits \in Seq(Strings) /\ Always \in Seq(Strings) /\ Indexes \in Seq(Strings)
    /\ Len(Always) \in Nat /\ Len(Reverse(Indexes)) \in Nat
    /\ \A i \in 1..Len(Always) : Always[i] \in Names
    /\ \A i \in 1..Len(Reverse(Indexes)) : Reverse(Indexes)[i] \in Names
    /\ "allow_lan" \in Names /\ "block_dns" \in Names /\ "block" \in Names
    /\ ToSet(Permits) \cup {"block"} = {Always[i] : i \in 1..Len(Always)}
    /\ Names = {Reverse(Indexes)[i] : i \in 1..Len(Reverse(Indexes))}
<1>1. Permits \in Seq(Strings) /\ Len(Permits) = 6
  BY DEF Permits, Strings
<1>2. /\ Always \in Seq(Strings) /\ Len(Always) = 7 /\ Always[7] = "block"
      /\ \A i \in 1..6 : Always[i] = Permits[i]
  <2>1. "block" \in Strings
    BY DEF Strings
  <2>. QED
    <3>1. /\ Always \in Seq(Strings) /\ Len(Always) = Len(Permits) + 1
          /\ \A i \in 1..Len(Permits) : Always[i] = Permits[i]
          /\ Always[Len(Permits) + 1] = "block"
      <4>. DEFINE p == Permits
      <4>1. p \in Seq(Strings)
        BY <1>1
      <4>2. Always = Append(p, "block")
        BY DEF Always
      <4>. HIDE DEF p
      <4>3. /\ Append(p, "block") \in Seq(Strings) /\ Len(Append(p, "block")) = Len(p) + 1
            /\ \A i \in 1..Len(p) : Append(p, "block")[i] = p[i]
            /\ Append(p, "block")[Len(p) + 1] = "block"
        BY <2>1, <4>1, AppendProperties
      <4>. QED
        BY <4>2, <4>3 DEF p
    <3>. QED
      BY <1>1, <3>1
<1>3. ToSet(Permits) \cup {"block"} = {Always[i] : i \in 1..Len(Always)}
  <2>1. DOMAIN Permits = 1..6
    BY <1>1
  <2>2. 1..7 = 1..6 \cup {7}
    OBVIOUS
  <2>. QED
    BY <1>2, <2>1, <2>2 DEF ToSet
<1>4. /\ Indexes \in Seq(Strings) /\ Len(Indexes) = 9
      /\ Indexes[1] = "allow_lan" /\ Indexes[2] = "block_dns"
      /\ \A i \in 1..7 : Indexes[i + 2] = Always[i]
  <2>. DEFINE p == <<"allow_lan", "block_dns">>
  <2>1. p \in Seq(Strings) /\ Len(p) = 2 /\ p[1] = "allow_lan" /\ p[2] = "block_dns"
    BY DEF Strings
  <2>. HIDE DEF p
  <2>2. /\ p \o Always \in Seq(Strings) /\ Len(p \o Always) = Len(p) + Len(Always)
        /\ \A i \in 1..(Len(p) + Len(Always)) :
              (p \o Always)[i] = IF i <= Len(p) THEN p[i] ELSE Always[i - Len(p)]
    <3>1. Always \in Seq(Strings)
      BY <1>2
    <3>. QED
      BY ONLY <3>1, <2>1, ConcatProperties
  <2>3. Indexes = p \o Always
    BY DEF Indexes, p
  <2>4. \A i \in 1..7 : i + 2 \in 1..9 /\ ~(i + 2 <= 2) /\ (i + 2) - 2 = i
    OBVIOUS
  <2>5. 1 \in 1..9 /\ 2 \in 1..9 /\ 2 + 7 = 9
    OBVIOUS
  <2>6. \A i \in 1..9 : Indexes[i] = IF i <= 2 THEN p[i] ELSE Always[i - 2]
    BY <2>1, <2>2, <2>3, <2>5, <1>2
  <2>. QED
    BY <2>1, <2>2, <2>3, <2>4, <2>5, <2>6, <1>2
<1>5. /\ DOMAIN Indexes = 1..9
      /\ Len(Reverse(Indexes)) = 9
      /\ \A i \in 1..9 : Reverse(Indexes)[i] = Indexes[10 - i]
  <2>1. DOMAIN Indexes = 1..9
    BY <1>4, LenProperties
  <2>2. Reverse(Indexes) = [i \in 1..9 |-> Indexes[(9 - i) + 1]]
    BY <1>4 DEF Reverse
  <2>3. \A i \in 1..9 : (9 - i) + 1 = 10 - i
    OBVIOUS
  <2>. QED
    BY <2>1, <2>2, <2>3
<1>6. Names = {Indexes[i] : i \in 1..9}
  BY <1>5 DEF Names, ToSet
<1>7. \A i \in 1..9 : 10 - i \in 1..9 /\ 10 - (10 - i) = i
  OBVIOUS
<1>8. Names = {Reverse(Indexes)[i] : i \in 1..Len(Reverse(Indexes))}
  BY <1>5, <1>6, <1>7
<1>9. \A i \in 1..7 : Always[i] \in Names
  <2>1. \A i \in 1..7 : i + 2 \in 1..9
    OBVIOUS
  <2>. QED
    BY <2>1, <1>4, <1>6
<1>10. "allow_lan" \in Names /\ "block_dns" \in Names /\ "block" \in Names
  BY <1>2, <1>4, <1>6, <1>9
<1>. QED
  BY <1>1, <1>2, <1>3, <1>4, <1>5, <1>8, <1>9, <1>10

\* How such a work is made.
LEMMA IsCoherent ==
    ASSUME NEW E \in SUBSET Filters, NEW T \in SUBSET Adapters,
           NEW s \in BOOLEAN, NEW r \in BOOLEAN, NEW t \in BOOLEAN,
           E \cap Adapters \subseteq T
    PROVE  [engine |-> E, known |-> E \cap Names, tracked |-> T,
            success |-> s, error |-> r, thrown |-> t] \in Coherent
BY DEF Coherent

\* No call, whether it throws or not, separates the keys from the filters; TURN_ON leaves a
\* key behind unless it throws.
LEMMA CallKeepsWorks ==
    ASSUME NEW e, NEW v \in Works(e), NEW do, NEW what, NEW broken,
           \/ do \in {"on", "off"} /\ what \in Names
           \/ do \in {"add", "remove"} /\ what \in Adapters
    PROVE  /\ Do(v, do, what, broken) \in Works(e)
           /\ do = "on" /\ ~Do(v, do, what, broken).thrown =>
                 /\ ~v.thrown
                 /\ Do(v, do, what, broken).known = v.known \cup {what}
<1>. DEFINE u == Do(v, do, what, broken)
<1>1. Adapters \cap Names = {} /\ Filters = Names \cup Adapters
  BY AdaptersAssumption DEF Filters
<1>2. CASE v.thrown
  BY <1>2 DEF Do
<1>7. /\ v.engine \subseteq Filters /\ v.known \subseteq Names /\ v.tracked \subseteq Adapters
      /\ v.success \in BOOLEAN /\ v.error \in BOOLEAN /\ v.thrown \in BOOLEAN
      /\ v = [engine |-> v.engine, known |-> v.known, tracked |-> v.tracked,
              success |-> v.success, error |-> v.error, thrown |-> v.thrown]
      /\ v.known = v.engine \cap Names
      /\ v.engine \cap Adapters \subseteq v.tracked
      /\ ~v.success => v.engine = e
  BY DEF Works, Coherent
<1>3. CASE ~v.thrown /\ do = "on"
  <2>1. u = TurnOn(v, what, broken) /\ what \in Names
    BY <1>3 DEF Do
  <2>2. CASE what \in v.known
    BY <2>1, <2>2, <1>3 DEF TurnOn
  <2>3. CASE what \notin v.known /\ what = broken
    BY <2>1, <2>3, <1>3 DEF TurnOn, Throw, Works, Coherent
  <2>4. CASE what \notin v.known /\ what # broken
    <3>1. u = [engine |-> v.engine \cup {what}, known |-> v.known \cup {what}, tracked |-> v.tracked, success |-> TRUE, error |-> v.error, thrown |-> v.thrown]
      BY <2>1, <2>4, <1>7 DEF TurnOn
    <3>. QED
      BY <3>1, <2>1, <1>1, <1>3, <1>7 DEF Works, Coherent
  <2>. QED
    BY <2>2, <2>3, <2>4
<1>4. CASE ~v.thrown /\ do = "off"
  <2>1. u = TurnOff(v, what) /\ what \in Names
    BY <1>4 DEF Do
  <2>2. CASE what \notin v.known
    BY <2>1, <2>2, <1>4 DEF TurnOff
  <2>3. CASE what \in v.known
    <3>1. u = [engine |-> v.engine \ {what}, known |-> v.known \ {what}, tracked |-> v.tracked, success |-> TRUE, error |-> v.error, thrown |-> v.thrown]
      BY <2>1, <2>3, <1>7 DEF TurnOff
    <3>. QED
      BY <3>1, <2>1, <1>1, <1>4, <1>7 DEF Works, Coherent
  <2>. QED
    BY <2>2, <2>3
<1>8. CASE u = [engine |-> v.engine, known |-> v.known, tracked |-> v.tracked,
                 success |-> v.success, error |-> TRUE, thrown |-> TRUE]
  <2>1. u \in Coherent
    <3>1. v.engine \in SUBSET Filters /\ v.tracked \in SUBSET Adapters /\ TRUE \in BOOLEAN
      BY <1>7
    <3>. QED
      BY <3>1, <1>7, <1>8, IsCoherent
  <2>. QED
    BY <2>1, <1>7, <1>8 DEF Works
<1>5. CASE ~v.thrown /\ do = "add"
  <2>1. u = AddTap(v, what, broken) /\ what \in Adapters
    BY <1>5 DEF Do
  <2>2. CASE u = [engine |-> v.engine \cup {what}, known |-> v.known, tracked |-> v.tracked \cup {what},
                  success |-> TRUE, error |-> v.error, thrown |-> v.thrown]
    <3>1. /\ v.engine \cup {what} \in SUBSET Filters /\ v.tracked \cup {what} \in SUBSET Adapters
          /\ v.known = (v.engine \cup {what}) \cap Names
          /\ (v.engine \cup {what}) \cap Adapters \subseteq v.tracked \cup {what}
      BY <1>1, <1>7, <2>1
    <3>2. TRUE \in BOOLEAN /\ v.error \in BOOLEAN /\ v.thrown \in BOOLEAN
      BY <1>7
    <3>3. [engine |-> v.engine \cup {what}, known |-> (v.engine \cup {what}) \cap Names,
           tracked |-> v.tracked \cup {what},
           success |-> TRUE, error |-> v.error, thrown |-> v.thrown] \in Coherent
      BY ONLY <3>1, <3>2, IsCoherent
    <3>4. u \in Coherent
      BY <2>2, <3>1, <3>3
    <3>. QED
      BY <3>4, <2>2, <1>5 DEF Works
  <2>3. \/ u = v
        \/ u = [engine |-> v.engine, known |-> v.known, tracked |-> v.tracked,
                success |-> v.success, error |-> TRUE, thrown |-> TRUE]
        \/ u = [engine |-> v.engine \cup {what}, known |-> v.known, tracked |-> v.tracked \cup {what},
                success |-> TRUE, error |-> v.error, thrown |-> v.thrown]
    BY <2>1, <1>7 DEF AddTap, Throw
  <2>. QED
    BY <2>2, <2>3, <1>5, <1>8
<1>6. CASE ~v.thrown /\ do = "remove"
  <2>1. u = RemoveTap(v, what) /\ what \in Adapters
    BY <1>6 DEF Do
  <2>2. CASE u = [engine |-> v.engine \ {what}, known |-> v.known, tracked |-> v.tracked,
                  success |-> TRUE, error |-> v.error, thrown |-> v.thrown]
    <3>1. /\ v.engine \ {what} \in SUBSET Filters
          /\ v.known = (v.engine \ {what}) \cap Names
          /\ (v.engine \ {what}) \cap Adapters \subseteq v.tracked
      BY <1>1, <1>7, <2>1
    <3>2. TRUE \in BOOLEAN /\ v.error \in BOOLEAN /\ v.thrown \in BOOLEAN /\ v.tracked \in SUBSET Adapters
      BY <1>7
    <3>3. [engine |-> v.engine \ {what}, known |-> (v.engine \ {what}) \cap Names, tracked |-> v.tracked,
           success |-> TRUE, error |-> v.error, thrown |-> v.thrown] \in Coherent
      BY ONLY <3>1, <3>2, IsCoherent
    <3>4. u \in Coherent
      BY <2>2, <3>1, <3>3
    <3>. QED
      BY <3>4, <2>2, <1>6 DEF Works
  <2>3. \/ u = [engine |-> v.engine, known |-> v.known, tracked |-> v.tracked,
                success |-> v.success, error |-> TRUE, thrown |-> TRUE]
        \/ u = [engine |-> v.engine \ {what}, known |-> v.known, tracked |-> v.tracked,
                success |-> TRUE, error |-> v.error, thrown |-> v.thrown]
    BY <2>1, <1>7 DEF RemoveTap, Throw
  <2>. QED
    BY <2>2, <2>3, <1>6, <1>8
<1>. QED
  BY <1>2, <1>3, <1>4, <1>5, <1>6

\* TURN_OFF always finds the filter that it removes.
LEMMA CallClears ==
    ASSUME NEW k, NEW v \in Cleared(k), NEW n \in Names, NEW broken
    PROVE  /\ Do(v, "off", n, broken) \in Cleared(k)
           /\ Do(v, "off", n, broken).known = v.known \ {n}
<1>1. Adapters \cap Names = {} /\ Filters = Names \cup Adapters
  BY AdaptersAssumption DEF Filters
<1>2. Do(v, "off", n, broken) = TurnOff(v, n)
  BY DEF Do, Cleared
<1>3. CASE n \notin v.known
  BY <1>2, <1>3 DEF TurnOff
<1>4. CASE n \in v.known
  <2>1. /\ v.engine \subseteq Filters /\ v.known \subseteq Names /\ v.tracked \subseteq Adapters
        /\ v.success \in BOOLEAN /\ v.error \in BOOLEAN /\ v.thrown \in BOOLEAN
        /\ v = [engine |-> v.engine, known |-> v.known, tracked |-> v.tracked,
                success |-> v.success, error |-> v.error, thrown |-> v.thrown]
        /\ v.known = v.engine \cap Names /\ v.tracked = {} /\ ~v.thrown
        /\ v.engine \cap Adapters \subseteq v.tracked
    BY DEF Cleared, Coherent
  <2>2. Do(v, "off", n, broken) = [engine |-> v.engine \ {n}, known |-> v.known \ {n}, tracked |-> v.tracked, success |-> TRUE, error |-> v.error, thrown |-> v.thrown]
    BY <1>2, <1>4, <2>1 DEF TurnOff
  <2>3. /\ v.engine \ {n} \in SUBSET Filters
        /\ v.known \ {n} = (v.engine \ {n}) \cap Names
        /\ (v.engine \ {n}) \cap Adapters \subseteq v.tracked
    BY <2>1
  <2>4. Do(v, "off", n, broken) \in Coherent
    <3>1. v.tracked \in SUBSET Adapters /\ TRUE \in BOOLEAN /\ v.thrown \in BOOLEAN
      BY <2>1
    <3>2. [engine |-> v.engine \ {n}, known |-> (v.engine \ {n}) \cap Names, tracked |-> v.tracked,
           success |-> TRUE, error |-> v.error, thrown |-> v.thrown] \in Coherent
      BY ONLY <3>1, <2>3, <2>1, IsCoherent
    <3>. QED
      BY <3>2, <2>2, <2>3
  <2>. QED
    BY <2>1, <2>2, <2>4 DEF Cleared
<1>. QED
  BY <1>3, <1>4

\* So it is for loops of such calls.
LEMMA EachKeepsWorks ==
    ASSUME NEW e, NEW v \in Works(e), NEW do, NEW list, Len(list) \in Nat, NEW broken,
           \/ do \in {"on", "off"} /\ \A i \in 1..Len(list) : list[i] \in Names
           \/ do \in {"add", "remove"} /\ \A i \in 1..Len(list) : list[i] \in Adapters
    PROVE  /\ DoEach(v, do, list, broken) \in Works(e)
           /\ do = "on" /\ ~DoEach(v, do, list, broken).thrown =>
                 {list[i] : i \in 1..Len(list)} \subseteq DoEach(v, do, list, broken).known
<1>. DEFINE n == Len(list)
            Reached(i) == {u \in Works(e) : do = "on" /\ ~u.thrown => {list[j] : j \in 1..i} \subseteq u.known}
            G == [i \in 0..n |-> Reached(i)]
            w == DoEach(v, do, list, broken)
<1>1. n \in Nat /\ 0 \in 0..n /\ n \in 0..n /\ 1..0 = {}
  OBVIOUS
<1>2. v \in Reached(0)
  BY <1>1
<1>3. ASSUME NEW i \in 1..n, NEW u \in Reached(i - 1) PROVE Do(u, do, list[i], broken) \in Reached(i)
  <2>. DEFINE x == Do(u, do, list[i], broken)
  <2>1. u \in Works(e)
    OBVIOUS
  <2>2. /\ x \in Works(e)
        /\ do = "on" /\ ~x.thrown => ~u.thrown /\ x.known = u.known \cup {list[i]}
    <3>1. \/ do \in {"on", "off"} /\ list[i] \in Names
          \/ do \in {"add", "remove"} /\ list[i] \in Adapters
      OBVIOUS
    <3>. QED
      BY ONLY <2>1, <3>1, CallKeepsWorks
  <2>3. 1..i = 1..(i - 1) \cup {i}
    BY <1>1
  <2>. HIDE DEF x
  <2>4. ASSUME do = "on", ~x.thrown PROVE {list[j] : j \in 1..i} \subseteq x.known
    <3>1. {list[j] : j \in 1..(i - 1)} \subseteq u.known
      BY <2>2, <2>4
    <3>. QED
      BY <3>1, <2>2, <2>3, <2>4
  <2>. QED
    BY <2>2, <2>4 DEF x
<1>. HIDE DEF Reached
<1>4. \A i \in 0..n : G[i] = Reached(i)
  OBVIOUS
<1>5. \A i \in 1..n : i \in 0..n /\ i - 1 \in 0..n
  BY <1>1
<1>6. w \in G[n]
  <2>. HIDE DEF G
  <2>1. v \in G[0] /\ \A i \in 1..n : \A u \in G[i - 1] : Do(u, do, list[i], broken) \in G[i]
    BY <1>1, <1>2, <1>3, <1>4, <1>5
  <2>. QED
    BY <1>1, <2>1, EachDone
<1>7. w \in Reached(n)
  BY <1>1, <1>4, <1>6
<1>. HIDE DEF w, n
<1>. QED
  BY <1>7 DEF Reached, w, n

LEMMA EachClears ==
    ASSUME NEW k, NEW v \in Cleared(k), NEW list, Len(list) \in Nat, NEW broken,
           \A i \in 1..Len(list) : list[i] \in Names
    PROVE  /\ DoEach(v, "off", list, broken) \in Cleared(k)
           /\ DoEach(v, "off", list, broken).known \cap {list[i] : i \in 1..Len(list)} = {}
<1>. DEFINE n == Len(list)
            Reached(i) == {u \in Cleared(k) : \A j \in 1..i : list[j] \notin u.known}
            G == [i \in 0..n |-> Reached(i)]
            w == DoEach(v, "off", list, broken)
<1>1. n \in Nat /\ 0 \in 0..n /\ n \in 0..n /\ 1..0 = {}
  OBVIOUS
<1>2. v \in Reached(0)
  BY <1>1
<1>3. ASSUME NEW i \in 1..n, NEW u \in Reached(i - 1) PROVE Do(u, "off", list[i], broken) \in Reached(i)
  <2>. DEFINE x == Do(u, "off", list[i], broken)
  <2>1. u \in Cleared(k) /\ list[i] \in Names /\ \A j \in 1..(i - 1) : list[j] \notin u.known
    OBVIOUS
  <2>2. x \in Cleared(k) /\ x.known = u.known \ {list[i]}
    BY ONLY <2>1, CallClears
  <2>3. 1..i = 1..(i - 1) \cup {i}
    BY <1>1
  <2>. HIDE DEF x
  <2>4. \A j \in 1..i : list[j] \notin x.known
    BY <2>1, <2>2, <2>3
  <2>. QED
    BY <2>2, <2>4 DEF x
<1>. HIDE DEF Reached
<1>4. \A i \in 0..n : G[i] = Reached(i)
  OBVIOUS
<1>5. \A i \in 1..n : i \in 0..n /\ i - 1 \in 0..n
  BY <1>1
<1>6. w \in G[n]
  <2>. HIDE DEF G
  <2>1. v \in G[0] /\ \A i \in 1..n : \A u \in G[i - 1] : Do(u, "off", list[i], broken) \in G[i]
    BY <1>1, <1>2, <1>3, <1>4, <1>5
  <2>. QED
    BY <1>1, <2>1, EachDone
<1>7. w \in Reached(n)
  BY <1>1, <1>4, <1>6
<1>. HIDE DEF w, n
<1>. QED
  BY <1>7 DEF Reached, w, n

\* The fallback leaves nothing in the transaction's view; and when nothing counted as a
\* success, there was no filter but those of adapters.
LEMMA EverythingGoes ==
    ASSUME NEW e, NEW v \in Works(e)
    PROVE  LET w == RemoveAll(v) IN
           /\ w.engine = {} /\ w.known = {} /\ w.tracked = {}
           /\ w.success \in BOOLEAN /\ w.error \in BOOLEAN
           /\ ~w.success => e \cap Names = {}
<1>. DEFINE bare == [v EXCEPT !.engine = @ \ v.tracked, !.tracked = {}, !.thrown = FALSE,
                              !.error = @ \/ ~(v.tracked \subseteq v.engine)]
            k == e \cap Names
            list == Reverse(Indexes)
            w == RemoveAll(v)
<1>1. Adapters \cap Names = {} /\ Filters = Names \cup Adapters
  BY AdaptersAssumption DEF Filters
<1>2. /\ v.engine \subseteq Filters /\ v.known \subseteq Names /\ v.tracked \subseteq Adapters
      /\ v.success \in BOOLEAN /\ v.error \in BOOLEAN /\ v.thrown \in BOOLEAN
      /\ v = [engine |-> v.engine, known |-> v.known, tracked |-> v.tracked,
              success |-> v.success, error |-> v.error, thrown |-> v.thrown]
      /\ v.known = v.engine \cap Names
      /\ v.engine \cap Adapters \subseteq v.tracked
      /\ ~v.success => v.engine = e
  BY DEF Works, Coherent
<1>3. bare \in Cleared(k)
  <2>. DEFINE E == v.engine \ v.tracked
              r == v.error \/ ~(v.tracked \subseteq v.engine)
  <2>4. bare = [v EXCEPT !.engine = E, !.tracked = {}, !.thrown = FALSE, !.error = r]
    BY Zenon
  <2>2. E \in SUBSET Filters /\ {} \in SUBSET Adapters /\ r \in BOOLEAN /\ FALSE \in BOOLEAN
        /\ E \cap Adapters \subseteq {} /\ v.known = E \cap Names
    BY <1>1, <1>2
  <2>. HIDE DEF E, r, bare
  <2>1. bare = [engine |-> E, known |-> v.known, tracked |-> {},
                success |-> v.success, error |-> r, thrown |-> FALSE]
    BY <1>2, <2>2, <2>4
  <2>3. [engine |-> E, known |-> E \cap Names, tracked |-> {},
         success |-> v.success, error |-> r, thrown |-> FALSE] \in Coherent
    BY ONLY <2>2, <1>2, IsCoherent
  <2>. QED
    BY <2>1, <2>2, <2>3, <1>2 DEF Cleared
<1>4. w = DoEach(bare, "off", list, "none")
  BY DEF RemoveAll
<1>5. Len(list) \in Nat /\ Names = {list[i] : i \in 1..Len(list)} /\ \A i \in 1..Len(list) : list[i] \in Names
  BY FiltersAre
<1>. HIDE DEF bare, list, k, w
<1>6. w \in Cleared(k) /\ w.known \cap Names = {}
  <2>1. /\ DoEach(bare, "off", list, "none") \in Cleared(k)
        /\ DoEach(bare, "off", list, "none").known \cap {list[i] : i \in 1..Len(list)} = {}
    BY ONLY <1>3, <1>5, EachClears
  <2>. QED
    BY <2>1, <1>4, <1>5
<1>7. w.known \subseteq Names /\ w.known = w.engine \cap Names /\ w.tracked = {}
      /\ w.engine \cap Adapters \subseteq w.tracked /\ w.engine \subseteq Filters
      /\ w.success \in BOOLEAN /\ w.error \in BOOLEAN
      /\ (~w.success => w.known = k)
  BY <1>6 DEF Cleared, Coherent
<1>. QED
  BY <1>1, <1>6, <1>7 DEF w, k

\* Adapters in any order make a list of adapters.
LEMMA AdaptersInOrder ==
    ASSUME NEW S, S \subseteq Adapters, NEW list \in SetToSeqs(S)
    PROVE  Len(list) \in Nat /\ \A i \in 1..Len(list) : list[i] \in Adapters
<1>1. Cardinality(S) \in Nat
  BY AdaptersAssumption, FS_Subset, FS_CardinalityType
<1>2. list \in [1..Cardinality(S) -> S]
  BY DEF SetToSeqs
<1>. HIDE DEF SetToSeqs
<1>3. list \in Seq(S) /\ Len(list) = Cardinality(S)
  BY <1>1, <1>2
<1>. QED
  BY <1>1, <1>2, <1>3

\* The property is inductive with the types: the keys tell what the next call finds.
WinInv == WinTypeOK /\ AllOrNothing

\* A call begins with such a work.
LEMMA BeginWorks == WinInv => Begin \in Works(engine)
<1>. SUFFICES ASSUME WinInv PROVE Begin \in Works(engine)
  OBVIOUS
<1>1. engine \in SUBSET Filters /\ tracked \in SUBSET Adapters /\ FALSE \in BOOLEAN
      /\ engine \cap Adapters \subseteq tracked /\ known = engine \cap Names
  BY DEF WinInv, WinTypeOK, AllOrNothing
<1>2. Begin = [engine |-> engine, known |-> engine \cap Names, tracked |-> tracked,
               success |-> FALSE, error |-> FALSE, thrown |-> FALSE]
  BY <1>1 DEF Begin
<1>3. Begin \in Coherent
  BY <1>1, <1>2, IsCoherent
<1>. QED
  BY <1>2, <1>3 DEF Works

\* A try block that does not throw leaves a key for everything that is always set.
LEMMA EnabledWorks ==
    ASSUME WinInv, NEW lan, NEW dns, NEW here \in SetToSeqs(adapters),
           NEW gone \in SetToSeqs(tracked \ adapters), NEW broken
    PROVE  LET w == Enabled(lan, dns, here, gone, broken) IN
           /\ w \in Works(engine)
           /\ ~w.thrown => ToSet(Permits) \cup {"block"} \subseteq w.known
<1>. DEFINE lanDone == Do(Begin, IF lan THEN "on" ELSE "off", "allow_lan", broken)
            dnsDone == Do(lanDone, IF dns THEN "on" ELSE "off", "block_dns", broken)
            added == DoEach(dnsDone, "add", here, broken)
            removed == DoEach(added, "remove", gone, broken)
            w == Enabled(lan, dns, here, gone, broken)
<1>1. w = DoEach(removed, "on", Always, broken)
  BY DEF Enabled
<1>2. PICK e : e = engine
  OBVIOUS
<1>3. Begin \in Works(e)
  BY <1>2, BeginWorks
<1>4. adapters \subseteq Adapters /\ tracked \ adapters \subseteq Adapters
  BY DEF WinInv, WinTypeOK
<1>5. lanDone \in Works(e)
  BY ONLY <1>3, FiltersAre, CallKeepsWorks
<1>. HIDE DEF lanDone
<1>6. dnsDone \in Works(e)
  BY ONLY <1>5, FiltersAre, CallKeepsWorks
<1>. HIDE DEF dnsDone
<1>7. added \in Works(e)
  <2>1. Len(here) \in Nat /\ \A i \in 1..Len(here) : here[i] \in Adapters
    BY <1>4, AdaptersInOrder
  <2>. QED
    BY ONLY <2>1, <1>6, EachKeepsWorks
<1>. HIDE DEF added
<1>8. removed \in Works(e)
  <2>1. Len(gone) \in Nat /\ \A i \in 1..Len(gone) : gone[i] \in Adapters
    BY <1>4, AdaptersInOrder
  <2>. QED
    BY ONLY <2>1, <1>7, EachKeepsWorks
<1>. HIDE DEF removed
<1>9. /\ DoEach(removed, "on", Always, broken) \in Works(e)
      /\ ~DoEach(removed, "on", Always, broken).thrown =>
            {Always[i] : i \in 1..Len(Always)} \subseteq DoEach(removed, "on", Always, broken).known
  <2>1. Len(Always) \in Nat /\ \A i \in 1..Len(Always) : Always[i] \in Names
    BY FiltersAre
  <2>. QED
    BY ONLY <2>1, <1>8, EachKeepsWorks
<1>. HIDE DEF w
<1>10. w \in Works(engine) /\ (~w.thrown => ToSet(Permits) \cup {"block"} \subseteq w.known)
  BY <1>1, <1>2, <1>9, FiltersAre
<1>. QED
  BY <1>10 DEF w

\* Everything is gone, whether the transaction is committed or nothing was to be done.
LEMMA AllGone ==
    ASSUME WinInv, NEW v \in Works(engine), Finish(RemoveAll(v)), last' \in {"off", "failed"},
           UNCHANGED orphans
    PROVE  AllOrNothing' /\ engine' = {} /\ known' = {} /\ tracked' = {}
<1>1. PICK w : w = RemoveAll(v)
  OBVIOUS
<1>2. /\ w.engine = {} /\ w.known = {} /\ w.tracked = {}
      /\ ~w.success => engine \cap Names = {}
  BY <1>1, EverythingGoes
<1>3. engine' = {}
  <2>1. CASE w.success
    BY <2>1, <1>1, <1>2 DEF Finish
  <2>2. CASE ~w.success
    <3>1. engine' = engine
      BY <2>2, <1>1 DEF Finish
    <3>2. "block" \notin engine
      BY <2>2, <1>2, FiltersAre
    <3>. QED
      BY <3>1, <3>2 DEF WinInv, AllOrNothing
  <2>. QED
    BY <2>1, <2>2
<1>4. known' = {} /\ tracked' = {}
  BY <1>1, <1>2 DEF Finish
<1>. QED
  BY <1>3, <1>4 DEF WinInv, AllOrNothing, Whole

\* One step per action.
LEMMA WinStep == WinInv /\ [WinNext]_winVars => WinInv'
<1>. SUFFICES ASSUME WinInv, [WinNext]_winVars PROVE WinInv'
  OBVIOUS
<1>. USE DEF WinInv
<1>1. ASSUME TurnsOff, UNCHANGED <<orphans, adapters, firewall>> PROVE WinInv'
  <2>1. AllOrNothing' /\ engine' = {} /\ known' = {} /\ tracked' = {}
    BY <1>1, BeginWorks, AllGone DEF TurnsOff
  <2>2. RemoveAll(Begin).error \in BOOLEAN
    BY BeginWorks, EverythingGoes
  <2>. QED
    BY <1>1, <2>1, <2>2 DEF TurnsOff, WinTypeOK
<1>2. ASSUME NEW lan \in BOOLEAN, NEW dns \in BOOLEAN, NEW broken \in Filters \cup {"none"},
             NEW here \in SetToSeqs(adapters), NEW gone \in SetToSeqs(tracked \ adapters),
             TurnsOn(lan, dns, here, gone, broken), UNCHANGED <<orphans, adapters, firewall>>
      PROVE  WinInv'
  <2>1. PICK w : w = Enabled(lan, dns, here, gone, broken)
    OBVIOUS
  <2>2. w \in Works(engine) /\ (~w.thrown => ToSet(Permits) \cup {"block"} \subseteq w.known)
    BY <2>1, EnabledWorks
  <2>3. w.thrown \in BOOLEAN
    BY <2>2 DEF Works, Coherent
  <2>4. /\ Finish(IF w.thrown THEN RemoveAll(w) ELSE w)
        /\ last' = IF w.thrown THEN "failed" ELSE "on"
        /\ failure' = (failure \/ w.thrown)
    BY <1>2, <2>1 DEF TurnsOn
  <2>5. CASE w.thrown
    <3>1. AllOrNothing' /\ engine' = {} /\ known' = {} /\ tracked' = {}
      BY <1>2, <2>2, <2>4, <2>5, AllGone
    <3>. QED
      BY <1>2, <2>3, <2>4, <2>5, <3>1 DEF WinTypeOK
  <2>6. CASE ~w.thrown
    <3>1. /\ w.engine \subseteq Filters /\ w.known \subseteq Names /\ w.tracked \subseteq Adapters
          /\ w.known = w.engine \cap Names
          /\ w.engine \cap Adapters \subseteq w.tracked
          /\ ~w.success => w.engine = engine
      BY <2>2 DEF Works, Coherent
    <3>2. engine' = w.engine /\ known' = w.known /\ tracked' = w.tracked
      BY <2>4, <2>6, <3>1 DEF Finish
    <3>3. ToSet(Permits) \cup {"block"} \subseteq engine'
      BY <2>2, <2>6, <3>1, <3>2
    <3>4. WinTypeOK'
      BY <1>2, <2>3, <2>4, <2>6, <3>1, <3>2 DEF WinTypeOK
    <3>5. last' = "on" /\ UNCHANGED orphans
      BY <1>2, <2>4, <2>6
    <3>. QED
      BY <3>1, <3>2, <3>3, <3>4, <3>5 DEF AllOrNothing, Whole
  <2>. QED
    BY <2>5, <2>6
<1>3. CASE FailureHandled
  BY <1>3 DEF FailureHandled, WinTypeOK, AllOrNothing, Whole
<1>4. CASE SettingChanges
  BY <1>4 DEF SettingChanges, WinTypeOK, AllOrNothing, Whole
<1>5. CASE AdapterChanges
  BY <1>5 DEF AdapterChanges, WinTypeOK, AllOrNothing, Whole
<1>6. CASE ServiceRestarts
  <2>1. WinTypeOK'
    BY <1>6 DEF ServiceRestarts, WinTypeOK
  <2>2. Whole(orphans') /\ Whole({})
    <3>1. Whole(orphans) /\ Whole(engine)
      BY DEF AllOrNothing
    <3>2. orphans' = {} \/ orphans' = orphans \cup engine
      BY <1>6 DEF ServiceRestarts
    <3>. QED
      BY <3>1, <3>2 DEF Whole
  <2>. QED
    BY <1>6, <2>1, <2>2 DEF ServiceRestarts, AllOrNothing
<1>7. CASE UNCHANGED winVars
  BY <1>7 DEF winVars, WinTypeOK, AllOrNothing, Whole
<1>. QED
  BY <1>1, <1>2, <1>3, <1>4, <1>5, <1>6, <1>7 DEF WinNext, ApplyFirewall

\* Every ApplyFirewallSettings, every failure, every change of the adapters and every restart
\* of the service keeps the invariant (WinCypherDaemon).
THEOREM WindowsInvariance == WinSpec => []WinInv
<1>1. WinInit => WinInv
  <2>. SUFFICES ASSUME WinInit PROVE WinInv
    OBVIOUS
  <2>1. WinTypeOK
    BY DEF WinInit, WinTypeOK
  <2>2. AllOrNothing
    BY DEF WinInit, AllOrNothing, Whole
  <2>. QED
    BY <2>1, <2>2 DEF WinInv
<1>. QED
  BY <1>1, WinStep, PTL DEF WinSpec

\* The engine holds the whole killswitch or none of it, and the keys are those of its
\* filters, whatever was broken in a transaction (WinCypherDaemon::ApplyFirewallSettings).
THEOREM WindowsAllOrNothing == WinSpec => []AllOrNothing
<1>1. WinInv => AllOrNothing
  BY DEF WinInv
<1>. QED
  BY <1>1, WindowsInvariance, PTL
=============================================================================
