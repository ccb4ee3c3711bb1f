----------------------------- MODULE PartsProofs -----------------------------
(***************************************************************************)
(* The instance MCDaemonParts: a behaviour of it is one of every part, so  *)
(* that what was proved of the parts one by one holds where they are       *)
(* checked together.                                                       *)
(***************************************************************************)
EXTENDS MCDaemonParts, PingerProofs, OpenVPNProofs, FirewallProofs

\* A round that is over keeps the books of one that has just begun (Done).
LEMMA PingerOverInv == ASSUME PingerOver PROVE PingerInv
<1>. USE PingerAssumption
<1>1. PingerTypeOK
  <2>1. <<>> \in Seq(Destinations) /\ 1 \in 1..(N + 1)
    BY EmptySeq
  <2>2. /\ called \in BOOLEAN /\ globalTimer \in BOOLEAN /\ inFlight \in Nat
        /\ {} \in SUBSET Nat /\ 0 \in Nat
    BY DEF PingerOver
  <2>. QED
    BY <2>1, <2>2 DEF PingerOver, PingerTypeOK
<1>2. \A d \in Destinations : d \in Nat /\ d >= 1 /\ Unsent(d) = 0 /\ Cardinality({}) = 0
  BY BehindNone, FS_EmptySet DEF PingerOver, Unsent, Behind, Destinations
<1>3. OneWrite /\ (inFlight = 1 => writeQueue # <<>>)
  BY DEF PingerOver, OneWrite
<1>4. PingsAccounted
  BY <1>2 DEF PingerOver, PingsAccounted, ResultsLeadOn, RepliesMatch, Aborted
<1>5. TimeoutsOfSent
  BY DEF PingerOver, TimeoutsOfSent, Results
<1>6. StepsAhead
  BY <1>2 DEF PingerOver, StepsAhead
<1>. QED
  BY <1>1, <1>3, <1>4, <1>5, <1>6 DEF PingerInv

\* Each step is one of the part whose behaviour it is, and no step of the others.
LEMMA PartsStep ==
    ASSUME [PartsNext]_partsVars
    PROVE  /\ [PingerNext]_pingerVars
           /\ [RoundsNext]_roundsVars
           /\ [PosixNext]_posixVars
           /\ [WinNext]_winVars
           /\ [ProcessNext]_processVars
<1>1. CASE PartsNext
  BY <1>1 DEF PartsNext
<1>2. CASE UNCHANGED partsVars
  BY <1>2 DEF partsVars
<1>. QED
  BY <1>1, <1>2

\* The rounds, both firewalls and the management of a process are each in the instance what
\* they are alone, whatever the other parts do.
THEOREM PartsImplement == PartsSpec => RoundsSpec /\ PosixSpec /\ WinSpec /\ ProcessSpec
<1>1. PartsInit => RoundsInit /\ PosixInit /\ WinInit /\ ProcessInit
  BY DEF PartsInit
<1>2. [PartsNext]_partsVars =>
         /\ [RoundsNext]_roundsVars /\ [PosixNext]_posixVars
         /\ [WinNext]_winVars /\ [ProcessNext]_processVars
  BY PartsStep
<1>. QED
  BY <1>1, <1>2, PTL DEF PartsSpec, RoundsSpec, PosixSpec, WinSpec, ProcessSpec

\* A round keeps its invariant in the instance, whether it runs or is over.
THEOREM RoundInParts == PartsSpec => []PingerInv
<1>1. PartsInit => PingerInv
  BY PingerInitInv, PingerOverInv DEF PartsInit
<1>2. PingerInv /\ [PartsNext]_partsVars => PingerInv'
  BY PartsStep, PingerStepInv
<1>. QED
  BY <1>1, <1>2, PTL DEF PartsSpec

\* Every variable of the parts keeps its type.
THEOREM PartsTypeCorrect == PartsSpec => []PartsTypeOK
<1>1. PingerInv /\ RoundsInv /\ PosixInv /\ WinInv /\ ProcessInv => PartsTypeOK
  BY DEF PartsTypeOK, PingerInv, RoundsInv, PosixInv, Kept, WinInv, ProcessInv
<1>. QED
  BY <1>1, PartsImplement, RoundInParts, RoundsInvariance, PosixInvariance, WindowsInvariance,
     ProcessInvariance, PTL

\* What the run checks of the instance as a whole: the books and the queue of a round, the
\* timer of the next one, both killswitches and the commands of a process.
THEOREM PartsPromise ==
    PartsSpec =>
        /\ [](PingsAccounted /\ OneWrite /\ NoDestinationStalls)
        /\ [](PingingGoesOn /\ RoundFlagsAgree)
        /\ []AllOrNothing
        /\ KillswitchHolds
        /\ Channel!ChannelInit /\ [][Channel!ChannelNext]_(Channel!channelVars)
<1>1. PingerInv => PingsAccounted /\ OneWrite
  BY DEF PingerInv
<1>. QED
  BY <1>1, StepIsAhead, PartsImplement, RoundInParts, PingsGoOn, RoundFlagsTell, WindowsAllOrNothing,
     KillswitchIsKept, CommandsInOrder, PTL
=============================================================================
