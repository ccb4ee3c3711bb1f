----------------------------- MODULE Transition -----------------------------
(***************************************************************************)
(* TransitionGroup (client/src/web/components/Transition.js): children     *)
(* that come and go with a CSS transition.  A child that is removed stays  *)
(* until its "leave" transition has run; one transition of a child runs at *)
(* a time, and the next one is pending.                                    *)
(*                                                                         *)
(* A child is its key, and children that are null are left out.  The       *)
(* "appear" transitions of the constructor are not here: componentWillMount*)
(* runs after it and empties the queue that they are in.                   *)
(***************************************************************************)
EXTENDS Naturals, SequencesExt

CONSTANT Children  \* keys

ASSUME ChildrenAssumption == IsFiniteSet(Children)

VARIABLES
    target,    \* this.props.children, in order
    shown,     \* the keys of this.state.children, in order
    current,   \* this.currentTransitions; each has its timeout armed
    pending,   \* this.pendingTransitions
    thisFrame, \* this.thisFrameCallbacks
    nextFrame, \* this.nextFrameCallbacks
    frame      \* this.nextFrameRequested

groupVars == <<target, shown, current, pending, thisFrame, nextFrame, frame>>

\* What React.Children can be: keys in some order, each once.
ChildLists == SetToAllKPermutations(Children)
NoTransition == [k \in Children |-> "none"]

TransitionTypeOK ==
    /\ target \in ChildLists
    /\ shown \in Seq(Children) /\ IsInjective(shown)
    /\ current \in [Children -> {"none", "enter", "leave"}]
    /\ pending \in [Children -> {"none", "enter", "leave"}]
    /\ thisFrame \subseteq ToSet(shown) /\ nextFrame \subseteq ToSet(shown)
    /\ frame \in BOOLEAN

TransitionInit ==
    /\ target \in ChildLists
    /\ shown = target
    /\ current = NoTransition
    /\ pending = NoTransition
    /\ thisFrame = {}
    /\ nextFrame = {}
    /\ frame = FALSE

-----------------------------------------------------------------------------
\* The keys of list that are in keys, in the order of list.
Only(list, keys) ==
    LET kept[i \in 0..Len(list)] ==
          IF i = 0 THEN <<>>
          ELSE IF list[i] \in keys THEN Append(kept[i - 1], list[i]) ELSE kept[i - 1]
    IN  kept[Len(list)]

\* Keys that only prev has: those from which k is the first key ahead that next has, too,
\* and those that have none ahead.
Skips(prev, next, from, to) == \A i \in from..to : prev[i] \notin ToSet(next)
Preceding(prev, next, k) ==
    {prev[j] : j \in {j \in DOMAIN prev :
        \E i \in DOMAIN prev : j < i /\ prev[i] = k /\ Skips(prev, next, j, i - 1)}}
Trailing(prev, next) ==
    {prev[j] : j \in {j \in DOMAIN prev : Skips(prev, next, j, Len(prev))}}

\* mergeChildMappings: what only prev has keeps its place among what both have.
MergeChildMappings(prev, next) ==
    LET merged[n \in 0..Len(next)] ==
          IF n = 0 THEN <<>>
          ELSE merged[n - 1] \o Append(Only(prev, Preceding(prev, next, next[n])), next[n])
    IN  merged[Len(next)] \o Only(prev, Trailing(prev, next))

\* Mutant: a child that is leaving counts as present.
PresentUnlessPending(k) == k \in ToSet(shown) /\ pending[k] # "leave"

\* effectivelyPresent, from the current and the pending transition of k.
EffectivelyPresent(k) ==
    /\ k \in ToSet(shown)
    /\ IF current[k] = "leave" THEN pending[k] = "enter" ELSE pending[k] # "leave"

\* A child that was scheduled to come or go and is back where it was skips
\* the transition, any other change makes one pending.
Scheduled(children, k) ==
    CASE k \in children /\ ~EffectivelyPresent(k) ->
            IF pending[k] = "leave" THEN "none" ELSE "enter"
      [] k \notin children /\ EffectivelyPresent(k) ->
            IF pending[k] = "enter" THEN "none" ELSE "leave"
      [] OTHER -> pending[k]

\* performPendingTransitions, for the transitions cur and pend: those of
\* children without one are started, and will get their active class.
Started(cur, pend) == {k \in Children : pend[k] # "none" /\ cur[k] = "none"}
Perform(cur, pend) ==
    /\ current' = [k \in Children |-> IF k \in Started(cur, pend) THEN pend[k] ELSE cur[k]]
    /\ pending' = [k \in Children |-> IF k \in Started(cur, pend) THEN "none" ELSE pend[k]]

\* New props, with transitions for the children in named and none for others,
\* which take effect at once; then render and componentDidUpdate.
ReceiveProps(children, named) ==
    LET merged == MergeChildMappings(shown, children)
        scheduled == [k \in Children |-> Scheduled(ToSet(children), k)]
        immediate == {k \in ToSet(merged) : current[k] = "none" /\ k \notin named}
        left == [k \in Children |-> IF k \in immediate THEN "none" ELSE scheduled[k]]
        started == Started(current, left)
    IN
    /\ target' = children
    /\ shown' = Only(merged, {k \in Children : k \notin immediate \/ scheduled[k] # "leave"})
    /\ Perform(current, left)
    /\ thisFrame' = thisFrame \intersect ToSet(shown')
    /\ nextFrame' = (nextFrame \intersect ToSet(shown')) \union started
    /\ frame' = (frame \/ started # {})

\* The timeout of a transition: the pending one follows in the next frame, and
\* a child that has left is removed.
TransitionEnds(k) ==
    LET ended == [current EXCEPT ![k] = "none"]
        started == Started(ended, pending)
    IN
    /\ current[k] # "none"
    /\ \/ /\ pending[k] # "none"
          /\ current' = ended
          /\ nextFrame' = nextFrame \union {k}
          /\ frame' = TRUE
          /\ UNCHANGED <<shown, pending, thisFrame>>
       \/ /\ pending[k] = "none" /\ current[k] = "enter"
          /\ current' = ended
          /\ UNCHANGED <<shown, pending, thisFrame, nextFrame, frame>>
       \/ /\ pending[k] = "none" /\ current[k] = "leave"
          /\ shown' = Only(shown, Children \ {k})
          /\ Perform(ended, pending)
          /\ thisFrame' = thisFrame \ {k}
          /\ nextFrame' = (nextFrame \ {k}) \union started
          /\ frame' = (frame \/ started # {})
    /\ UNCHANGED target

\* onFrame: a callback runs in the second frame after it was queued.
OnFrame ==
    /\ frame
    /\ thisFrame' = nextFrame
    /\ Perform(current, pending)
    /\ nextFrame' = Started(current, pending)
    /\ frame' = (thisFrame' \union nextFrame' # {})
    /\ UNCHANGED <<target, shown>>

TransitionNext ==
    \/ \E children \in ChildLists, named \in SUBSET Children : ReceiveProps(children, named)
    \/ \E k \in Children : TransitionEnds(k)
    \/ OnFrame

TransitionSpec == TransitionInit /\ [][TransitionNext]_groupVars

-----------------------------------------------------------------------------
\* A child that should be there is there, in its place, and is not on its way
\* out, whatever was interrupted half-way by later changes of the children.
TargetKept ==
    /\ Only(shown, ToSet(target)) = target
    /\ \A k \in ToSet(target) :
          pending[k] # "leave" /\ (current[k] = "leave" => pending[k] = "enter")

\* Comment of componentWillReceiveProps: the children are the "target set of
\* children that we should be transitioning towards".
ChildrenSettle ==
    (current = NoTransition /\ pending = NoTransition /\ ~frame) => ToSet(shown) = ToSet(target)
=============================================================================
