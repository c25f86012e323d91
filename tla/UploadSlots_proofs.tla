-------------------------- MODULE UploadSlots_proofs --------------------------
(***************************************************************************)
(* Proofs about UploadSlots for every finite set of uploads and every set  *)
(* of requested limits: the counter of the limiter is exact, no wakeup is  *)
(* lost, and the limiter implements UploadLimit.                           *)
(***************************************************************************)
EXTENDS UploadSlots, FiniteSetTheorems, TLAPS

\* What SetMaxConcurrent and NewUploadQueue store is always within 1..10.
LEMMA ClampInRange == \A n \in Int : Clamp(n) \in 1..10
BY DEF Clamp

\* Every set the limiter counts is finite.
LEMMA SubsetsFinite ==
    /\ IsFiniteSet(Holding) /\ Cardinality(Holding) \in Nat
    /\ IsFiniteSet(Woken) /\ Cardinality(Woken) \in Nat
<1>1. Holding \subseteq Jobs /\ Woken \subseteq Jobs
  BY DEF Holding, Woken
<1> QED
  BY <1>1, JobsFinite, FS_Subset, FS_CardinalityType

SlotInv == SlotTypeOK /\ ActiveCountsHolders /\ SleepersCovered

\* An idle limiter satisfies the invariant.
LEMMA SlotInvInit == SlotInit => SlotInv
<1> SUFFICES ASSUME SlotInit PROVE SlotInv
  OBVIOUS
<1>1. SlotTypeOK
  BY RequestedAreIntegers, ClampInRange DEF SlotInit, SlotTypeOK, SlotState
<1>2. Holding = {} /\ Asleep = {}
  BY DEF SlotInit, Holding, Asleep
<1>3. ActiveCountsHolders
  BY <1>2, FS_EmptySet DEF SlotInit, ActiveCountsHolders
<1> QED
  BY <1>1, <1>2, <1>3 DEF SlotInv, SleepersCovered

\* A goroutine that takes a slot joins the holders and leaves the woken.
LEMMA TakePreserves ==
    ASSUME SlotInv, NEW j \in Jobs, slot[j] \in {"idle", "woken"}, Take(j),
           UNCHANGED MaxConcurrent
    PROVE  SlotInv'
<1> USE DEF SlotInv
<1>1. SlotTypeOK'
  BY DEF SlotTypeOK, SlotState, Take
<1>2. Holding' = Holding \cup {j} /\ j \notin Holding
  BY DEF SlotTypeOK, SlotState, Take, Holding
<1>3. ActiveCountsHolders'
  BY <1>2, SubsetsFinite, FS_AddElement DEF ActiveCountsHolders, Take, SlotTypeOK
<1>4. Asleep' = Asleep
  BY DEF SlotTypeOK, SlotState, Take, Asleep
<1>5. Cardinality(Woken') + 1 >= Cardinality(Woken)
  <2>1. Woken' = Woken \ {j}
    BY DEF SlotTypeOK, SlotState, Take, Woken
  <2>2. Cardinality(Woken \ {j}) + 1 >= Cardinality(Woken)
    <3>1. Cardinality(Woken \ {j})
             = IF j \in Woken THEN Cardinality(Woken) - 1 ELSE Cardinality(Woken)
      BY SubsetsFinite, FS_RemoveElement
    <3> QED
      BY <3>1, SubsetsFinite
  <2> QED
    BY <2>1, <2>2
<1>6. SleepersCovered'
  <2>1. Cardinality(Woken)' = Cardinality(Woken') /\ Cardinality(Woken') \in Nat
    <3>1. Woken' \subseteq Jobs
      BY DEF Woken
    <3> QED
      BY <3>1, JobsFinite, FS_Subset, FS_CardinalityType
  <2> QED
    BY <1>4, <1>5, <2>1, SubsetsFinite DEF SleepersCovered, Take, SlotTypeOK
<1> QED
  BY <1>1, <1>3, <1>6

\* A goroutine goes to sleep only when the slots in use fill the limit.
LEMMA WaitPreserves ==
    ASSUME SlotInv, NEW j \in Jobs, slot[j] \in {"idle", "woken"}, Wait(j),
           UNCHANGED MaxConcurrent
    PROVE  SlotInv'
<1> USE DEF SlotInv
<1>1. SlotTypeOK'
  BY DEF SlotTypeOK, SlotState, Wait
<1>2. Holding' = Holding
  BY DEF SlotTypeOK, SlotState, Wait, Holding
<1>3. ActiveCountsHolders'
  BY <1>2 DEF ActiveCountsHolders, Wait
<1>4. Cardinality(Woken)' \in Nat
  <2>1. Woken' \subseteq Jobs
    BY DEF Woken
  <2> QED
    BY <2>1, JobsFinite, FS_Subset, FS_CardinalityType
<1>5. SleepersCovered'
  BY <1>4 DEF SleepersCovered, Wait, SlotTypeOK
<1> QED
  BY <1>1, <1>3, <1>5

\* A goroutine that gives its slot back wakes a sleeper, if there is one: what
\* the holders lose the woken gain.
LEMMA ReleasePreserves ==
    ASSUME SlotInv, NEW j \in Jobs, Release(j)
    PROVE  SlotInv'
<1> USE DEF SlotInv
<1>1. SlotTypeOK'
  BY DEF SlotTypeOK, SlotState, Release, Asleep
<1>2. Holding' = Holding \ {j} /\ j \in Holding
  BY DEF SlotTypeOK, SlotState, Release, Holding, Asleep
<1>3. ActiveCountsHolders'
  BY <1>2, SubsetsFinite, FS_RemoveElement DEF ActiveCountsHolders, Release, SlotTypeOK
<1>4. CASE Asleep = {}
  <2>1. Asleep' = {}
    BY <1>4 DEF SlotTypeOK, SlotState, Release, Asleep
  <2> QED
    BY <1>1, <1>3, <2>1 DEF SleepersCovered
<1>5. CASE Asleep # {}
  <2>1. PICK w \in Asleep : slot' = [slot EXCEPT ![j] = "released", ![w] = "woken"]
    BY <1>5 DEF Release
  <2>2. Woken' = Woken \cup {w} /\ w \notin Woken
    BY <2>1 DEF SlotTypeOK, SlotState, Woken, Asleep, Release
  <2>3. Cardinality(Woken)' = Cardinality(Woken) + 1
    BY <2>2, SubsetsFinite, FS_AddElement
  <2>4. SleepersCovered'
    BY <1>5, <2>3, SubsetsFinite DEF SleepersCovered, Release, SlotTypeOK
  <2> QED
    BY <1>1, <1>3, <2>4
<1> QED
  BY <1>4, <1>5

\* A new limit wakes everybody: nobody is left asleep.
LEMMA SetMaxPreserves ==
    ASSUME SlotInv, NEW n \in Requested, SetMaxConcurrent(n)
    PROVE  SlotInv'
<1> USE DEF SlotInv
<1>1. SlotTypeOK'
  BY RequestedAreIntegers, ClampInRange
     DEF SlotTypeOK, SlotState, SetMaxConcurrent
<1>2. Holding' = Holding /\ Asleep' = {}
  BY DEF SlotTypeOK, SlotState, SetMaxConcurrent, Holding, Asleep
<1> QED
  BY <1>1, <1>2 DEF SetMaxConcurrent, ActiveCountsHolders, SleepersCovered

\* Every critical section keeps the invariant.
LEMMA SlotInvNext == SlotInv /\ [SlotNext]_slotVars => SlotInv'
<1> SUFFICES ASSUME SlotInv, [SlotNext]_slotVars PROVE SlotInv'
  OBVIOUS
<1>1. ASSUME NEW j \in Jobs, Acquire(j) PROVE SlotInv'
  BY <1>1, TakePreserves, WaitPreserves DEF Acquire
<1>2. ASSUME NEW j \in Jobs, Release(j) PROVE SlotInv'
  BY <1>2, ReleasePreserves
<1>3. ASSUME NEW n \in Requested, SetMaxConcurrent(n) PROVE SlotInv'
  BY <1>3, SetMaxPreserves
<1>4. CASE UNCHANGED slotVars
  BY <1>4 DEF SlotInv, SlotTypeOK, ActiveCountsHolders, SleepersCovered,
              slotVars, Holding, Asleep, Woken
<1> QED
  BY <1>1, <1>2, <1>3, <1>4 DEF SlotNext

\* Slots in use and wakeups under way that fill the limit leave no slot idle.
LEMMA SleepersCoveredGivesNoIdleSlot == SlotInv => NoIdleSlot
<1> SUFFICES ASSUME SlotInv, Asleep # {}, active < MaxConcurrent, Woken = {}
             PROVE  FALSE
  BY DEF NoIdleSlot
<1>1. Cardinality(Woken) = 0
  BY FS_EmptySet
<1> QED
  BY <1>1 DEF SlotInv, SleepersCovered, SlotTypeOK

\* The inductive invariant of the limiter.
THEOREM SlotInvariant == SlotSpec => []SlotInv
<1> QED
  BY SlotInvInit, SlotInvNext, PTL DEF SlotSpec

\* Type correctness of the limiter, for any uploads and any requested limits.
THEOREM SlotTypeCorrect == SlotSpec => []SlotTypeOK
<1>1. SlotInv => SlotTypeOK
  BY DEF SlotInv
<1> QED
  BY SlotInvariant, <1>1, PTL

\* acquire and release keep UploadQueue.active equal to the number of uploads
\* between the two, whatever they and SetMaxConcurrent interleave like.
THEOREM CounterIsExact == SlotSpec => []ActiveCountsHolders
<1>1. SlotInv => ActiveCountsHolders
  BY DEF SlotInv
<1> QED
  BY SlotInvariant, <1>1, PTL

\* acquire loses no wakeup: release signals one sleeper and SetMaxConcurrent
\* all of them, so that a free slot is never left to a sleeper nobody woke.
THEOREM NoWakeupLost == SlotSpec => []NoIdleSlot
<1> QED
  BY SlotInvariant, SleepersCoveredGivesNoIdleSlot, PTL

\* The initial states are initial states of the abstract limit.
LEMMA AbstractInit == SlotInit => Limit!LimitInit
<1> SUFFICES ASSUME SlotInit PROVE Limit!LimitInit
  OBVIOUS
<1>1. MaxConcurrent \in 1..10
  BY RequestedAreIntegers, ClampInRange DEF SlotInit
<1>2. Holding = {} /\ {j \in Jobs : slot[j] = "released"} = {}
  BY DEF SlotInit, Holding
<1> QED
  BY <1>1, <1>2 DEF Limit!LimitInit

\* Every critical section is a step of the abstract limit or leaves it alone.
LEMMA AbstractNext ==
    SlotInv /\ [SlotNext]_slotVars => [Limit!LimitNext]_(Limit!limitVars)
<1> SUFFICES ASSUME SlotInv, [SlotNext]_slotVars
             PROVE  [Limit!LimitNext]_(Limit!limitVars)
  OBVIOUS
<1> DEFINE released == {k \in Jobs : slot[k] = "released"}
<1> USE DEF SlotInv, SlotTypeOK, SlotState
<1>1. ASSUME NEW j \in Jobs, Acquire(j), Take(j) PROVE Limit!Start(j)
  <2>1. Holding' = Holding \cup {j} /\ j \notin Holding
    BY <1>1 DEF Acquire, Take, Holding
  <2>2. released' = released /\ j \notin released
    BY <1>1 DEF Acquire, Take
  <2>3. Cardinality(Holding) < MaxConcurrent /\ MaxConcurrent' = MaxConcurrent
    BY <1>1 DEF Acquire, Take, ActiveCountsHolders
  <2>4. Limit!Cardinality(Holding) = Cardinality(Holding)
    BY DEF Limit!Cardinality, Cardinality
  <2> QED
    BY <2>1, <2>2, <2>3, <2>4 DEF Limit!Start
<1>2. ASSUME NEW j \in Jobs, Acquire(j), Wait(j) PROVE UNCHANGED Limit!limitVars
  <2>1. Holding' = Holding /\ released' = released
    BY <1>2 DEF Acquire, Wait, Holding
  <2> QED
    BY <1>2, <2>1 DEF Acquire, Limit!limitVars
<1>3. ASSUME NEW j \in Jobs, Release(j) PROVE Limit!Finish(j)
  <2>1. Holding' = Holding \ {j} /\ j \in Holding
    BY <1>3 DEF Release, Holding, Asleep
  <2>2. released' = released \cup {j}
    BY <1>3 DEF Release, Asleep
  <2> QED
    BY <1>3, <2>1, <2>2 DEF Release, Limit!Finish
<1>4. ASSUME NEW n \in Requested, SetMaxConcurrent(n)
      PROVE  Limit!ChangeLimit(Clamp(n)) /\ Clamp(n) \in 1..10
  <2>1. Holding' = Holding /\ released' = released
    BY <1>4 DEF SetMaxConcurrent, Holding, Asleep
  <2> QED
    BY <1>4, <2>1, RequestedAreIntegers, ClampInRange
       DEF SetMaxConcurrent, Limit!ChangeLimit
<1>5. CASE UNCHANGED slotVars
  BY <1>5 DEF slotVars, Holding, Limit!limitVars
<1> QED
  BY <1>1, <1>2, <1>3, <1>4, <1>5 DEF SlotNext, Acquire, Limit!LimitNext

\* The mutex-and-condition code implements the abstract limit: no transfer
\* starts while the limit in force is reached.
THEOREM LimiterImplementsLimit == SlotSpec => LimitRespected
<1> QED
  BY SlotInvariant, AbstractInit, AbstractNext, PTL
     DEF SlotSpec, LimitRespected, Limit!LimitSpec

================================================================================
