------------------------------ MODULE UploadSlots ------------------------------
(***************************************************************************)
(* The concurrency limiter of internal/sftp/upload.go: UploadQueue's       *)
(* MaxConcurrent and active, guarded by limitMu, and the condition         *)
(* variable the uploads wait on.                                           *)
(*                                                                         *)
(* Each upload is one goroutine (an HTTP handler inside Upload).  An       *)
(* action is one critical section of limitMu: cond.Wait releases limitMu   *)
(* and puts the goroutine to sleep in one step, and a goroutine that a     *)
(* Signal or a Broadcast has woken competes for limitMu with every         *)
(* newcomer and tests the limit again.                                     *)
(***************************************************************************)
EXTENDS Integers, FiniteSets

CONSTANTS
    Jobs,       \* identities of the uploads
    Requested   \* the values callers pass to NewUploadQueue and SetMaxConcurrent

ASSUME JobsFinite == IsFiniteSet(Jobs)
ASSUME RequestedAreIntegers == Requested # {} /\ Requested \subseteq Int

VARIABLES
    MaxConcurrent,  \* q.MaxConcurrent
    active,         \* q.active
    slot            \* where each upload's goroutine is in acquire/release

slotVars == <<MaxConcurrent, active, slot>>

SlotState == {"idle", "asleep", "woken", "holding", "released"}

Holding == {j \in Jobs : slot[j] = "holding"}
Asleep  == {j \in Jobs : slot[j] = "asleep"}
Woken   == {j \in Jobs : slot[j] = "woken"}

\* A requested limit outside 1..10 falls back to the default of 3.
Clamp(n) == IF n \in 1..10 THEN n ELSE 3

SlotInit ==
    /\ \E n \in Requested : MaxConcurrent = Clamp(n)
    /\ active = 0
    /\ slot = [j \in Jobs |-> "idle"]

--------------------------------------------------------------------------------
(* acquire: a newcomer or a woken goroutine holds limitMu and tests the    *)
(* limit; it takes a slot or goes (back) to sleep on the condition.        *)

TakeOffByOne(j) ==
    /\ active <= MaxConcurrent
    /\ active' = active + 1
    /\ slot' = [slot EXCEPT ![j] = "holding"]

Take(j) ==
    /\ active < MaxConcurrent
    /\ active' = active + 1
    /\ slot' = [slot EXCEPT ![j] = "holding"]

Wait(j) ==
    /\ active >= MaxConcurrent
    /\ slot' = [slot EXCEPT ![j] = "asleep"]
    /\ UNCHANGED active

Acquire(j) ==
    /\ slot[j] \in {"idle", "woken"}
    /\ Take(j) \/ Wait(j)
    /\ UNCHANGED MaxConcurrent

\* A release that signals but does not count down.
ReleaseWithoutCount(j) ==
    /\ slot[j] = "holding"
    /\ \/ /\ Asleep = {}
          /\ slot' = [slot EXCEPT ![j] = "released"]
       \/ \E w \in Asleep :
             slot' = [slot EXCEPT ![j] = "released", ![w] = "woken"]
    /\ UNCHANGED <<active, MaxConcurrent>>

\* A release that frees the slot but signals nobody.
ReleaseWithoutSignal(j) ==
    /\ slot[j] = "holding"
    /\ active' = active - 1
    /\ slot' = [slot EXCEPT ![j] = "released"]
    /\ UNCHANGED MaxConcurrent

\* release: give the slot back and signal one sleeper, if there is one.
Release(j) ==
    /\ slot[j] = "holding"
    /\ active' = active - 1
    /\ \/ /\ Asleep = {}
          /\ slot' = [slot EXCEPT ![j] = "released"]
       \/ \E w \in Asleep :
             slot' = [slot EXCEPT ![j] = "released", ![w] = "woken"]
    /\ UNCHANGED MaxConcurrent

\* A limit change that wakes no sleeper.
SetMaxConcurrentQuietly(n) ==
    /\ MaxConcurrent' = Clamp(n)
    /\ UNCHANGED <<active, slot>>

\* SetMaxConcurrent: the new limit, and a Broadcast to every sleeper.
SetMaxConcurrent(n) ==
    /\ MaxConcurrent' = Clamp(n)
    /\ slot' = [j \in Jobs |-> IF j \in Asleep THEN "woken" ELSE slot[j]]
    /\ UNCHANGED active

SlotNext ==
    \/ \E j \in Jobs : Acquire(j) \/ Release(j)
    \/ \E n \in Requested : SetMaxConcurrent(n)

SlotSpec == SlotInit /\ [][SlotNext]_slotVars

--------------------------------------------------------------------------------
(* Properties *)

\* Every variable of the limiter has its type.
SlotTypeOK ==
    /\ MaxConcurrent \in 1..10
    /\ active \in Int
    /\ slot \in [Jobs -> SlotState]

\* The counter that acquire and release maintain is the number of uploads
\* between their acquire and their release.
ActiveCountsHolders == active = Cardinality(Holding)

\* The strengthening that makes NoIdleSlot inductive: as long as somebody
\* sleeps, the slots in use and the goroutines already woken but not yet
\* rescheduled fill the limit between them.
SleepersCovered == Asleep # {} => active + Cardinality(Woken) >= MaxConcurrent

\* No lost wakeup: whenever a slot is free and an upload sleeps in acquire,
\* some sleeper has been woken and is on its way to test the limit again.
NoIdleSlot == (Asleep # {} /\ active < MaxConcurrent) => Woken # {}

\* The limiter implements the abstract limit.
Limit == INSTANCE UploadLimit WITH
    Limits    <- 1..10,
    limit     <- MaxConcurrent,
    uploading <- Holding,
    finished  <- {j \in Jobs : slot[j] = "released"}

LimitRespected == Limit!LimitSpec

================================================================================
