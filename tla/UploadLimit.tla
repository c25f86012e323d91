------------------------------ MODULE UploadLimit ------------------------------
(***************************************************************************)
(* What the upload queue promises to everyone else: at any moment a set of *)
(* uploads is being transferred, and none starts while the limit that is   *)
(* in force is already reached.  Lowering the limit stops no transfer, so  *)
(* the set may stay larger than the limit for a while; it then only        *)
(* shrinks.  UploadSlots is the mutex-and-condition-variable code that is  *)
(* meant to implement this.                                                *)
(***************************************************************************)
EXTENDS Integers, FiniteSets

CONSTANTS
    Jobs,      \* identities of the uploads
    Limits     \* the values the limit can take

VARIABLES
    limit,     \* how many uploads may be transferred at the same time
    uploading, \* the uploads being transferred
    finished   \* the uploads whose transfer is over

limitVars == <<limit, uploading, finished>>

LimitInit ==
    /\ limit \in Limits
    /\ uploading = {}
    /\ finished = {}

\* A transfer starts only while there is room for it.
Start(j) ==
    /\ j \notin uploading \cup finished
    /\ Cardinality(uploading) < limit
    /\ uploading' = uploading \cup {j}
    /\ UNCHANGED <<limit, finished>>

Finish(j) ==
    /\ j \in uploading
    /\ uploading' = uploading \ {j}
    /\ finished' = finished \cup {j}
    /\ UNCHANGED limit

ChangeLimit(n) ==
    /\ limit' = n
    /\ UNCHANGED <<uploading, finished>>

LimitNext ==
    \/ \E j \in Jobs : Start(j) \/ Finish(j)
    \/ \E n \in Limits : ChangeLimit(n)

LimitSpec == LimitInit /\ [][LimitNext]_limitVars

================================================================================
