------------------------- MODULE UploadPipeline_proofs -------------------------
(***************************************************************************)
(* What UploadSlots_proofs shows of the limiter alone holds inside the     *)
(* whole upload pipeline: every step of the browser, the handlers, the hub *)
(* and the sockets is a step of the limiter or leaves it alone.  Then the  *)
(* page's side, for any files, connections and buffers: the browser counts *)
(* its POSTs exactly and keeps its slots busy, the hub forgets its jobs,   *)
(* and what is shown as uploading will be told the end or has lost it.     *)
(***************************************************************************)
EXTENDS UploadPipeline, UploadSlots_proofs, SequenceTheorems, WellFoundedInduction

\* A step of the pipeline is a step of its limiter or leaves it alone.
LEMMA PipelineStepsAreLimiterSteps == [Next]_vars => [SlotNext]_slotVars
<1> SUFFICES ASSUME [Next]_vars PROVE [SlotNext]_slotVars
  OBVIOUS
<1>1. ASSUME NEW i \in Jobs, NEW c \in Conns, Enqueue(i, c)
      PROVE  UNCHANGED slotVars
  BY <1>1 DEF Enqueue
<1>2. ASSUME NEW c \in Conns, EnqueueTreeBegins(c) \/ OpenSocket(c)
      PROVE  UNCHANGED slotVars
  BY <1>2 DEF EnqueueTreeBegins, OpenSocket
<1>3. ASSUME NEW i \in Jobs,
             \/ ReplyArrives(i) \/ RejectPost(i) \/ RegisterJob(i)
             \/ BeginTransfer(i) \/ ReportProgress(i)
             \/ EndTransfer(i, "done") \/ EndTransfer(i, "error")
      PROVE  UNCHANGED slotVars
  BY <1>3 DEF ReplyArrives, RejectPost, RegisterJob, BeginTransfer,
              ReportProgress, EndTransfer
<1>4. ASSUME NEW i \in Jobs, AcquireSlot(i) PROVE Acquire(i)
  BY <1>4 DEF AcquireSlot
<1>5. ASSUME NEW i \in Jobs, ReleaseSlot(i) PROVE Release(i)
  BY <1>5 DEF ReleaseSlot
<1>6. ASSUME NEW n \in Requested, SettingsReachServer(n) PROVE SetMaxConcurrent(n)
  BY <1>6 DEF SettingsReachServer
<1>7. ASSUME SettingsReachBrowser \/ UpdateFromWS \/ ClearCompleted
             \/ HandleProgress \/ CloseSocket
      PROVE  UNCHANGED slotVars
  BY <1>7 DEF SettingsReachBrowser, UpdateFromWS, ClearCompleted, HandleProgress,
              CloseSocket
<1>8. CASE UNCHANGED vars
  BY <1>8 DEF vars
<1> QED
  BY <1>1, <1>2, <1>3, <1>4, <1>5, <1>6, <1>7, <1>8 DEF Next, SlotNext

\* The upload pipeline drives the limiter only through its own operations.
THEOREM PipelineUsesLimiter == Spec => SlotSpec
<1>1. Init => SlotInit
  BY DEF Init
<1> QED
  BY <1>1, PipelineStepsAreLimiterSteps, PTL DEF Spec, SlotSpec

\* In the whole pipeline, for any number of files, connections and sockets, the
\* server never transfers more files than its limit allowed when each started.
THEOREM PipelineRespectsLimit == Spec => LimitRespected
<1> QED
  BY PipelineUsesLimiter, LimiterImplementsLimit, PTL

\* No upload handler sleeps beside a free slot, whatever browsers and settings
\* requests do.
THEOREM PipelineLosesNoWakeup == Spec => []NoIdleSlot
<1> QED
  BY PipelineUsesLimiter, NoWakeupLost, PTL

--------------------------------------------------------------------------------
(* The inductive invariant of the browser's queue and of the events *)

Ended == {"ok", "failed", "replyOK", "replyFailed", "settled"}

\* The types, but for the counter: that it is in range follows from its value.
PipeTypes ==
    /\ queue \in Seq(Jobs)
    /\ status \in [Jobs -> ItemStatus]
    /\ browserMax \in 1..10
    /\ lastConnId \in Conns \cup {NoConn}
    /\ settings \in Requested \cup {NoLimit}
    /\ target \in [Jobs -> Conns \cup {NoConn}]
    /\ postedTo \in [Jobs -> Conns \cup {NoConn}]
    /\ request \in [Jobs -> RequestState]
    /\ progressCh \in Seq(Event) /\ Len(progressCh) <= ChanCap
    /\ hubJobs \in [Jobs -> Conns \cup {NoConn}]
    /\ wsConn \in Conns \cup {NoConn}
    /\ link \in Seq(Event) /\ Len(link) <= LinkCap
    /\ lost \subseteq Jobs /\ dropped \subseteq lost

Distinct(q) == \A x, y \in 1..Len(q) : q[x] = q[y] => x = y

Among(i, q) == \E x \in 1..Len(q) : q[x] = i

\* A file is in the queue once, its POST is not sent before it is taken from the
\* pending ones, and no file is pending before a connection is known.
QueueInv ==
    /\ Distinct(queue)
    /\ \A i \in Jobs : status[i] = "new" => ~Among(i, queue)
    /\ \A i \in Jobs : status[i] = "pending" => Among(i, queue) /\ lastConnId # NoConn
    /\ \A i \in Jobs : request[i] = "none" <=> status[i] \in {"new", "pending"}
    /\ BrowserKeepsSlotsBusy

\* An event that ends i's job is in s behind position x.
ToldAfter(i, s, x) == \E y \in 1..Len(s) : y > x /\ s[y].job = i /\ s[y].status # "uploading"

\* Events come from jobs that have begun.
EventsFit ==
    /\ \A x \in 1..Len(progressCh) :
          request[progressCh[x].job] \notin {"none", "posted", "registered"}
    /\ \A x \in 1..Len(link) :
          request[link[x].job] \notin {"none", "posted", "registered"}

\* Once a job is over, a progress message under way has the job's last event behind
\* it, unless that was lost.
LastEventIsLast ==
    /\ \A x \in 1..Len(progressCh) :
          LET i == progressCh[x].job
          IN  progressCh[x].status = "uploading" /\ request[i] \in Ended
                => i \in lost \/ ToldAfter(i, progressCh, x)
    /\ \A x \in 1..Len(link) :
          LET i == link[x].job
          IN  link[x].status = "uploading" /\ request[i] \in Ended
                => i \in lost \/ ToldAfter(i, link, x) \/ ToldAfter(i, progressCh, 0)

\* An entry of the hub is made by the POST, and goes with the last event.
HubInv ==
    \A i \in Jobs :
        hubJobs[i] # NoConn =>
            /\ request[i] \notin {"none", "posted"}
            /\ request[i] \in Ended => i \in dropped \/ ToldAfter(i, progressCh, 0)

ShownInv ==
    \A i \in Jobs :
        status[i] = "uploading" /\ request[i] = "settled" =>
            i \in lost \/ ToldAfter(i, progressCh, 0) \/ ToldAfter(i, link, 0)

EventInv == EventsFit /\ LastEventIsLast /\ HubInv /\ ShownInv

PipeInv == PipeTypes /\ QueueInv /\ EventInv

--------------------------------------------------------------------------------
(* processQueue *)

\* A set of positions that is not empty has a first one.
LEMMA FirstPosition ==
  ASSUME NEW T \in SUBSET Nat, T # {}
  PROVE  \E m \in T : \A k \in T : m <= k
<1>1. PICK m \in T : \A k \in T : <<k, m>> \notin OpToRel(<, Nat)
  BY WFMin, NatLessThanWellFounded, Zenon
<1>2. \A k \in T : ~ (k < m)
  BY <1>1, Zenon DEF OpToRel
<1>3. QED
  BY <1>2

\* The first n of some positions are n of them, unless there are fewer.
LEMMA FirstOfCount ==
  ASSUME NEW P \in SUBSET Nat, IsFiniteSet(P), NEW n \in Int, P \ FirstOf(P, n) # {}
  PROVE  Cardinality(FirstOf(P, n)) >= n
<1> DEFINE Before(x) == {y \in P : y < x}
<1>1. PICK x \in P \ FirstOf(P, n) : \A y \in P \ FirstOf(P, n) : x <= y
  BY FirstPosition
<1>2. Before(x) \subseteq FirstOf(P, n)
  <2>1. \A y \in P : y < x => y \in FirstOf(P, n)
    BY <1>1
  <2>2. QED
    BY <2>1
<1>3. IsFiniteSet(FirstOf(P, n)) /\ IsFiniteSet(Before(x))
  BY FS_Subset DEF FirstOf
<1>4. Cardinality(Before(x)) \in Nat /\ Cardinality(FirstOf(P, n)) \in Nat
  BY <1>3, FS_CardinalityType
<1>5. Cardinality(Before(x)) >= n
  BY <1>1, <1>4 DEF FirstOf
<1>6. Cardinality(Before(x)) <= Cardinality(FirstOf(P, n))
  BY <1>2, <1>3, FS_Subset
<1>7. QED
  BY <1>4, <1>5, <1>6

\* A queue has as many positions as its length.
LEMMA Positions ==
  ASSUME NEW n \in Nat PROVE IsFiniteSet(1..n) /\ Cardinality(1..n) = n
<1>1. 1 \in Int /\ n \in Int
  OBVIOUS
<1>2. IsFiniteSet(1..n) /\ Cardinality(1..n) = IF 1 > n THEN 0 ELSE n - 1 + 1
  BY <1>1, FS_Interval, Zenon
<1>3. QED
  BY <1>2

\* The items at some positions of a queue without repetitions are as many.
LEMMA ImageCount ==
  ASSUME NEW q \in Seq(Jobs), Distinct(q), NEW S \in SUBSET (1..Len(q))
  PROVE  LET T == {q[x] : x \in S}
         IN  /\ IsFiniteSet(S) /\ IsFiniteSet(T) /\ Cardinality(T) = Cardinality(S)
             /\ T \subseteq Jobs
<1> DEFINE T == {q[x] : x \in S}
           f == [x \in S |-> q[x]]
<1>1. IsFiniteSet(S)
  <2>1. Len(q) \in Nat
    OBVIOUS
  <2>2. QED
    BY <2>1, Positions, FS_Subset
<1>2. f \in Bijection(S, T)
  BY DEF Bijection, Injection, Surjection, IsInjective, Distinct
<1>3. ExistsBijection(S, T)
  BY <1>2 DEF ExistsBijection
<1>4. T \subseteq Jobs
  OBVIOUS
<1>5. QED
  BY <1>1, <1>3, <1>4, FS_Bijection

\* The state in which processQueue is called: a queue q, statuses st, ac POSTs under
\* way, requests rq.
QueueReady(q, st, ac, rq) ==
    /\ q \in Seq(Jobs) /\ Distinct(q)
    /\ st \in [Jobs -> ItemStatus] /\ rq \in [Jobs -> RequestState]
    /\ postedTo \in [Jobs -> Conns \cup {NoConn}]
    /\ ac \in Nat /\ ac = Cardinality({i \in Jobs : rq[i] \notin {"none", "settled"}})
    /\ \A i \in Jobs : rq[i] = "none" <=> st[i] \in {"new", "pending"}
    /\ \A i \in Jobs : st[i] = "pending" => Among(i, q)

\* What up to k calls of processQueue do: they take pending items only, count them,
\* and leave none pending while there are calls and slots left.
QueueTaken(q, st, ac, max, k, rq) ==
    /\ status' \in [Jobs -> ItemStatus] /\ request' \in [Jobs -> RequestState]
    /\ postedTo' \in [Jobs -> Conns \cup {NoConn}]
    /\ \A i \in Jobs : status'[i] = st[i] \/ (st[i] = "pending" /\ status'[i] = "uploading")
    /\ \A i \in Jobs : request'[i] = "none" <=> status'[i] \in {"new", "pending"}
    /\ \A i \in Jobs : request'[i] = rq[i] \/ (rq[i] = "none" /\ request'[i] = "posted")
    /\ activeCount' = Cardinality(UnderWay') /\ activeCount' \in Nat
    /\ activeCount' >= ac
    /\ (\E i \in Jobs : status'[i] = "pending") =>
          /\ activeCount' >= ac + AtMost(k, max - ac)
          /\ AtMost(k, max - ac) < Len(q)
          /\ AtMost(k, max - ac) < Cardinality({i \in Jobs : st[i] = "pending"})

LEMMA ProcessQueueTakes ==
  ASSUME NEW q, NEW st, NEW ac, NEW rq, QueueReady(q, st, ac, rq),
         NEW max \in 1..10, NEW k \in Nat, NEW c \in Conns \cup {NoConn},
         ProcessQueue(q, st, ac, max, k, c), SendPosts(rq)
  PROVE  QueueTaken(q, st, ac, max, k, rq)
<1> USE DEF QueueReady
<1> DEFINE n == AtMost(k, max - ac)
           P == PendingAt(q, st)
           S == FirstOf(P, n)
           started == {q[x] : x \in S}
           W == {i \in Jobs : rq[i] \notin {"none", "settled"}}
<1>1. n \in Int /\ n <= k
  BY DEF AtMost
<1>2. DOMAIN q = 1..Len(q) /\ Len(q) \in Nat
  OBVIOUS
<1>3. P \subseteq 1..Len(q) /\ S \subseteq P /\ P \subseteq Nat
  BY <1>2 DEF PendingAt, FirstOf
<1>4. IsFiniteSet(P) /\ IsFiniteSet(S) /\ IsFiniteSet(started)
      /\ Cardinality(started) = Cardinality(S) /\ started \subseteq Jobs
  BY <1>3, ImageCount
<1>5. Cardinality(started) \in Nat
  BY <1>4, FS_CardinalityType
<1>6. \A i \in started : st[i] = "pending"
  BY <1>3 DEF PendingAt
<1>7. /\ status' = [i \in Jobs |-> IF i \in started THEN "uploading" ELSE st[i]]
      /\ activeCount' = ac + Cardinality(started)
      /\ postedTo' = [i \in Jobs |-> IF i \in started THEN c ELSE postedTo[i]]
  BY DEF ProcessQueue
<1>8. request' = [i \in Jobs |-> IF status'[i] = "uploading" /\ rq[i] = "none"
                                 THEN "posted" ELSE rq[i]]
  BY DEF SendPosts
<1> HIDE DEF n, P, S, started
<1>9. \A i \in Jobs : status'[i] = "uploading" /\ rq[i] = "none" <=> i \in started
  BY <1>6, <1>7
<1>10. /\ status' \in [Jobs -> ItemStatus] /\ request' \in [Jobs -> RequestState]
       /\ postedTo' \in [Jobs -> Conns \cup {NoConn}]
  BY <1>7, <1>8 DEF ItemStatus, RequestState
<1>11. \A i \in Jobs : status'[i] = st[i] \/ (st[i] = "pending" /\ status'[i] = "uploading")
  BY <1>6, <1>7
<1>12. \A i \in Jobs : request'[i] = IF i \in started THEN "posted" ELSE rq[i]
  BY <1>8, <1>9
<1>13. \A i \in started : rq[i] = "none"
  BY <1>4, <1>6
<1>14. \A i \in Jobs : request'[i] = "none" <=> status'[i] \in {"new", "pending"}
  BY <1>12, <1>7, <1>6
<1>15. activeCount' = Cardinality(UnderWay')
  <2>1. UnderWay' = W \cup started
    BY <1>4, <1>12, <1>13 DEF UnderWay
  <2>2. W \cap started = {}
    BY <1>13
  <2>3. IsFiniteSet(W)
    BY JobsFinite, FS_Subset
  <2>4. Cardinality(W \cup started) = Cardinality(W) + Cardinality(started)
    <3>1. Cardinality(W \cap started) = 0
      BY <2>2, FS_EmptySet
    <3>2. Cardinality(W \cup started)
            = Cardinality(W) + Cardinality(started) - Cardinality(W \cap started)
      BY <2>3, <1>4, FS_Union
    <3>3. QED
      BY <3>1, <3>2, <1>5
  <2>5. QED
    BY <2>1, <2>4, <1>7
<1>16. ASSUME NEW i \in Jobs, status'[i] = "pending"
       PROVE  /\ activeCount' >= ac + n /\ n < Len(q)
              /\ n < Cardinality({j \in Jobs : st[j] = "pending"})
  <2>1. PICK x \in 1..Len(q) : q[x] = i
    BY <1>16, <1>11 DEF Among
  <2>2. i \notin started /\ st[i] = "pending"
    BY <1>16, <1>7
  <2>3. x \in P \ S
    BY <2>1, <2>2, <1>2 DEF P, PendingAt, started
  <2>4. Cardinality(S) >= n
    BY <2>3, <1>1, <1>3, <1>4, FirstOfCount DEF S
  <2>5. n < Len(q)
    <3>1. IsFiniteSet(1..Len(q)) /\ Cardinality(1..Len(q)) = Len(q)
      BY <1>2, Positions
    <3>2. S \subseteq 1..Len(q) /\ S # 1..Len(q)
      BY <1>3, <2>3
    <3>3. Cardinality(S) <= Len(q) /\ Cardinality(S) # Len(q)
      BY <3>1, <3>2, FS_Subset
    <3>4. Cardinality(S) \in Nat
      BY <1>4, FS_CardinalityType
    <3>5. QED
      BY <3>3, <3>4, <2>4, <1>1, <1>2
  <2>6. n < Cardinality({j \in Jobs : st[j] = "pending"})
    <3> DEFINE Pending == {j \in Jobs : st[j] = "pending"}
    <3>1. IsFiniteSet(Pending)
      BY JobsFinite, FS_Subset
    <3>2. started \subseteq Pending /\ started # Pending
      BY <1>4, <1>6, <2>2
    <3>3. Cardinality(started) <= Cardinality(Pending)
          /\ Cardinality(started) # Cardinality(Pending)
      BY <3>1, <3>2, FS_Subset
    <3>4. Cardinality(Pending) \in Nat
      BY <3>1, FS_CardinalityType
    <3>5. QED
      BY <3>3, <3>4, <2>4, <1>4, <1>5, <1>1
  <2>7. QED
    BY <2>4, <2>5, <2>6, <1>4, <1>5, <1>7, <1>1
<1>17. activeCount' \in Nat /\ activeCount' >= ac
  BY <1>5, <1>7
<1>18. QED
  BY <1>10, <1>11, <1>12, <1>13, <1>14, <1>15, <1>16, <1>17 DEF n, QueueTaken


--------------------------------------------------------------------------------
(* The browser's steps *)

\* Every message names a job.
LEMMA EventJobs ==
  ASSUME NEW s \in Seq(Event), NEW x \in 1..Len(s)
  PROVE  s[x] \in Event /\ s[x].job \in Jobs /\ s[x].status \in {"uploading", "done", "error"}
<1>1. s[x] \in Event
  OBVIOUS
<1>2. QED
  BY <1>1 DEF Event

\* What the events need of a step that leaves them alone: POSTs are sent, replies are
\* handled, and no item is put back to uploading.
LEMMA EventsStand ==
  ASSUME PipeInv, UNCHANGED <<progressCh, link, lost, dropped, hubJobs>>,
         \A i \in Jobs : \/ request'[i] = request[i]
                         \/ request[i] = "none" /\ request'[i] = "posted"
                         \/ request[i] \in Ended /\ request'[i] = "settled",
         \A i \in Jobs : status'[i] = "uploading" /\ request'[i] = "settled"
                            => status[i] = "uploading" /\ request[i] = "settled"
  PROVE  EventInv'
<1>1. \A x \in 1..Len(progressCh) : progressCh[x].job \in Jobs
  BY EventJobs DEF PipeInv, PipeTypes
<1>2. \A x \in 1..Len(link) : link[x].job \in Jobs
  BY EventJobs DEF PipeInv, PipeTypes
<1>3. \A i \in Jobs : request[i] \notin {"none", "posted", "registered"}
                        => request'[i] \notin {"none", "posted", "registered"}
  BY DEF Ended
<1>4. \A i \in Jobs : request'[i] \in Ended => request[i] \in Ended
  BY DEF Ended
<1>5. EventsFit'
  BY <1>1, <1>2, <1>3 DEF PipeInv, EventInv, EventsFit
<1>6. LastEventIsLast'
  BY <1>1, <1>2, <1>4 DEF PipeInv, EventInv, LastEventIsLast, ToldAfter
<1>7. HubInv'
  BY <1>4 DEF PipeInv, EventInv, HubInv, ToldAfter, Ended
<1>8. ShownInv'
  BY DEF PipeInv, EventInv, ShownInv, ToldAfter
<1>9. QED
  BY <1>5, <1>6, <1>7, <1>8 DEF EventInv

\* The POSTs under way can be counted.
LEMMA UnderWayFinite == IsFiniteSet(UnderWay) /\ Cardinality(UnderWay) \in Nat
BY JobsFinite, FS_Subset, FS_CardinalityType DEF UnderWay

LEMMA EnqueueKeeps ==
  ASSUME PipeInv, NEW i \in Jobs, NEW c \in Conns, Enqueue(i, c)
  PROVE  PipeInv'
<1> DEFINE q == Append(queue, i)
           st == [status EXCEPT ![i] = "pending"]
<1> USE DEF PipeInv
<1>1. queue \in Seq(Jobs) /\ q \in Seq(Jobs) /\ Len(q) = Len(queue) + 1 /\ q[Len(q)] = i
      /\ \A x \in 1..Len(queue) : q[x] = queue[x]
  BY DEF PipeTypes
<1>2. status[i] = "new" /\ queue' = q /\ lastConnId' = c
      /\ UNCHANGED <<slotVars, browserMax, settings, progressCh, hubJobs, linkVars>>
      /\ target' = [target EXCEPT ![i] = c]
  BY DEF Enqueue
<1>3. Distinct(q)
  BY <1>1, <1>2 DEF QueueInv, Distinct, Among
<1>4. st \in [Jobs -> ItemStatus]
  BY DEF PipeTypes, ItemStatus
<1>5. \A j \in Jobs : request[j] = "none" <=> st[j] \in {"new", "pending"}
  BY <1>2 DEF QueueInv, PipeTypes
<1>6. \A j \in Jobs : st[j] = "pending" => Among(j, q)
  BY <1>1 DEF QueueInv, Among, PipeTypes
<1>7. activeCount \in Nat /\ activeCount = Cardinality({j \in Jobs : request[j] \notin {"none", "settled"}})
  BY UnderWayFinite DEF QueueInv, BrowserKeepsSlotsBusy, UnderWay
<1>8. ProcessQueue(q, st, activeCount, browserMax, 1, c) /\ SendPosts(request)
  BY <1>2 DEF Enqueue
<1>9. QueueTaken(q, st, activeCount, browserMax, 1, request)
  <2>1. QueueReady(q, st, activeCount, request)
    BY <1>1, <1>3, <1>4, <1>5, <1>6, <1>7 DEF QueueReady, PipeTypes
  <2>2. browserMax \in 1..10 /\ 1 \in Nat /\ c \in Conns \cup {NoConn}
    BY DEF PipeTypes
  <2> HIDE DEF q, st, PipeInv
  <2>3. QED
    BY <1>8, <2>1, <2>2, ProcessQueueTakes
<1>10. PipeTypes'
  BY <1>1, <1>2, <1>9 DEF QueueTaken, PipeTypes, linkVars
<1>11. ASSUME NEW j \in Jobs, status'[j] = "pending" PROVE activeCount' >= browserMax
  <2>1. browserMax \in Int
    BY DEF PipeTypes
  <2>2. CASE \E h \in Jobs : status[h] = "pending"
    BY <2>1, <2>2, <1>7, <1>9 DEF QueueTaken, QueueInv, BrowserKeepsSlotsBusy
  <2>3. CASE \A h \in Jobs : status[h] # "pending"
    <3>1. {h \in Jobs : st[h] = "pending"} = {i}
      BY <2>3 DEF PipeTypes
    <3>2. Cardinality({h \in Jobs : st[h] = "pending"}) = 1
      BY <3>1, FS_Singleton
    <3>3. AtMost(1, browserMax - activeCount) < 1
          /\ activeCount' >= activeCount + AtMost(1, browserMax - activeCount)
      BY <3>2, <1>9, <1>11 DEF QueueTaken
    <3>4. QED
      BY <3>3, <2>1, <1>7, <1>9 DEF QueueTaken, AtMost
  <2>4. QED
    BY <2>2, <2>3
<1>12. QueueInv'
  <2>1. \A j \in Jobs : status'[j] = "new" => status[j] = "new" /\ j # i
    BY <1>9 DEF QueueTaken, PipeTypes
  <2>2. \A j \in Jobs : status'[j] = "new" => ~Among(j, q)
    BY <2>1, <1>1 DEF QueueInv, Among
  <2>3. \A j \in Jobs : status'[j] = "pending" => Among(j, q) /\ lastConnId' # NoConn
    BY <1>2, <1>6, <1>9, ConnAssumption DEF QueueTaken
  <2>4. BrowserKeepsSlotsBusy'
    BY <1>2, <1>9, <1>11 DEF QueueTaken, BrowserKeepsSlotsBusy
  <2>5. QED
    BY <1>2, <1>3, <1>9, <2>2, <2>3, <2>4 DEF QueueTaken, QueueInv, Among, Distinct
<1>13. EventInv'
  <2>1. \A j \in Jobs : status'[j] = "uploading" /\ request'[j] = "settled"
            => status[j] = "uploading" /\ request[j] = "settled"
    BY <1>2, <1>9 DEF QueueTaken, PipeTypes, QueueInv
  <2>2. QED
    BY <1>2, <1>9, <2>1, EventsStand DEF QueueTaken, linkVars
<1>14. QED
  BY <1>10, <1>12, <1>13

LEMMA ReplyArrivesKeeps ==
  ASSUME PipeInv, NEW i \in Jobs, ReplyArrives(i)
  PROVE  PipeInv'
<1> DEFINE ok == request[i] = "replyOK"
           st == [status EXCEPT ![i] =
                    IF @ = "cleared" THEN @
                    ELSE IF ok THEN (IF @ = "error" THEN @ ELSE "done")
                    ELSE (IF @ = "done" THEN @ ELSE "error")]
           rq == [request EXCEPT ![i] = "settled"]
           ac == activeCount - 1
<1> USE DEF PipeInv
<1>1. /\ request[i] \in {"replyOK", "replyFailed"}
      /\ ProcessQueue(queue, st, ac, browserMax, 1, postedTo[i]) /\ SendPosts(rq)
      /\ UNCHANGED <<slotVars, queue, browserMax, lastConnId, settings, target,
                     progressCh, hubJobs, linkVars>>
  BY DEF ReplyArrives
<1>2. status[i] \in ItemStatus \ {"new", "pending"}
  BY <1>1 DEF QueueInv, PipeTypes
<1>3. /\ st \in [Jobs -> ItemStatus] /\ rq \in [Jobs -> RequestState]
      /\ st[i] \in {"cleared", "done", "error"} /\ rq[i] = "settled"
      /\ \A j \in Jobs : j # i => st[j] = status[j] /\ rq[j] = request[j]
  BY <1>2 DEF PipeTypes, ItemStatus, RequestState
<1>4. ac \in Nat /\ ac = Cardinality({j \in Jobs : rq[j] \notin {"none", "settled"}})
  <2>1. {j \in Jobs : rq[j] \notin {"none", "settled"}} = UnderWay \ {i} /\ i \in UnderWay
    BY <1>1, <1>3 DEF UnderWay
  <2>2. Cardinality(UnderWay \ {i}) = Cardinality(UnderWay) - 1
    BY <2>1, UnderWayFinite, FS_RemoveElement
  <2>3. Cardinality(UnderWay \ {i}) \in Nat
    BY UnderWayFinite, FS_RemoveElement, FS_CardinalityType
  <2>4. activeCount = Cardinality(UnderWay)
    BY DEF QueueInv, BrowserKeepsSlotsBusy
  <2>5. QED
    BY <2>1, <2>2, <2>3, <2>4
<1> HIDE DEF st, rq, ac
<1>5. QueueReady(queue, st, ac, rq)
  BY <1>3, <1>4 DEF QueueReady, QueueInv, PipeTypes
<1>6. QueueTaken(queue, st, ac, browserMax, 1, rq)
  <2>1. browserMax \in 1..10 /\ 1 \in Nat /\ postedTo[i] \in Conns \cup {NoConn}
    BY DEF PipeTypes
  <2>2. QED
    BY <1>1, <1>5, <2>1, ProcessQueueTakes
<1>7. PipeTypes'
  BY <1>1, <1>6 DEF PipeTypes, QueueTaken, linkVars
<1>8. ASSUME NEW j \in Jobs, status'[j] = "pending" PROVE activeCount' >= browserMax
  <2>1. status[j] = "pending"
    BY <1>3, <1>6, <1>8 DEF QueueTaken
  <2>2. activeCount >= browserMax /\ browserMax \in Int
    BY <2>1 DEF QueueInv, BrowserKeepsSlotsBusy, PipeTypes
  <2>3. activeCount' >= ac + AtMost(1, browserMax - ac) /\ activeCount' >= ac
        /\ activeCount' \in Nat
    BY <1>6, <1>8 DEF QueueTaken
  <2>4. activeCount \in Nat
    BY UnderWayFinite DEF QueueInv, BrowserKeepsSlotsBusy
  <2>5. QED
    BY <2>2, <2>3, <2>4, <1>4 DEF AtMost, ac
<1>9. QueueInv'
  <2>1. \A j \in Jobs : status'[j] = "new" => status[j] = "new"
    BY <1>3, <1>6 DEF QueueTaken
  <2>2. \A j \in Jobs : status'[j] = "pending" => status[j] = "pending"
    BY <1>3, <1>6 DEF QueueTaken
  <2>3. BrowserKeepsSlotsBusy'
    BY <1>1, <1>6, <1>8 DEF BrowserKeepsSlotsBusy, QueueTaken
  <2>4. QED
    BY <1>1, <1>6, <2>1, <2>2, <2>3 DEF QueueInv, QueueTaken, Among, Distinct
<1>10. EventInv'
  <2>1. \A j \in Jobs : \/ request'[j] = request[j]
                        \/ request[j] = "none" /\ request'[j] = "posted"
                        \/ request[j] \in Ended /\ request'[j] = "settled"
    BY <1>1, <1>3, <1>6 DEF QueueTaken, Ended
  <2>2. \A j \in Jobs : status'[j] = "uploading" /\ request'[j] = "settled"
            => status[j] = "uploading" /\ request[j] = "settled"
    <3>1. status'[i] # "uploading"
      BY <1>3, <1>6 DEF QueueTaken
    <3>2. ASSUME NEW j \in Jobs, j # i, status'[j] = "uploading", request'[j] = "settled"
          PROVE  status[j] = "uploading" /\ request[j] = "settled"
      <4>1. request[j] = "settled" /\ status[j] \notin {"new", "pending"}
        BY <1>3, <1>6, <3>2 DEF QueueTaken, QueueInv
      <4>2. QED
        BY <1>3, <1>6, <3>2, <4>1 DEF QueueTaken
    <3>3. QED
      BY <3>1, <3>2
  <2>3. QED
    BY <1>1, <2>1, <2>2, EventsStand DEF linkVars
<1>11. QED
  BY <1>7, <1>9, <1>10

LEMMA SettingsReachBrowserKeeps ==
  ASSUME PipeInv, SettingsReachBrowser
  PROVE  PipeInv'
<1> DEFINE k == IF lastConnId = NoConn THEN 0 ELSE Len(queue)
           max == IF settings < 1 THEN 1 ELSE AtMost(10, settings)
<1> USE DEF PipeInv
<1>1. /\ settings # NoLimit /\ settings' = NoLimit /\ browserMax' = max
      /\ ProcessQueue(queue, status, activeCount, browserMax', k, lastConnId)
      /\ SendPosts(request)
      /\ UNCHANGED <<slotVars, queue, lastConnId, target, progressCh, hubJobs, linkVars>>
  BY DEF SettingsReachBrowser
<1>2. max \in 1..10 /\ k \in Nat
  BY <1>1, RequestedAreIntegers DEF PipeTypes, AtMost
<1> HIDE DEF max
<1>3. QueueReady(queue, status, activeCount, request)
  <2>1. activeCount \in Nat /\ activeCount = Cardinality({j \in Jobs : request[j] \notin {"none", "settled"}})
    BY UnderWayFinite DEF QueueInv, BrowserKeepsSlotsBusy, UnderWay
  <2>2. QED
    BY <2>1 DEF QueueReady, QueueInv, PipeTypes
<1>4. QueueTaken(queue, status, activeCount, max, k, request)
  <2>1. lastConnId \in Conns \cup {NoConn}
    BY DEF PipeTypes
  <2> HIDE DEF k
  <2>2. QED
    BY <1>1, <1>2, <1>3, <2>1, ProcessQueueTakes
<1>5. PipeTypes'
  BY <1>1, <1>2, <1>4 DEF PipeTypes, QueueTaken, linkVars
<1>6. ASSUME NEW j \in Jobs, status'[j] = "pending" PROVE activeCount' >= max
  <2>1. status[j] = "pending" /\ lastConnId # NoConn
    BY <1>4, <1>6 DEF QueueTaken, QueueInv
  <2>2. /\ activeCount' >= activeCount + AtMost(Len(queue), max - activeCount)
        /\ AtMost(Len(queue), max - activeCount) < Len(queue)
    BY <1>4, <1>6, <2>1 DEF QueueTaken
  <2>3. activeCount \in Nat /\ activeCount' \in Nat /\ Len(queue) \in Nat
    BY <1>3, <1>4 DEF QueueReady, QueueTaken
  <2>4. QED
    BY <1>2, <2>2, <2>3 DEF AtMost
<1>7. QueueInv'
  <2>1. \A j \in Jobs : status'[j] = "new" => status[j] = "new"
    BY <1>4 DEF QueueTaken
  <2>2. \A j \in Jobs : status'[j] = "pending" => status[j] = "pending"
    BY <1>4 DEF QueueTaken
  <2>3. BrowserKeepsSlotsBusy'
    BY <1>1, <1>4, <1>6 DEF BrowserKeepsSlotsBusy, QueueTaken
  <2>4. QED
    BY <1>1, <1>4, <2>1, <2>2, <2>3 DEF QueueInv, QueueTaken, Among, Distinct
<1>8. EventInv'
  <2>1. \A j \in Jobs : \/ request'[j] = request[j]
                        \/ request[j] = "none" /\ request'[j] = "posted"
                        \/ request[j] \in Ended /\ request'[j] = "settled"
    BY <1>4 DEF QueueTaken
  <2>2. \A j \in Jobs : status'[j] = "uploading" /\ request'[j] = "settled"
            => status[j] = "uploading" /\ request[j] = "settled"
    BY <1>3, <1>4 DEF QueueTaken, QueueReady
  <2>3. QED
    BY <1>1, <2>1, <2>2, EventsStand DEF linkVars
<1>9. QED
  BY <1>5, <1>7, <1>8

LEMMA EnqueueTreeKeeps ==
  ASSUME PipeInv, NEW c \in Conns, EnqueueTreeBegins(c)
  PROVE  PipeInv'
<1> USE DEF PipeInv, EnqueueTreeBegins, serverVars, linkVars
<1>1. PipeTypes'
  BY DEF PipeTypes
<1>2. QueueInv'
  BY ConnAssumption DEF QueueInv, Among, Distinct, BrowserKeepsSlotsBusy, UnderWay
<1>3. EventInv'
  BY EventsStand
<1>4. QED
  BY <1>1, <1>2, <1>3

LEMMA ClearCompletedKeeps ==
  ASSUME PipeInv, ClearCompleted
  PROVE  PipeInv'
<1> USE DEF PipeInv
<1>1. /\ \A x \in 1..Len(queue) : status[queue[x]] \in {"done", "error"}
      /\ status' = [i \in Jobs |-> IF i \in ToSet(queue) THEN "cleared" ELSE status[i]]
      /\ queue' = <<>>
      /\ UNCHANGED <<slotVars, activeCount, browserMax, lastConnId, settings, target,
                     serverVars, linkVars>>
  BY DEF ClearCompleted, PipeTypes
<1>2. \A i \in Jobs : i \in ToSet(queue) <=> Among(i, queue)
  BY DEF ToSet, Among, PipeTypes
<1>3. \A i \in Jobs : Among(i, queue) => status[i] \in {"done", "error"}
  BY <1>1 DEF Among
<1>4. \A i \in Jobs : status[i] # "pending"
  BY <1>3 DEF QueueInv
<1>5. PipeTypes'
  BY <1>1 DEF PipeTypes, ItemStatus, serverVars, linkVars
<1>6. QueueInv'
  <2>1. Distinct(queue') /\ \A i \in Jobs : ~Among(i, queue')
    BY <1>1 DEF Distinct, Among
  <2>2. \A i \in Jobs : status'[i] # "pending"
    BY <1>1, <1>4
  <2>3. \A i \in Jobs : status'[i] \in {"new", "pending"} <=> status[i] \in {"new", "pending"}
    BY <1>1, <1>2, <1>3
  <2>4. QED
    BY <1>1, <2>1, <2>2, <2>3 DEF QueueInv, BrowserKeepsSlotsBusy, UnderWay, serverVars, Among,
                                 Distinct
<1>7. EventInv'
  BY <1>1, EventsStand DEF serverVars, linkVars
<1>8. QED
  BY <1>5, <1>6, <1>7

LEMMA SettingsReachServerKeeps ==
  ASSUME PipeInv, NEW n \in Requested, SettingsReachServer(n)
  PROVE  PipeInv'
<1> USE DEF PipeInv, SettingsReachServer, serverVars, linkVars
<1>1. PipeTypes'
  BY DEF PipeTypes
<1>2. QueueInv'
  BY DEF QueueInv, Among, Distinct, BrowserKeepsSlotsBusy, UnderWay
<1>3. EventInv'
  BY EventsStand
<1>4. QED
  BY <1>1, <1>2, <1>3

--------------------------------------------------------------------------------
(* The server's and the sockets' steps *)

\* A message at the end of a queue leaves those before it, and comes after them.
LEMMA ToldAppend ==
  ASSUME NEW s \in Seq(Event), NEW e \in Event, NEW i \in Jobs, NEW x \in Nat
  PROVE  /\ ToldAfter(i, s, x) => ToldAfter(i, Append(s, e), x)
         /\ e.job = i /\ e.status # "uploading" /\ x <= Len(s)
               => ToldAfter(i, Append(s, e), x)
<1>1. /\ Len(Append(s, e)) = Len(s) + 1 /\ Append(s, e)[Len(s) + 1] = e
      /\ \A y \in 1..Len(s) : Append(s, e)[y] = s[y]
      /\ Len(s) \in Nat
  OBVIOUS
<1>2. QED
  BY <1>1 DEF ToldAfter

\* Without its first message a queue tells what it told, but for that message.
LEMMA ToldTail ==
  ASSUME NEW s \in Seq(Event), s # <<>>, NEW i \in Jobs
  PROVE  /\ \A x \in Nat : ToldAfter(i, s, x + 1) => ToldAfter(i, Tail(s), x)
         /\ ToldAfter(i, s, 0) =>
               \/ ToldAfter(i, Tail(s), 0)
               \/ Head(s).job = i /\ Head(s).status # "uploading"
<1>1. /\ Len(Tail(s)) = Len(s) - 1 /\ Head(s) = s[1] /\ Len(s) \in Nat \ {0}
      /\ \A y \in 1..Len(Tail(s)) : Tail(s)[y] = s[y + 1]
  OBVIOUS
<1>2. ASSUME NEW x \in Nat, NEW y \in 1..Len(s), y > x + 1, s[y].job = i,
             s[y].status # "uploading"
      PROVE  ToldAfter(i, Tail(s), x)
  <2>1. y - 1 \in 1..Len(Tail(s)) /\ y - 1 > x /\ Tail(s)[y - 1] = s[(y - 1) + 1]
    BY <1>1, <1>2
  <2>2. (y - 1) + 1 = y
    BY <1>2
  <2>3. QED
    BY <1>2, <2>1, <2>2 DEF ToldAfter
<1>3. ASSUME NEW y \in 1..Len(s), s[y].job = i, s[y].status # "uploading"
      PROVE  \/ ToldAfter(i, Tail(s), 0)
             \/ Head(s).job = i /\ Head(s).status # "uploading"
  <2>1. CASE y = 1
    BY <1>1, <1>3, <2>1
  <2>2. CASE y > 1
    BY <1>2, <1>3, <2>2
  <2>3. QED
    BY <2>1, <2>2
<1>4. QED
  BY <1>2, <1>3 DEF ToldAfter

\* The browser sees nothing of a step of a handler.
LEMMA QueueStands ==
  ASSUME PipeInv, UNCHANGED hookVars,
         \A i \in Jobs : \/ request'[i] = request[i]
                         \/ {request[i], request'[i]} \cap {"none", "settled"} = {}
  PROVE  QueueInv'
<1>1. UnderWay' = UnderWay
  BY DEF UnderWay
<1>2. \A i \in Jobs : request'[i] = "none" <=> request[i] = "none"
  OBVIOUS
<1>3. QED
  BY <1>1, <1>2 DEF PipeInv, QueueInv, hookVars, Among, Distinct, BrowserKeepsSlotsBusy

\* notify tells the last of a job, or loses it, when the job ends.
LEMMA NotifyKeeps ==
  ASSUME PipeInv, NEW i \in Jobs, NEW st \in {"uploading", "done", "error"}, Notify(i, st),
         UNCHANGED <<status, hubJobs, link>>,
         request[i] \in {"registered", "transferring"},
         NEW new \in {"transferring", "ok", "failed"}, new \in Ended => st # "uploading",
         request' = [request EXCEPT ![i] = new]
  PROVE  /\ EventInv'
         /\ progressCh' \in Seq(Event) /\ Len(progressCh') <= ChanCap
         /\ lost' \subseteq Jobs /\ dropped' \subseteq lost'
<1> USE DEF PipeInv
<1> DEFINE e == [job |-> i, status |-> st]
<1>1. e \in Event /\ e.job = i /\ e.status = st
  BY DEF Event
<1>2. progressCh \in Seq(Event) /\ link \in Seq(Event) /\ Len(progressCh) \in Nat
  BY DEF PipeTypes
<1>3. \/ /\ progressCh' = Append(progressCh, e) /\ Len(progressCh) < ChanCap
         /\ lost' = lost /\ dropped' = dropped
      \/ /\ progressCh' = progressCh
         /\ lost' = IF st = "uploading" THEN lost ELSE lost \cup {i}
         /\ dropped' = IF st = "uploading" THEN dropped ELSE dropped \cup {i}
  BY DEF Notify
<1> HIDE DEF e
<1>4. progressCh' \in Seq(Event) /\ Len(progressCh') <= ChanCap /\ lost' \subseteq Jobs
  <2>1. lost \subseteq Jobs /\ ChanCap \in Nat /\ Len(progressCh) <= ChanCap
    BY CapAssumption DEF PipeTypes
  <2>2. Append(progressCh, e) \in Seq(Event) /\ Len(Append(progressCh, e)) = Len(progressCh) + 1
    BY <1>1, <1>2
  <2>3. CASE progressCh' = Append(progressCh, e) /\ lost' = lost /\ Len(progressCh) < ChanCap
    BY <2>1, <2>2, <2>3, <1>2
  <2>4. CASE progressCh' = progressCh /\ lost' = IF st = "uploading" THEN lost ELSE lost \cup {i}
    BY <2>1, <2>4, <1>2
  <2>5. QED
    BY <2>3, <2>4, <1>3
<1>5. lost \subseteq lost' /\ dropped \subseteq dropped' /\ dropped' \subseteq lost'
  BY <1>3 DEF PipeTypes
<1>6. \A j \in Jobs, x \in Nat : ToldAfter(j, progressCh, x) => ToldAfter(j, progressCh', x)
  BY <1>1, <1>2, <1>3, ToldAppend
<1>7. st # "uploading" =>
         i \in dropped' \/ \A x \in 0..Len(progressCh) : ToldAfter(i, progressCh', x)
  <2>1. SUFFICES ASSUME st # "uploading"
                 PROVE  i \in dropped' \/ \A x \in 0..Len(progressCh) : ToldAfter(i, progressCh', x)
    OBVIOUS
  <2>2. CASE progressCh' = Append(progressCh, e)
    <3>1. \A x \in 0..Len(progressCh) : x \in Nat /\ x <= Len(progressCh)
      BY <1>2
    <3>2. QED
      BY <2>1, <2>2, <3>1, <1>1, <1>2, ToldAppend
  <2>3. CASE dropped' = IF st = "uploading" THEN dropped ELSE dropped \cup {i}
    BY <2>1, <2>3
  <2>4. QED
    BY <2>2, <2>3, <1>3
<1>8. ASSUME NEW x \in 1..Len(progressCh')
      PROVE  \/ x \in 1..Len(progressCh) /\ progressCh'[x] = progressCh[x]
             \/ progressCh'[x] = e
  BY <1>1, <1>2, <1>3
<1>9. \A j \in Jobs : j # i => request'[j] = request[j]
  OBVIOUS
<1>10. request'[i] = new
  BY DEF PipeTypes
<1>11. EventsFit'
  <2>1. \A j \in Jobs : request[j] \notin {"none", "posted", "registered"}
                          => request'[j] \notin {"none", "posted", "registered"}
    BY <1>9, <1>10
  <2>2. \A x \in 1..Len(progressCh') : request'[progressCh'[x].job] \notin {"none", "posted", "registered"}
    BY <1>1, <1>2, <1>8, <1>10, <2>1, EventJobs DEF EventInv, EventsFit
  <2>3. \A x \in 1..Len(link') : request'[link'[x].job] \notin {"none", "posted", "registered"}
    BY <1>2, <2>1, EventJobs DEF EventInv, EventsFit
  <2>4. QED
    BY <2>2, <2>3 DEF EventsFit
<1>12. LastEventIsLast'
  <2>1. ASSUME NEW x \in 1..Len(progressCh'), progressCh'[x].status = "uploading",
               request'[progressCh'[x].job] \in Ended
        PROVE  progressCh'[x].job \in lost' \/ ToldAfter(progressCh'[x].job, progressCh', x)
    <3>1. CASE progressCh'[x] = e
      BY <3>1, <1>1, <1>10, <2>1
    <3>2. CASE x \in 1..Len(progressCh) /\ progressCh'[x] = progressCh[x]
      <4>1. progressCh[x].job \in Jobs /\ x \in 0..Len(progressCh) /\ x \in Nat
        BY <3>2, <1>2, EventJobs
      <4>2. CASE progressCh[x].job = i
        BY <4>1, <4>2, <3>2, <1>5, <1>7, <1>10, <2>1
      <4>3. CASE progressCh[x].job # i
        BY <4>1, <4>3, <3>2, <1>5, <1>6, <1>9, <2>1 DEF EventInv, LastEventIsLast
      <4>4. QED
        BY <4>2, <4>3
    <3>3. QED
      BY <3>1, <3>2, <1>8
  <2>2. ASSUME NEW x \in 1..Len(link), link[x].status = "uploading",
               request'[link[x].job] \in Ended
        PROVE  \/ link[x].job \in lost' \/ ToldAfter(link[x].job, link, x)
               \/ ToldAfter(link[x].job, progressCh', 0)
    <3>1. link[x].job \in Jobs
      BY <1>2, EventJobs
    <3>2. CASE link[x].job = i
      BY <3>2, <1>2, <1>5, <1>7, <1>10, <2>2
    <3>3. CASE link[x].job # i
      BY <3>1, <3>3, <1>5, <1>6, <1>9, <2>2 DEF EventInv, LastEventIsLast
    <3>4. QED
      BY <3>2, <3>3
  <2>3. QED
    BY <2>1, <2>2 DEF LastEventIsLast, ToldAfter
<1>13. HubInv'
  <2>1. ASSUME NEW j \in Jobs, hubJobs[j] # NoConn
        PROVE  /\ request'[j] \notin {"none", "posted"}
               /\ request'[j] \in Ended => j \in dropped' \/ ToldAfter(j, progressCh', 0)
    <3>1. CASE j = i
      BY <3>1, <1>2, <1>7, <1>10
    <3>2. CASE j # i
      BY <3>2, <1>5, <1>6, <1>9, <2>1 DEF EventInv, HubInv
    <3>3. QED
      BY <3>1, <3>2
  <2>2. QED
    BY <2>1 DEF HubInv, ToldAfter
<1>14. ShownInv'
  <2>1. ASSUME NEW j \in Jobs, status[j] = "uploading", request'[j] = "settled"
        PROVE  j \in lost' \/ ToldAfter(j, progressCh', 0) \/ ToldAfter(j, link, 0)
    <3>1. j # i
      BY <2>1, <1>10
    <3>2. QED
      BY <3>1, <1>5, <1>6, <1>9, <2>1 DEF EventInv, ShownInv
  <2>2. QED
    BY <2>1 DEF ShownInv, ToldAfter
<1>15. QED
  BY <1>4, <1>5, <1>11, <1>12, <1>13, <1>14 DEF EventInv

\* A POST goes on without an event: it is registered or rejected, or its transfer, over
\* already, gives the slot back.
LEMMA PostStands ==
  ASSUME PipeInv, NEW i \in Jobs, UNCHANGED <<status, progressCh, link, lost, dropped>>,
         NEW new \in RequestState \ {"none", "posted", "settled"},
         request' = [request EXCEPT ![i] = new],
         request[i] = "posted" \/ (request[i] \in Ended /\ new \in Ended),
         \A j \in Jobs : j # i => hubJobs'[j] = hubJobs[j],
         hubJobs'[i] = hubJobs[i] \/ new = "registered"
  PROVE  EventInv'
<1> USE DEF PipeInv
<1>1. progressCh \in Seq(Event) /\ link \in Seq(Event)
  BY DEF PipeTypes
<1>2. request'[i] = new /\ \A j \in Jobs : j # i => request'[j] = request[j]
  BY DEF PipeTypes
<1>3. ASSUME NEW j \in Jobs, request[j] \notin {"none", "posted", "registered"}
      PROVE  /\ request'[j] \notin {"none", "posted", "registered"}
             /\ request'[j] \in Ended <=> request[j] \in Ended
  BY <1>2, <1>3 DEF Ended
<1>4. EventsFit'
  BY <1>1, <1>3, EventJobs DEF EventInv, EventsFit
<1>5. LastEventIsLast'
  <2>1. ASSUME NEW x \in 1..Len(progressCh)
        PROVE  progressCh[x].job \in Jobs
               /\ (request'[progressCh[x].job] \in Ended <=> request[progressCh[x].job] \in Ended)
    BY <1>1, <1>3, EventJobs DEF EventInv, EventsFit
  <2>2. ASSUME NEW x \in 1..Len(link)
        PROVE  link[x].job \in Jobs
               /\ (request'[link[x].job] \in Ended <=> request[link[x].job] \in Ended)
    BY <1>1, <1>3, EventJobs DEF EventInv, EventsFit
  <2>3. QED
    BY <2>1, <2>2 DEF EventInv, LastEventIsLast, ToldAfter
<1>6. HubInv'
  <2>1. ASSUME NEW j \in Jobs, hubJobs'[j] # NoConn
        PROVE  /\ request'[j] \notin {"none", "posted"}
               /\ request'[j] \in Ended => j \in dropped \/ ToldAfter(j, progressCh, 0)
    <3>1. CASE j # i
      BY <3>1, <1>2, <2>1 DEF EventInv, HubInv
    <3>2. CASE j = i
      BY <3>2, <1>2, <2>1 DEF EventInv, HubInv, Ended
    <3>3. QED
      BY <3>1, <3>2
  <2>2. QED
    BY <2>1 DEF HubInv, ToldAfter
<1>7. ShownInv'
  BY <1>2 DEF EventInv, ShownInv, ToldAfter
<1>8. QED
  BY <1>4, <1>5, <1>6, <1>7 DEF EventInv

LEMMA HandlerKeeps ==
  ASSUME PipeInv, NEW i \in Jobs,
         \/ RejectPost(i) \/ RegisterJob(i) \/ AcquireSlot(i) \/ BeginTransfer(i)
         \/ ReportProgress(i) \/ EndTransfer(i, "done") \/ EndTransfer(i, "error")
         \/ ReleaseSlot(i)
  PROVE  PipeInv'
<1> USE DEF PipeInv
<1>1. CASE RejectPost(i)
  <2>1. PipeTypes'
    BY <1>1 DEF RejectPost, PipeTypes, RequestState, hookVars, linkVars
  <2>2. QueueInv'
    BY <1>1, QueueStands DEF RejectPost, PipeTypes
  <2>3. EventInv'
    BY <1>1, PostStands DEF RejectPost, RequestState, hookVars, linkVars
  <2>4. QED
    BY <2>1, <2>2, <2>3
<1>2. CASE RegisterJob(i)
  <2>1. PipeTypes'
    BY <1>2 DEF RegisterJob, PipeTypes, RequestState, hookVars, linkVars
  <2>2. QueueInv'
    BY <1>2, QueueStands DEF RegisterJob, PipeTypes
  <2>3. EventInv'
    BY <1>2, PostStands DEF RegisterJob, RequestState, hookVars, linkVars, PipeTypes
  <2>4. QED
    BY <2>1, <2>2, <2>3
<1>3. CASE AcquireSlot(i)
  <2>1. UNCHANGED <<hookVars, serverVars, linkVars>>
    BY <1>3 DEF AcquireSlot
  <2>2. PipeTypes'
    BY <2>1 DEF PipeTypes, hookVars, serverVars, linkVars
  <2>3. QueueInv'
    BY <2>1, QueueStands DEF serverVars
  <2>4. EventInv'
    BY <2>1, EventsStand DEF hookVars, serverVars, linkVars
  <2>5. QED
    BY <2>2, <2>3, <2>4
<1>4. ASSUME NEW new \in {"transferring", "ok", "failed"}, NEW st \in {"uploading", "done", "error"},
             request[i] \in {"registered", "transferring"}, new \in Ended => st # "uploading",
             request' = [request EXCEPT ![i] = new], Notify(i, st),
             UNCHANGED <<slotVars, hookVars, postedTo, hubJobs, wsConn, link>>
      PROVE  PipeInv'
  <2>1. /\ EventInv' /\ progressCh' \in Seq(Event) /\ Len(progressCh') <= ChanCap
        /\ lost' \subseteq Jobs /\ dropped' \subseteq lost'
    BY <1>4, NotifyKeeps DEF hookVars
  <2>2. PipeTypes'
    BY <1>4, <2>1 DEF PipeTypes, RequestState, hookVars
  <2>3. QueueInv'
    BY <1>4, QueueStands DEF PipeTypes
  <2>4. QED
    BY <2>1, <2>2, <2>3
<1>5. CASE BeginTransfer(i)
  BY <1>4, <1>5 DEF BeginTransfer, Ended
<1>6. CASE ReportProgress(i)
  <2>1. request' = [request EXCEPT ![i] = "transferring"]
    BY <1>6 DEF ReportProgress, PipeTypes
  <2>2. QED
    BY <1>4, <1>6, <2>1 DEF ReportProgress, Ended
<1>7. CASE EndTransfer(i, "done")
  BY <1>4, <1>7 DEF EndTransfer
<1>8. CASE EndTransfer(i, "error")
  BY <1>4, <1>8 DEF EndTransfer
<1>9. CASE ReleaseSlot(i)
  <2>1. PICK new \in {"replyOK", "replyFailed"} : request' = [request EXCEPT ![i] = new]
    BY <1>9 DEF ReleaseSlot
  <2>2. /\ request[i] \in {"ok", "failed"}
        /\ UNCHANGED <<hookVars, postedTo, progressCh, hubJobs, linkVars>>
    BY <1>9 DEF ReleaseSlot
  <2>3. PipeTypes'
    BY <2>1, <2>2 DEF PipeTypes, RequestState, hookVars, linkVars
  <2>4. QueueInv'
    BY <2>1, <2>2, QueueStands DEF PipeTypes
  <2>5. EventInv'
    BY <2>1, <2>2, PostStands DEF RequestState, Ended, hookVars, linkVars
  <2>6. QED
    BY <2>3, <2>4, <2>5
<1>10. QED
  BY <1>1, <1>2, <1>3, <1>5, <1>6, <1>7, <1>8, <1>9

LEMMA HandleProgressKeeps ==
  ASSUME PipeInv, HandleProgress
  PROVE  PipeInv'
<1> USE DEF PipeInv
<1> DEFINE e == Head(progressCh)
           c == hubJobs[e.job]
<1>1. /\ progressCh # <<>> /\ progressCh' = Tail(progressCh)
      /\ hubJobs' = IF e.status = "uploading" THEN hubJobs
                    ELSE [hubJobs EXCEPT ![e.job] = NoConn]
      /\ \/ Len(link) < LinkCap /\ link' = Append(link, e) /\ UNCHANGED lost
         \/ /\ lost' = IF e.status = "uploading" THEN lost ELSE lost \cup {e.job}
            /\ UNCHANGED link
      /\ UNCHANGED <<slotVars, hookVars, postedTo, request, wsConn, dropped>>
  BY DEF HandleProgress
<1>2. progressCh \in Seq(Event) /\ link \in Seq(Event)
  BY DEF PipeTypes
<1>3. /\ e \in Event /\ e.job \in Jobs /\ e = progressCh[1]
      /\ 1 \in 1..Len(progressCh)
  BY <1>1, <1>2, EventJobs
<1> HIDE DEF e
<1>4. /\ progressCh' \in Seq(Event) /\ Len(progressCh') + 1 = Len(progressCh)
      /\ \A x \in 1..Len(progressCh') : progressCh'[x] = progressCh[x + 1]
                                        /\ x + 1 \in 1..Len(progressCh)
  BY <1>1, <1>2
<1>5. \A j \in Jobs : /\ \A x \in Nat : ToldAfter(j, progressCh, x + 1) => ToldAfter(j, progressCh', x)
                      /\ ToldAfter(j, progressCh, 0) => \/ ToldAfter(j, progressCh', 0)
                                                        \/ e.job = j /\ e.status # "uploading"
  BY <1>1, <1>2, ToldTail DEF e
<1>6. \A j \in Jobs, x \in Nat : ToldAfter(j, link, x) => ToldAfter(j, link', x)
  BY <1>1, <1>2, <1>3, ToldAppend
<1>7. e.status # "uploading" =>
         e.job \in lost' \/ \A x \in 0..Len(link) : ToldAfter(e.job, link', x)
  <2>1. \A x \in 0..Len(link) : x \in Nat /\ x <= Len(link)
    BY <1>2
  <2>2. QED
    BY <1>1, <1>2, <1>3, <2>1, ToldAppend
<1>8. lost \subseteq lost' /\ lost' \subseteq Jobs /\ dropped' \subseteq lost'
  BY <1>1, <1>3 DEF PipeTypes
<1>9. link' \in Seq(Event) /\ Len(link') <= LinkCap
  <2>1. LinkCap \in Nat /\ Len(link) <= LinkCap
    BY CapAssumption DEF PipeTypes
  <2>2. Append(link, e) \in Seq(Event) /\ Len(Append(link, e)) = Len(link) + 1 /\ Len(link) \in Nat
    BY <1>2, <1>3
  <2>3. CASE Len(link) < LinkCap /\ link' = Append(link, e)
    BY <2>1, <2>2, <2>3
  <2>4. CASE link' = link
    BY <1>2, <2>1, <2>4
  <2>5. QED
    BY <1>1, <2>3, <2>4
<1>10. ASSUME NEW x \in 1..Len(link')
       PROVE  \/ x \in 1..Len(link) /\ link'[x] = link[x]
              \/ link'[x] = e
  BY <1>1, <1>2, <1>3
<1>11. PipeTypes'
  <2>1. Len(progressCh') <= ChanCap
    BY <1>2, <1>4, CapAssumption DEF PipeTypes
  <2>2. hubJobs' \in [Jobs -> Conns \cup {NoConn}]
    BY <1>1 DEF PipeTypes
  <2>3. QED
    BY <1>1, <1>4, <1>8, <1>9, <2>1, <2>2 DEF PipeTypes, hookVars
<1>12. QueueInv'
  BY <1>1, QueueStands
<1>13. EventsFit'
  BY <1>1, <1>3, <1>4, <1>10 DEF EventInv, EventsFit
<1>14. ASSUME NEW j \in Jobs, ToldAfter(j, progressCh, 0)
       PROVE  \/ j \in lost' \/ ToldAfter(j, progressCh', 0)
              \/ \A x \in 0..Len(link) : ToldAfter(j, link', x)
  BY <1>5, <1>7, <1>14
<1>15. LastEventIsLast'
  <2>1. ASSUME NEW x \in 1..Len(progressCh'), progressCh'[x].status = "uploading",
               request[progressCh'[x].job] \in Ended
        PROVE  progressCh'[x].job \in lost' \/ ToldAfter(progressCh'[x].job, progressCh', x)
    <3>1. progressCh'[x].job \in Jobs /\ x \in Nat
      BY <1>4, EventJobs
    <3>2. progressCh'[x].job \in lost \/ ToldAfter(progressCh'[x].job, progressCh, x + 1)
      BY <1>4, <2>1 DEF EventInv, LastEventIsLast
    <3>3. QED
      BY <3>1, <3>2, <1>5, <1>8
  <2>2. ASSUME NEW x \in 1..Len(link'), link'[x].status = "uploading",
               request[link'[x].job] \in Ended
        PROVE  \/ link'[x].job \in lost' \/ ToldAfter(link'[x].job, link', x)
               \/ ToldAfter(link'[x].job, progressCh', 0)
    <3>1. CASE x \in 1..Len(link) /\ link'[x] = link[x]
      <4>1. link[x].job \in Jobs /\ x \in Nat /\ x \in 0..Len(link)
        BY <3>1, <1>2, EventJobs
      <4>2. \/ link[x].job \in lost \/ ToldAfter(link[x].job, link, x)
            \/ ToldAfter(link[x].job, progressCh, 0)
        BY <2>2, <3>1 DEF EventInv, LastEventIsLast
      <4>3. QED
        BY <3>1, <4>1, <4>2, <1>6, <1>8, <1>14
    <3>2. CASE link'[x] = e
      <4>1. e.job \in lost \/ ToldAfter(e.job, progressCh, 1)
        BY <1>3, <2>2, <3>2 DEF EventInv, LastEventIsLast
      <4>2. ToldAfter(e.job, progressCh, 0 + 1) => ToldAfter(e.job, progressCh', 0)
        BY <1>3, <1>5
      <4>3. QED
        BY <3>2, <4>1, <4>2, <1>8
    <3>3. QED
      BY <3>1, <3>2, <1>10
  <2>3. QED
    BY <1>1, <2>1, <2>2 DEF LastEventIsLast, ToldAfter
<1>16. HubInv'
  <2>1. ASSUME NEW j \in Jobs, hubJobs'[j] # NoConn
        PROVE  /\ request[j] \notin {"none", "posted"}
               /\ request[j] \in Ended => j \in dropped' \/ ToldAfter(j, progressCh', 0)
    <3>1. hubJobs[j] # NoConn /\ ~(e.job = j /\ e.status # "uploading")
      BY <1>1, <1>3, <2>1 DEF PipeTypes
    <3>2. QED
      BY <3>1, <1>1, <1>5 DEF EventInv, HubInv
  <2>2. QED
    BY <1>1, <2>1 DEF HubInv, ToldAfter
<1>17. ShownInv'
  <2>1. ASSUME NEW j \in Jobs, status[j] = "uploading", request[j] = "settled"
        PROVE  j \in lost' \/ ToldAfter(j, progressCh', 0) \/ ToldAfter(j, link', 0)
    <3>1. j \in lost \/ ToldAfter(j, progressCh, 0) \/ ToldAfter(j, link, 0)
      BY <2>1 DEF EventInv, ShownInv
    <3>2. 0 \in 0..Len(link) /\ 0 \in Nat
      BY <1>2
    <3>3. QED
      BY <3>1, <3>2, <1>6, <1>8, <1>14
  <2>2. QED
    BY <1>1, <2>1 DEF ShownInv, ToldAfter, hookVars
<1>18. QED
  BY <1>11, <1>12, <1>13, <1>15, <1>16, <1>17 DEF EventInv

LEMMA UpdateFromWSKeeps ==
  ASSUME PipeInv, UpdateFromWS
  PROVE  PipeInv'
<1> USE DEF PipeInv
<1> DEFINE e == Head(link)
<1>1. /\ link # <<>> /\ link' = Tail(link)
      /\ status' = [status EXCEPT ![e.job] = IF @ = "cleared" THEN @ ELSE e.status]
      /\ UNCHANGED <<slotVars, queue, activeCount, browserMax, lastConnId, settings,
                     target, serverVars, wsConn, lost, dropped>>
  BY DEF UpdateFromWS
<1>2. progressCh \in Seq(Event) /\ link \in Seq(Event)
  BY DEF PipeTypes
<1>3. /\ e \in Event /\ e.job \in Jobs /\ e = link[1] /\ 1 \in 1..Len(link)
      /\ e.status \in {"uploading", "done", "error"}
  BY <1>1, <1>2, EventJobs
<1> HIDE DEF e
<1>4. /\ link' \in Seq(Event) /\ Len(link') + 1 = Len(link)
      /\ \A x \in 1..Len(link') : link'[x] = link[x + 1] /\ x + 1 \in 1..Len(link)
  BY <1>1, <1>2
<1>5. \A j \in Jobs : /\ \A x \in Nat : ToldAfter(j, link, x + 1) => ToldAfter(j, link', x)
                      /\ ToldAfter(j, link, 0) => \/ ToldAfter(j, link', 0)
                                                  \/ e.job = j /\ e.status # "uploading"
  BY <1>1, <1>2, ToldTail DEF e
<1>6. \A j \in Jobs : j # e.job => status'[j] = status[j]
  BY <1>1 DEF PipeTypes
<1>7. status'[e.job] = IF status[e.job] = "cleared" THEN "cleared" ELSE e.status
  BY <1>1, <1>3 DEF PipeTypes
<1>8. PipeTypes'
  <2>1. Len(link') <= LinkCap
    BY <1>2, <1>4, CapAssumption DEF PipeTypes
  <2>2. status' \in [Jobs -> ItemStatus]
    BY <1>1, <1>3 DEF PipeTypes, ItemStatus
  <2>3. QED
    BY <1>1, <1>4, <2>1, <2>2 DEF PipeTypes, serverVars
<1>9. QueueInv'
  <2>1. request[e.job] # "none"
    BY <1>3 DEF EventInv, EventsFit
  <2>2. status[e.job] \notin {"new", "pending"} /\ status'[e.job] \notin {"new", "pending"}
    BY <2>1, <1>3, <1>7 DEF QueueInv
  <2>3. \A j \in Jobs : status'[j] \in {"new", "pending"} \/ status[j] \in {"new", "pending"}
                           => status'[j] = status[j]
    BY <1>6, <2>2
  <2>4. UnderWay' = UnderWay
    BY <1>1 DEF UnderWay, serverVars
  <2>5. QED
    BY <1>1, <2>3, <2>4 DEF QueueInv, BrowserKeepsSlotsBusy, serverVars, Among, Distinct
<1>10. EventsFit'
  BY <1>1, <1>4 DEF EventInv, EventsFit, serverVars
<1>11. LastEventIsLast'
  <2>1. ASSUME NEW x \in 1..Len(link'), link'[x].status = "uploading",
               request[link'[x].job] \in Ended
        PROVE  \/ link'[x].job \in lost \/ ToldAfter(link'[x].job, link', x)
               \/ ToldAfter(link'[x].job, progressCh, 0)
    <3>1. link'[x].job \in Jobs /\ x \in Nat
      BY <1>4, EventJobs
    <3>2. \/ link'[x].job \in lost \/ ToldAfter(link'[x].job, link, x + 1)
          \/ ToldAfter(link'[x].job, progressCh, 0)
      BY <1>4, <2>1 DEF EventInv, LastEventIsLast
    <3>3. QED
      BY <3>1, <3>2, <1>5
  <2>2. QED
    BY <1>1, <2>1 DEF EventInv, LastEventIsLast, ToldAfter, serverVars
<1>12. HubInv'
  BY <1>1 DEF EventInv, HubInv, ToldAfter, serverVars
<1>13. ShownInv'
  <2>1. ASSUME NEW j \in Jobs, status'[j] = "uploading", request[j] = "settled"
        PROVE  j \in lost \/ ToldAfter(j, progressCh, 0) \/ ToldAfter(j, link', 0)
    <3>1. CASE j = e.job
      <4>1. e.status = "uploading"
        BY <2>1, <3>1, <1>7
      <4>2. e.job \in lost \/ ToldAfter(e.job, link, 0 + 1) \/ ToldAfter(e.job, progressCh, 0)
        BY <4>1, <2>1, <3>1, <1>3 DEF EventInv, LastEventIsLast, Ended
      <4>3. QED
        BY <3>1, <4>2, <1>3, <1>5
    <3>2. CASE j # e.job
      BY <2>1, <3>2, <1>5, <1>6 DEF EventInv, ShownInv
    <3>3. QED
      BY <3>1, <3>2
  <2>2. QED
    BY <1>1, <2>1 DEF ShownInv, ToldAfter, serverVars
<1>14. QED
  BY <1>8, <1>9, <1>10, <1>11, <1>12, <1>13 DEF EventInv

LEMMA SocketKeeps ==
  ASSUME PipeInv, CloseSocket \/ \E c \in Conns : OpenSocket(c)
  PROVE  PipeInv'
<1> USE DEF PipeInv
<1>1. ASSUME NEW c \in Conns, OpenSocket(c) PROVE PipeInv'
  <2>1. UNCHANGED <<slotVars, hookVars, serverVars, link, lost, dropped>> /\ wsConn' = c
    BY <1>1 DEF OpenSocket
  <2>2. PipeTypes'
    BY <2>1 DEF PipeTypes, hookVars, serverVars
  <2>3. QueueInv'
    BY <2>1, QueueStands DEF serverVars
  <2>4. EventInv'
    BY <2>1, EventsStand DEF hookVars, serverVars
  <2>5. QED
    BY <2>2, <2>3, <2>4
<1>2. CASE CloseSocket
  <2>1. /\ UNCHANGED <<slotVars, hookVars, serverVars, dropped>>
        /\ wsConn' = NoConn /\ link' = <<>>
        /\ lost' = lost \cup {e.job : e \in {f \in ToSet(link) : f.status # "uploading"}}
    BY <1>2 DEF CloseSocket
  <2>2. link \in Seq(Event) /\ progressCh \in Seq(Event)
    BY DEF PipeTypes
  <2>3. \A y \in 1..Len(link) : link[y].status # "uploading" => link[y].job \in lost'
    <3>1. \A y \in 1..Len(link) : link[y] \in ToSet(link)
      BY <2>2 DEF ToSet
    <3>2. QED
      BY <3>1, <2>1
  <2>4. \A j \in Jobs, x \in Nat : ToldAfter(j, link, x) => j \in lost'
    BY <2>3 DEF ToldAfter
  <2>5. lost \subseteq lost' /\ lost' \subseteq Jobs
    <3>1. \A f \in ToSet(link) : f.job \in Jobs
      BY <2>2, EventJobs DEF ToSet
    <3>2. QED
      BY <3>1, <2>1 DEF PipeTypes
  <2>6. PipeTypes'
    <3>1. link' \in Seq(Event) /\ Len(link') = 0
      BY <2>1
    <3>2. QED
      BY <2>1, <2>5, <3>1, CapAssumption DEF PipeTypes, hookVars, serverVars
  <2>7. QueueInv'
    BY <2>1, QueueStands DEF serverVars
  <2>8. EventsFit' /\ LastEventIsLast'
    BY <2>1, <2>5 DEF EventInv, EventsFit, LastEventIsLast, ToldAfter, serverVars
  <2>9. HubInv'
    BY <2>1, <2>5 DEF EventInv, HubInv, ToldAfter, serverVars
  <2>10. ShownInv'
    <3>1. \A j \in Jobs : status[j] = "uploading" /\ request[j] = "settled"
             => j \in lost' \/ ToldAfter(j, progressCh, 0)
      BY <2>4, <2>5 DEF EventInv, ShownInv
    <3>2. QED
      BY <2>1, <3>1 DEF ShownInv, ToldAfter, hookVars, serverVars
  <2>11. QED
    BY <2>6, <2>7, <2>8, <2>9, <2>10 DEF EventInv
<1>3. QED
  BY <1>1, <1>2

LEMMA PipeInit == Init => PipeInv
<1> SUFFICES ASSUME Init PROVE PipeInv
  OBVIOUS
<1> USE DEF Init
<1>1. PipeTypes
  BY CapAssumption DEF PipeTypes, ItemStatus, RequestState
<1>2. QueueInv
  <2>1. UnderWay = {}
    BY DEF UnderWay
  <2>2. Cardinality(UnderWay) = 0
    BY <2>1, FS_EmptySet
  <2>3. QED
    BY <2>2 DEF QueueInv, Distinct, Among, BrowserKeepsSlotsBusy
<1>3. EventInv
  BY DEF EventInv, EventsFit, LastEventIsLast, HubInv, ShownInv
<1>4. QED
  BY <1>1, <1>2, <1>3 DEF PipeInv

LEMMA PipeStep == PipeInv /\ [Next]_vars => PipeInv'
<1> SUFFICES ASSUME PipeInv, [Next]_vars PROVE PipeInv'
  OBVIOUS
<1>1. ASSUME NEW i \in Jobs, NEW c \in Conns, Enqueue(i, c) PROVE PipeInv'
  BY <1>1, EnqueueKeeps
<1>2. ASSUME NEW c \in Conns, EnqueueTreeBegins(c) PROVE PipeInv'
  BY <1>2, EnqueueTreeKeeps
<1>3. ASSUME NEW i \in Jobs, ReplyArrives(i) PROVE PipeInv'
  BY <1>3, ReplyArrivesKeeps
<1>4. ASSUME NEW i \in Jobs,
             \/ RejectPost(i) \/ RegisterJob(i) \/ AcquireSlot(i) \/ BeginTransfer(i)
             \/ ReportProgress(i) \/ EndTransfer(i, "done") \/ EndTransfer(i, "error")
             \/ ReleaseSlot(i)
      PROVE  PipeInv'
  BY <1>4, HandlerKeeps
<1>5. ASSUME NEW n \in Requested, SettingsReachServer(n) PROVE PipeInv'
  BY <1>5, SettingsReachServerKeeps
<1>6. CASE SettingsReachBrowser
  BY <1>6, SettingsReachBrowserKeeps
<1>7. CASE UpdateFromWS
  BY <1>7, UpdateFromWSKeeps
<1>8. CASE ClearCompleted
  BY <1>8, ClearCompletedKeeps
<1>9. CASE HandleProgress
  BY <1>9, HandleProgressKeeps
<1>10. CASE CloseSocket \/ \E c \in Conns : OpenSocket(c)
  BY <1>10, SocketKeeps
<1>11. CASE UNCHANGED vars
  <2>1. UNCHANGED <<hookVars, serverVars, linkVars>>
    BY <1>11 DEF vars
  <2>2. PipeTypes'
    BY <2>1 DEF PipeInv, PipeTypes, hookVars, serverVars, linkVars
  <2>3. QueueInv'
    BY <2>1, QueueStands DEF serverVars
  <2>4. EventInv'
    BY <2>1, EventsStand DEF hookVars, serverVars, linkVars
  <2>5. QED
    BY <2>2, <2>3, <2>4 DEF PipeInv
<1>12. QED
  BY <1>1, <1>2, <1>3, <1>4, <1>5, <1>6, <1>7, <1>8, <1>9, <1>10, <1>11 DEF Next

LEMMA PipeInvariant == Spec => []PipeInv
BY PipeInit, PipeStep, PTL DEF Spec

--------------------------------------------------------------------------------
(* What the invariant gives *)

\* Every variable of the pipeline keeps its type, for any files, connections and
\* buffers: the browser's count of POSTs stays within 0 and the number of files.
THEOREM PipelineTypes == Spec => []TypeOK
<1>1. SlotTypeOK /\ PipeInv => TypeOK
  <2> SUFFICES ASSUME SlotTypeOK, PipeInv PROVE TypeOK
    OBVIOUS
  <2>1. Cardinality(UnderWay) <= Cardinality(Jobs)
    BY JobsFinite, FS_Subset DEF UnderWay
  <2>2. activeCount \in 0..Cardinality(Jobs)
    <3>1. Cardinality(Jobs) \in Nat
      BY JobsFinite, FS_CardinalityType
    <3>2. QED
      BY <2>1, <3>1, UnderWayFinite DEF PipeInv, QueueInv, BrowserKeepsSlotsBusy
  <2>3. QED
    BY <2>2 DEF PipeInv, PipeTypes, TypeOK
<1>2. QED
  BY <1>1, PipeInvariant, PipelineUsesLimiter, SlotTypeCorrect, PTL

\* The browser counts its POSTs exactly and leaves no file pending beside a free slot,
\* however the POSTs end and the limit changes.
THEOREM NoFreeSlotLeft == Spec => []BrowserKeepsSlotsBusy
<1>1. PipeInv => BrowserKeepsSlotsBusy
  BY DEF PipeInv, QueueInv
<1>2. QED
  BY <1>1, PipeInvariant, PTL

\* The hub keeps no entry of a job that is over, but for one whose last event is still
\* to come or found the channel full.
THEOREM HubForgets == Spec => []HubForgetsFinishedJobs
<1>1. PipeInv => HubForgetsFinishedJobs
  <2> SUFFICES ASSUME PipeInv, NEW i \in Jobs, hubJobs[i] # NoConn,
                      request[i] \in {"replyOK", "replyFailed", "settled"}, i \notin dropped
               PROVE  \E e \in ToSet(progressCh) : e.job = i /\ e.status # "uploading"
    BY DEF HubForgetsFinishedJobs
  <2>1. ToldAfter(i, progressCh, 0)
    BY DEF PipeInv, EventInv, HubInv, Ended
  <2>2. progressCh \in Seq(Event)
    BY DEF PipeInv, PipeTypes
  <2>3. QED
    BY <2>1, <2>2 DEF ToldAfter, ToSet
<1>2. QED
  BY <1>1, PipeInvariant, PTL

\* A finished upload that is still shown as uploading waits for its last event, which
\* is under way unless it was lost: no late progress message comes after it.
THEOREM NoUploadLooksStuck == Spec => []StuckOnlyAfterLoss
<1>1. PipeInv => StuckOnlyAfterLoss
  <2> SUFFICES ASSUME PipeInv, NEW i \in Jobs, status[i] = "uploading", request[i] = "settled",
                      i \notin lost
               PROVE  \E e \in ToSet(progressCh \o link) : e.job = i /\ e.status # "uploading"
    BY DEF StuckOnlyAfterLoss
  <2>1. ToldAfter(i, progressCh, 0) \/ ToldAfter(i, link, 0)
    BY DEF PipeInv, EventInv, ShownInv
  <2>2. progressCh \in Seq(Event) /\ link \in Seq(Event)
    BY DEF PipeInv, PipeTypes
  <2>3. /\ \A y \in 1..Len(progressCh) : progressCh[y] \in ToSet(progressCh \o link)
        /\ \A y \in 1..Len(link) : link[y] \in ToSet(progressCh \o link)
    <3> DEFINE s == progressCh \o link
    <3>1. /\ s \in Seq(Event) /\ Len(s) = Len(progressCh) + Len(link)
          /\ \A y \in 1..Len(s) : s[y] = IF y <= Len(progressCh) THEN progressCh[y]
                                         ELSE link[y - Len(progressCh)]
      BY <2>2, ConcatProperties
    <3>2. \A y \in 1..Len(s) : s[y] \in ToSet(s)
      BY <3>1 DEF ToSet
    <3>3. ASSUME NEW y \in 1..Len(progressCh) PROVE progressCh[y] \in ToSet(s)
      BY <2>2, <3>1, <3>2
    <3>4. ASSUME NEW y \in 1..Len(link) PROVE link[y] \in ToSet(s)
      <4> HIDE DEF s
      <4>1. y + Len(progressCh) \in 1..Len(s) /\ s[y + Len(progressCh)] = link[y]
        <5>1. Len(progressCh) \in Nat /\ Len(link) \in Nat /\ y \in Nat /\ 1 <= y /\ y <= Len(link)
          BY <2>2
        <5>2. y + Len(progressCh) \in 1..Len(s) /\ ~(y + Len(progressCh) <= Len(progressCh))
              /\ (y + Len(progressCh)) - Len(progressCh) = y
          BY <3>1, <5>1
        <5>3. QED
          BY <3>1, <5>2
      <4>2. QED
        BY <3>2, <4>1
    <3>5. QED
      BY <3>3, <3>4
  <2>4. QED
    BY <2>1, <2>3 DEF ToldAfter
<1>2. QED
  BY <1>1, PipeInvariant, PTL

================================================================================
