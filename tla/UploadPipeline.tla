---------------------------- MODULE UploadPipeline ----------------------------
(***************************************************************************)
(* A file's way from the browser's upload queue to its last progress       *)
(* event:                                                                  *)
(*                                                                         *)
(*   useUploadQueue.ts  --POST-->  handleSFTPUpload --> UploadQueue.Upload *)
(*         ^   ^                        |                     |            *)
(*         |   +------- reply ----------+                progressCh        *)
(*         |                                                  |            *)
(*         +--- /ws/sftp ---  sftpWSHub.HandleProgress  <-----+            *)
(*                                                                         *)
(* The limiter inside Upload is UploadSlots, which this module extends;    *)
(* the identity of an item of the browser's queue is the job_id the server *)
(* sees.  The browser is single-threaded: one action is one run of         *)
(* JavaScript between two awaits.  On the server an action is one critical *)
(* section, channel operation or remote call.                              *)
(***************************************************************************)
EXTENDS UploadSlots, Sequences, SequencesExt

CONSTANTS
    Conns,     \* SSH connections files are uploaded to
    NoConn,    \* no connection
    NoLimit,   \* no settings request is under way
    ChanCap,   \* capacity of progressCh (100 in the code)
    LinkCap    \* messages the WebSocket's buffers hold before a write blocks

ASSUME ConnAssumption == NoConn \notin Conns
ASSUME LimitAssumption == NoLimit \notin Requested
ASSUME CapAssumption == ChanCap \in Nat \ {0} /\ LinkCap \in Nat \ {0}

VARIABLES
    (* useUploadQueue.ts *)
    queue,        \* the items, in the order they were enqueued
    status,       \* each item's status
    activeCount,  \* the POSTs under way
    browserMax,   \* the store's maxConcurrent
    lastConnId,   \* the store's lastConnId
    settings,     \* limit of the PUT /settings whose reply is awaited
    target,       \* the connection the user dropped each file on
    (* HTTP and server *)
    postedTo,     \* the connection in the URL of each item's POST
    request,      \* where each POST is
    progressCh,   \* q.progressCh
    hubJobs,      \* sftpWSHub.jobs
    (* /ws/sftp *)
    wsConn,       \* the connection whose hub entry holds the page's socket
    link,         \* messages under way to the page
    (* history *)
    lost,         \* items whose done/error event never reached the page
    dropped       \* those among them whose event found progressCh full

hookVars == <<queue, status, activeCount, browserMax, lastConnId, settings, target>>
serverVars == <<postedTo, request, progressCh, hubJobs>>
linkVars == <<wsConn, link, lost, dropped>>
vars == <<slotVars, hookVars, serverVars, linkVars>>

ItemStatus == {"new", "pending", "uploading", "done", "error", "cleared"}

\* A POST: not sent; sent; job registered with the hub; transferring; transfer
\* over, well or badly; reply on its way; reply handled.
RequestState == {"none", "posted", "registered", "transferring", "ok", "failed",
                 "replyOK", "replyFailed", "settled"}

Event == [job : Jobs, status : {"uploading", "done", "error"}]

Init ==
    /\ SlotInit
    /\ queue = <<>>
    /\ status = [i \in Jobs |-> "new"]
    /\ activeCount = 0
    /\ browserMax = 3
    /\ lastConnId = NoConn
    /\ settings = NoLimit
    /\ target = [i \in Jobs |-> NoConn]
    /\ postedTo = [i \in Jobs |-> NoConn]
    /\ request = [i \in Jobs |-> "none"]
    /\ progressCh = <<>>
    /\ hubJobs = [i \in Jobs |-> NoConn]
    /\ wsConn = NoConn
    /\ link = <<>>
    /\ lost = {} /\ dropped = {}

--------------------------------------------------------------------------------
(* The browser: useUploadQueue.ts *)

AtMost(a, b) == IF a < b THEN a ELSE b

\* Where in a queue its pending items are, given the statuses st.
PendingAt(q, st) == {x \in DOMAIN q : st[q[x]] = "pending"}

\* The first n positions of a set of them.
FirstOf(P, n) == {x \in P : Cardinality({y \in P : y < x}) < n}

\* processQueue(c), up to k times in a row, on a queue q with statuses st and
\* ac POSTs under way: each call posts the first pending item to c.
ProcessQueue(q, st, ac, max, k, c) ==
    LET started == {q[x] : x \in FirstOf(PendingAt(q, st), AtMost(k, max - ac))}
    IN  /\ status' = [i \in Jobs |-> IF i \in started THEN "uploading" ELSE st[i]]
        /\ activeCount' = ac + Cardinality(started)
        /\ postedTo' = [i \in Jobs |-> IF i \in started THEN c ELSE postedTo[i]]

\* The POSTs that ProcessQueue sends, given the requests rq it finds.
SendPosts(rq) ==
    request' = [i \in Jobs |->
        IF status'[i] = "uploading" /\ rq[i] = "none" THEN "posted" ELSE rq[i]]

\* enqueue(c, file, remotePath), and each turn of enqueueTree's last loop.
Enqueue(i, c) ==
    /\ status[i] = "new"
    /\ lastConnId' = c
    /\ target' = [target EXCEPT ![i] = c]
    /\ queue' = Append(queue, i)
    /\ ProcessQueue(queue', [status EXCEPT ![i] = "pending"], activeCount,
                    browserMax, 1, c)
    /\ SendPosts(request)
    /\ UNCHANGED <<slotVars, browserMax, settings, progressCh, hubJobs, linkVars>>

\* enqueueTree notes the connection before it creates the directories.
EnqueueTreeBegins(c) ==
    /\ lastConnId' = c
    /\ UNCHANGED <<slotVars, queue, status, activeCount, browserMax, settings, target,
                   serverVars, linkVars>>

\* A reply handler that goes on to the next item only when the POST succeeded.
ReplyArrivesNextOnSuccess(i) ==
    LET ok == request[i] = "replyOK"
        st == [status EXCEPT ![i] = IF @ = "cleared" THEN @
                                    ELSE IF ok THEN "done" ELSE "error"]
    IN  /\ request[i] \in {"replyOK", "replyFailed"}
        /\ ProcessQueue(queue, st, activeCount - 1, browserMax, IF ok THEN 1 ELSE 0,
                        postedTo[i])
        /\ SendPosts([request EXCEPT ![i] = "settled"])
        /\ UNCHANGED <<slotVars, queue, browserMax, lastConnId, settings, target,
                       progressCh, hubJobs, linkVars>>

\* The reply to a POST: the item's status, the slot, and the next item.
ReplyArrives(i) ==
    LET ok == request[i] = "replyOK"
        st == [status EXCEPT ![i] =
                 IF @ = "cleared" THEN @
                 ELSE IF ok THEN (IF @ = "error" THEN @ ELSE "done")
                 ELSE (IF @ = "done" THEN @ ELSE "error")]
    IN  /\ request[i] \in {"replyOK", "replyFailed"}
        /\ ProcessQueue(queue, st, activeCount - 1, browserMax, 1, postedTo[i])
        /\ SendPosts([request EXCEPT ![i] = "settled"])
        /\ UNCHANGED <<slotVars, queue, browserMax, lastConnId, settings, target,
                       progressCh, hubJobs, linkVars>>

\* An updateFromWS that does not know the upload_error message.
UpdateFromWSIgnoringErrors ==
    /\ link # <<>>
    /\ LET e == Head(link)
       IN  status' = [status EXCEPT ![e.job] =
                        IF @ = "cleared" \/ e.status = "error" THEN @ ELSE e.status]
    /\ link' = Tail(link)
    /\ UNCHANGED <<slotVars, queue, activeCount, browserMax, lastConnId, settings,
                   target, serverVars, wsConn, lost, dropped>>

\* updateFromWS on the next message of the socket.
UpdateFromWS ==
    /\ link # <<>>
    /\ LET e == Head(link)
       IN  status' = [status EXCEPT ![e.job] =
                        IF @ = "cleared" THEN @ ELSE e.status]
    /\ link' = Tail(link)
    /\ UNCHANGED <<slotVars, queue, activeCount, browserMax, lastConnId, settings,
                   target, serverVars, wsConn, lost, dropped>>

\* FileManager clears the finished items once nothing is pending or uploading.
ClearCompleted ==
    /\ \A x \in DOMAIN queue : status[queue[x]] \in {"done", "error"}
    /\ queue # <<>>
    /\ status' = [i \in Jobs |-> IF i \in ToSet(queue) THEN "cleared" ELSE status[i]]
    /\ queue' = <<>>
    /\ UNCHANGED <<slotVars, activeCount, browserMax, lastConnId, settings, target,
                   serverVars, linkVars>>

\* update({upload_max_concurrent: n}): handleUpdateSettings sets the server's
\* limit before it answers.
SettingsReachServer(n) ==
    /\ settings = NoLimit
    /\ SetMaxConcurrent(n)
    /\ settings' = n
    /\ UNCHANGED <<queue, status, activeCount, browserMax, lastConnId, target,
                   serverVars, linkVars>>

\* A store that takes the number as it is.
SettingsReachBrowserUnclamped ==
    /\ settings # NoLimit
    /\ settings' = NoLimit
    /\ browserMax' = settings
    /\ ProcessQueue(queue, status, activeCount, browserMax',
                    IF lastConnId = NoConn THEN 0 ELSE Len(queue), lastConnId)
    /\ SendPosts(request)
    /\ UNCHANGED <<slotVars, queue, lastConnId, target, progressCh, hubJobs, linkVars>>

\* ... and the store applies the same number when the answer arrives:
\* setMaxConcurrent clamps it its own way and fills the new slots.
SettingsReachBrowser ==
    /\ settings # NoLimit
    /\ settings' = NoLimit
    /\ browserMax' = IF settings < 1 THEN 1 ELSE AtMost(10, settings)
    /\ ProcessQueue(queue, status, activeCount, browserMax',
                    IF lastConnId = NoConn THEN 0 ELSE Len(queue), lastConnId)
    /\ SendPosts(request)
    /\ UNCHANGED <<slotVars, queue, lastConnId, target, progressCh, hubJobs, linkVars>>

--------------------------------------------------------------------------------
(* The server: handleSFTPUpload and UploadQueue.Upload *)

\* getSFTPClient, the form or EnsureRemoteDir fails: an error reply, no job.
RejectPost(i) ==
    /\ request[i] = "posted"
    /\ request' = [request EXCEPT ![i] = "replyFailed"]
    /\ UNCHANGED <<slotVars, hookVars, postedTo, progressCh, hubJobs, linkVars>>

\* RegisterJob: the hub learns whose sockets follow the job.
RegisterJob(i) ==
    /\ request[i] = "posted"
    /\ request' = [request EXCEPT ![i] = "registered"]
    /\ hubJobs' = [hubJobs EXCEPT ![i] = postedTo[i]]
    /\ UNCHANGED <<slotVars, hookVars, postedTo, progressCh, linkVars>>

\* Upload's acquire.
AcquireSlot(i) ==
    /\ request[i] = "registered"
    /\ Acquire(i)
    /\ UNCHANGED <<hookVars, serverVars, linkVars>>

\* notify: a send on progressCh that gives up when the channel is full; an
\* event that ends the job is then lost.
Notify(i, st) ==
    \/ /\ Len(progressCh) < ChanCap
       /\ progressCh' = Append(progressCh, [job |-> i, status |-> st])
       /\ UNCHANGED <<lost, dropped>>
    \/ /\ Len(progressCh) = ChanCap
       /\ IF st = "uploading" THEN UNCHANGED <<lost, dropped>>
          ELSE lost' = lost \cup {i} /\ dropped' = dropped \cup {i}
       /\ UNCHANGED progressCh

\* The first notification of a transfer, with its slot held.
BeginTransfer(i) ==
    /\ request[i] = "registered"
    /\ slot[i] = "holding"
    /\ request' = [request EXCEPT ![i] = "transferring"]
    /\ Notify(i, "uploading")
    /\ UNCHANGED <<slotVars, hookVars, postedTo, hubJobs, wsConn, link>>

\* At most ten times a second while bytes are written.
ReportProgress(i) ==
    /\ request[i] = "transferring"
    /\ Notify(i, "uploading")
    /\ UNCHANGED <<slotVars, hookVars, postedTo, request, hubJobs, wsConn, link>>

\* The whole file is written, or Create, Write or Read fails.
EndTransfer(i, st) ==
    /\ request[i] = "transferring"
    /\ request' = [request EXCEPT ![i] = IF st = "done" THEN "ok" ELSE "failed"]
    /\ Notify(i, st)
    /\ UNCHANGED <<slotVars, hookVars, postedTo, hubJobs, wsConn, link>>

\* The deferred release, after which the handler answers.
ReleaseSlot(i) ==
    /\ request[i] \in {"ok", "failed"}
    /\ Release(i)
    /\ request' = [request EXCEPT ![i] = IF @ = "ok" THEN "replyOK" ELSE "replyFailed"]
    /\ UNCHANGED <<hookVars, postedTo, progressCh, hubJobs, linkVars>>

--------------------------------------------------------------------------------
(* runUploadProgressBroadcast, the hub and /ws/sftp *)

\* HandleProgress as it would be if a job were forgotten when its last event is
\* written to a socket.
HandleProgressForgetsOnDelivery ==
    /\ progressCh # <<>>
    /\ LET e == Head(progressCh)
           c == hubJobs[e.job]
           last == e.status # "uploading"
       IN  IF c # NoConn /\ wsConn = c
           THEN /\ Len(link) < LinkCap /\ link' = Append(link, e) /\ UNCHANGED lost
                /\ hubJobs' = IF last THEN [hubJobs EXCEPT ![e.job] = NoConn] ELSE hubJobs
           ELSE /\ lost' = IF last THEN lost \cup {e.job} ELSE lost
                /\ UNCHANGED <<link, hubJobs>>
    /\ progressCh' = Tail(progressCh)
    /\ UNCHANGED <<slotVars, hookVars, postedTo, request, wsConn, dropped>>

\* HandleProgress: a done or error event unregisters its job; the event goes to
\* the sockets of the job's connection, and the broadcaster waits while the
\* socket's buffers are full.
HandleProgress ==
    /\ progressCh # <<>>
    /\ LET e == Head(progressCh)
           c == hubJobs[e.job]
       IN  /\ hubJobs' = IF e.status = "uploading" THEN hubJobs
                         ELSE [hubJobs EXCEPT ![e.job] = NoConn]
           /\ IF c # NoConn /\ wsConn = c
              THEN Len(link) < LinkCap /\ link' = Append(link, e) /\ UNCHANGED lost
              ELSE /\ lost' = IF e.status = "uploading" THEN lost ELSE lost \cup {e.job}
                   /\ UNCHANGED link
    /\ progressCh' = Tail(progressCh)
    /\ UNCHANGED <<slotVars, hookVars, postedTo, request, wsConn, dropped>>

\* The page shows connection c: useSftpProgress opens a socket, handleSFTPWS
\* adds it to the hub.
OpenSocket(c) ==
    /\ wsConn = NoConn
    /\ wsConn' = c
    /\ UNCHANGED <<slotVars, hookVars, serverVars, link, lost, dropped>>

\* The page leaves the connection or the socket breaks: what is under way is
\* gone, and useSftpProgress does not reconnect by itself.
CloseSocket ==
    /\ wsConn # NoConn
    /\ wsConn' = NoConn
    /\ link' = <<>>
    /\ lost' = lost \cup {e.job : e \in {f \in ToSet(link) : f.status # "uploading"}}
    /\ UNCHANGED <<slotVars, hookVars, serverVars, dropped>>

Next ==
    \/ \E i \in Jobs, c \in Conns : Enqueue(i, c)
    \/ \E c \in Conns : EnqueueTreeBegins(c) \/ OpenSocket(c)
    \/ \E i \in Jobs :
          \/ ReplyArrives(i)
          \/ RejectPost(i)
          \/ RegisterJob(i)
          \/ AcquireSlot(i)
          \/ BeginTransfer(i)
          \/ ReportProgress(i)
          \/ EndTransfer(i, "done")
          \/ EndTransfer(i, "error")
          \/ ReleaseSlot(i)
    \/ \E n \in Requested : SettingsReachServer(n)
    \/ SettingsReachBrowser
    \/ UpdateFromWS
    \/ ClearCompleted
    \/ HandleProgress
    \/ CloseSocket

\* Goroutines are scheduled, a transfer ends (the transport reports an error
\* when it is dead), and a reply or message under way arrives.  Nothing makes
\* the user enqueue files, change settings or look at a page.
Fairness ==
    /\ \A i \in Jobs :
          /\ WF_vars(RegisterJob(i))
          /\ WF_vars(AcquireSlot(i))
          /\ WF_vars(BeginTransfer(i))
          /\ WF_vars(EndTransfer(i, "done") \/ EndTransfer(i, "error"))
          /\ WF_vars(ReleaseSlot(i))
          /\ WF_vars(ReplyArrives(i))
    /\ WF_vars(SettingsReachBrowser)
    /\ WF_vars(HandleProgress)
    /\ WF_vars(UpdateFromWS)

Spec == Init /\ [][Next]_vars /\ Fairness

--------------------------------------------------------------------------------
(* Properties *)

\* Every variable keeps its type: the browser's limit stays within 1..10 and its
\* count of POSTs within 0 and the number of files, and no buffer overflows.
TypeOK ==
    /\ SlotTypeOK
    /\ queue \in Seq(Jobs)
    /\ status \in [Jobs -> ItemStatus]
    /\ activeCount \in 0..Cardinality(Jobs)
    /\ browserMax \in 1..10
    /\ lastConnId \in Conns \cup {NoConn}
    /\ settings \in Requested \cup {NoLimit}
    /\ target \in [Jobs -> Conns \cup {NoConn}]
    /\ postedTo \in [Jobs -> Conns \cup {NoConn}]
    /\ request \in [Jobs -> RequestState]
    /\ progressCh \in Seq(Event) /\ Len(progressCh) <= ChanCap
    /\ hubJobs \in [Jobs -> Conns \cup {NoConn}]
    /\ wsConn \in Conns \cup {NoConn}
    /\ link \in Seq(Event) /\ Len(link) <= LinkCap
    /\ lost \subseteq Jobs /\ dropped \subseteq lost

UnderWay == {i \in Jobs : request[i] \notin {"none", "settled"}}

\* The browser never leaves a file waiting while it has a free slot: its
\* pending items wait only behind browserMax POSTs that are under way, whatever
\* way the limit was raised, lowered and the POSTs ended.
BrowserKeepsSlotsBusy ==
    /\ activeCount = Cardinality(UnderWay)
    /\ (\E i \in Jobs : status[i] = "pending") => activeCount >= browserMax

\* The hub forgets a job with its last event: an entry that outlives its upload
\* still has that event to come, or found the channel full when it ended.  That no
\* socket follows the job is no reason to keep it.
HubForgetsFinishedJobs ==
    \A i \in Jobs :
        hubJobs[i] # NoConn /\ request[i] \in {"replyOK", "replyFailed", "settled"}
            => \/ i \in dropped
               \/ \E e \in ToSet(progressCh) : e.job = i /\ e.status # "uploading"

\* An item that is shown as uploading although its reply was handled is waiting
\* for its last event, unless that event was lost: a late progress message puts
\* a finished item back to uploading, and only done or error ends that.
StuckOnlyAfterLoss ==
    \A i \in Jobs :
        status[i] = "uploading" /\ request[i] = "settled"
            => \/ i \in lost
               \/ \E e \in ToSet(progressCh \o link) :
                     e.job = i /\ e.status # "uploading"

\* Every file the user enqueues gets its reply, whether it is posted at once or has
\* to wait, whatever the limits do and however the POSTs before it end.
EveryUploadSettles ==
    \A i \in Jobs : (status[i] # "new") ~> (request[i] = "settled")

\* The upload of a file goes to the connection the user dropped it on.
UploadGoesToItsTarget ==
    \A i \in Jobs : postedTo[i] # NoConn => postedTo[i] = target[i]

================================================================================
