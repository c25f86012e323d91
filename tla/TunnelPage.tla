------------------------------ MODULE TunnelPage ------------------------------
(***************************************************************************)
(* The Proxy page: tunnelStore.ts, fed by replies, by the lifecycle events *)
(* of /ws/tunnels and by the snapshots the daemon sends to every client    *)
(* whenever one connects, and the two lists that start, stop and delete    *)
(* tunnels.  The store and its socket live as long as the page; the lists'  *)
(* own state goes when the user turns to another part of the page.  The    *)
(* daemon's side of a request is one step here; TunnelManager has what     *)
(* happens inside it.  Statistics are left out: they are shown and nothing *)
(* depends on them.                                                        *)
(***************************************************************************)
EXTENDS Integers, FiniteSets, Sequences

CONSTANTS
    SocksTunnels,   \* rows of ProxyManager's list
    Forwards,       \* rows of PortForwardList
    Created,        \* those that the user creates; the others are there
    Blocked,        \* those whose port is taken: each start of them is refused
    NoTunnel,
    TunnelCalls,    \* requests the page can have under way
    EventCap        \* events the socket's buffers hold before an emit waits

Tunnels == SocksTunnels \cup Forwards

ASSUME TunnelPageAssumption ==
    NoTunnel \notin Tunnels /\ Created \subseteq Tunnels /\ EventCap \in Nat

VARIABLES
    daemonStatus,   \* what Enrich puts on each row; an id is not used again
    shownStatus,    \* the store's tunnels
    doubled,        \* those it has two rows of, shownStatus being the first one's
    busy,           \* the busy flag of each list
    tunnelCalls,    \* the requests
    tunnelEvents,   \* events on their way to the page, in order
    listing,        \* a list of all rows on its way to the page, if any
    tunnelSocket,
    (* history *)
    clobbered,      \* a busy flag was taken over or down by another row, and requests
                    \* of that time are still under way
    outdated        \* the page applied rows that had changed by then

tunnelPageVars == <<daemonStatus, shownStatus, doubled, busy, tunnelCalls, tunnelEvents,
                    listing, tunnelSocket, clobbered, outdated>>

Lists == {"socks", "forwards"}
ListOf(t) == IF t \in SocksTunnels THEN "socks" ELSE "forwards"
RowStatus == {"absent", "stopped", "running", "error"}
RowOps == {"start", "stop", "delete"}

\* Rows a request or an event brings: all of them, one, or none.
RowsOf(some) == [some -> RowStatus \cup {"deleted"}]
AllRows == RowsOf(Tunnels)
AnyRows == AllRows \cup RowsOf({}) \cup UNION {RowsOf({t}) : t \in Tunnels}
NoRows == [t \in {} |-> "absent"]
OneRow(t, status) == [x \in {t} |-> status]

\* left: the list that sent the request is gone.
NoTunnelCall ==
    [op |-> "none", tunnel |-> NoTunnel, at |-> "idle", rows |-> NoRows, left |-> FALSE]
AsListed(rows) == [t \in Tunnels |-> IF rows[t] = "deleted" THEN "absent" ELSE rows[t]]

TunnelPageTypeOK ==
    /\ daemonStatus \in AllRows
    /\ shownStatus \in [Tunnels -> RowStatus]
    /\ doubled \subseteq Tunnels
    /\ busy \in [Lists -> Tunnels \cup {NoTunnel}]
    /\ tunnelCalls \in [TunnelCalls ->
            [op : RowOps \cup {"none", "create"}, tunnel : Tunnels \cup {NoTunnel},
             at : {"idle", "sent", "ok", "failed"}, rows : AnyRows, left : BOOLEAN]]
    /\ Len(tunnelEvents) <= EventCap
    /\ \A i \in 1..Len(tunnelEvents) : tunnelEvents[i] \in AnyRows
    /\ listing \in AnyRows
    /\ {tunnelSocket, clobbered, outdated} \subseteq BOOLEAN

TunnelPageInit ==
    /\ daemonStatus = [t \in Tunnels |-> IF t \in Created THEN "absent" ELSE "stopped"]
    /\ shownStatus = [t \in Tunnels |-> "absent"]
    /\ doubled = {}
    /\ busy = [l \in Lists |-> NoTunnel]
    /\ tunnelCalls = [r \in TunnelCalls |-> NoTunnelCall]
    /\ tunnelEvents = <<>>
    /\ listing = NoRows
    /\ tunnelSocket = TRUE
    /\ clobbered = FALSE
    /\ outdated = TRUE

--------------------------------------------------------------------------------
(* The page *)

TunnelSends(op, t) ==
    \E r \in TunnelCalls :
        /\ tunnelCalls[r].at = "idle"
        /\ tunnelCalls' = [tunnelCalls EXCEPT ![r] =
                [op |-> op, tunnel |-> t, at |-> "sent", rows |-> NoRows, left |-> FALSE]]

\* create, up to its await.
CreateTunnel(t) ==
    /\ \A r \in TunnelCalls : tunnelCalls[r].tunnel # t
    /\ t \in Created /\ daemonStatus[t] = "absent"
    /\ TunnelSends("create", t)
    /\ UNCHANGED <<daemonStatus, shownStatus, doubled, busy, tunnelEvents, listing,
                   tunnelSocket, clobbered, outdated>>

\* The buttons of a row: Stop of a running one, else Start and Delete.
RowOffers(t, op) ==
    /\ shownStatus[t] # "absent"
    /\ busy[ListOf(t)] # t
    /\ t \in doubled \/ (op = "stop") = (shownStatus[t] = "running")

\* run, as it would be if it did not note which row is busy.
RunQuietly(t, op) ==
    /\ op \in RowOps
    /\ RowOffers(t, op)
    /\ TunnelSends(op, t)
    /\ UNCHANGED <<daemonStatus, shownStatus, doubled, busy, tunnelEvents, listing,
                   tunnelSocket, clobbered, outdated>>

\* run, up to its await.
Run(t, op) ==
    /\ op \in RowOps
    /\ RowOffers(t, op)
    /\ TunnelSends(op, t)
    /\ busy' = [busy EXCEPT ![ListOf(t)] = t]
    /\ clobbered' = (clobbered \/ busy[ListOf(t)] # NoTunnel)
    /\ UNCHANGED <<daemonStatus, shownStatus, doubled, tunnelEvents, listing, tunnelSocket,
                   outdated>>

\* The user turns to another part of the page and comes back: the lists are made
\* anew, with nothing busy and a fetch (ListTaken); requests of the old ones go on.
ProxyPageReopened ==
    /\ busy' = [l \in Lists |-> NoTunnel]
    /\ tunnelCalls' = [r \in TunnelCalls |->
            [tunnelCalls[r] EXCEPT !.left = tunnelCalls[r].op \in RowOps]]
    /\ clobbered' = FALSE
    /\ UNCHANGED <<daemonStatus, shownStatus, doubled, tunnelEvents, listing, tunnelSocket,
                   outdated>>

--------------------------------------------------------------------------------
(* The daemon *)

\* What an operation makes of a row's status, and how it answers.
Outcomes(op, t, status) ==
    CASE op = "create" -> {<<"stopped", "ok">>, <<"absent", "failed">>}
      [] op = "delete" -> {<<"deleted", "ok">>}
      [] op = "stop" -> IF status = "deleted" THEN {<<status, "failed">>} ELSE {<<"stopped", "ok">>}
      [] op = "start" ->
            IF status \in {"deleted", "running"} THEN {<<status, "failed">>}
            ELSE IF t \in Blocked THEN {<<status, "failed">>}
            ELSE {<<"running", "ok">>, <<"error", "failed">>, <<status, "failed">>}

\* start and stop tell every client what became of the tunnel.
Tells(op, status) == op \in {"start", "stop"} /\ status # "deleted"

\* A handler does its work, emits its event and writes its reply.
Served(r) ==
    LET t == tunnelCalls[r].tunnel
        op == tunnelCalls[r].op
    IN  /\ tunnelCalls[r].at = "sent"
        /\ \E out \in Outcomes(op, t, daemonStatus[t]) :
            /\ daemonStatus' = [daemonStatus EXCEPT ![t] = out[1]]
            /\ tunnelCalls' = [tunnelCalls EXCEPT ![r].at = out[2],
                    ![r].rows = IF out[2] = "ok" THEN OneRow(t, out[1]) ELSE NoRows]
            /\ IF Tells(op, daemonStatus[t]) /\ tunnelSocket
               THEN /\ Len(tunnelEvents) < EventCap
                    /\ tunnelEvents' = Append(tunnelEvents, OneRow(t, out[1]))
               ELSE UNCHANGED tunnelEvents
        /\ UNCHANGED <<shownStatus, doubled, busy, listing, tunnelSocket, clobbered, outdated>>

\* fetch, when the Proxy page or the Dashboard is opened, is answered by
\* handleListTunnels; or sendTunnelSnapshot, for another page's socket, takes the
\* rows it will emit to every socket.  One list at a time is on its way.
ListTaken ==
    /\ listing = NoRows
    /\ listing' = AsListed(daemonStatus)
    /\ UNCHANGED <<daemonStatus, shownStatus, doubled, busy, tunnelCalls, tunnelEvents,
                   tunnelSocket, clobbered, outdated>>

\* useTunnelEvents opens its socket once.
TunnelSocketDrops ==
    /\ tunnelSocket
    /\ tunnelSocket' = FALSE
    /\ tunnelEvents' = <<>>
    /\ UNCHANGED <<daemonStatus, shownStatus, doubled, busy, tunnelCalls, listing,
                   clobbered, outdated>>

--------------------------------------------------------------------------------
(* Replies and events reach the page *)

\* An event changes the rows that are there.
ShowRow(rows) ==
    /\ shownStatus' = [t \in Tunnels |->
            IF t \in DOMAIN rows /\ shownStatus[t] # "absent" THEN rows[t] ELSE shownStatus[t]]
    /\ UNCHANGED doubled

Stale(rows) == \E t \in DOMAIN rows : rows[t] # daemonStatus[t]

\* fetch goes on, or handleWsEvent gets a snapshot: the rows are replaced.
ListArrives ==
    /\ listing # NoRows
    /\ listing' = NoRows
    /\ shownStatus' = listing
    /\ doubled' = {}
    /\ outdated' = (listing # AsListed(daemonStatus))
    /\ UNCHANGED <<daemonStatus, busy, tunnelCalls, tunnelEvents, tunnelSocket, clobbered>>

\* handleWsEvent as it would be if tunnel_error changed the message only.
HandleWsEventKeepsErrors ==
    LET e == Head(tunnelEvents)
    IN  /\ tunnelEvents # <<>>
        /\ tunnelEvents' = Tail(tunnelEvents)
        /\ ShowRow([t \in {x \in DOMAIN e : e[x] # "error"} |-> e[t]])
        /\ UNCHANGED <<daemonStatus, busy, tunnelCalls, listing, tunnelSocket, clobbered,
                       outdated>>

\* handleWsEvent of tunnel_started, tunnel_stopped and tunnel_error.
HandleWsEvent ==
    /\ tunnelEvents # <<>>
    /\ tunnelEvents' = Tail(tunnelEvents)
    /\ ShowRow(Head(tunnelEvents))
    /\ UNCHANGED <<daemonStatus, busy, tunnelCalls, listing, tunnelSocket, clobbered, outdated>>

Answered(r) == tunnelCalls[r].at \in {"ok", "failed"}

\* create goes on: its row is put in front of a list that may have it already.
CreateReply(r) ==
    LET t == tunnelCalls[r].tunnel
    IN  /\ Answered(r) /\ tunnelCalls[r].op = "create"
        /\ tunnelCalls' = [tunnelCalls EXCEPT ![r] = NoTunnelCall]
        /\ IF tunnelCalls[r].at = "ok"
           THEN /\ shownStatus' = [shownStatus EXCEPT ![t] = "stopped"]
                /\ doubled' = IF shownStatus[t] = "absent" THEN doubled ELSE doubled \cup {t}
                /\ outdated' = (outdated \/ daemonStatus[t] # "stopped")
           ELSE UNCHANGED <<shownStatus, doubled, outdated>>
        /\ UNCHANGED <<daemonStatus, busy, tunnelEvents, listing, tunnelSocket, clobbered>>

\* start, stop and remove go on, and run's finally takes the flag of whichever
\* row of the list is busy, if the list is still the one that asked.
RunReply(r) ==
    LET t == tunnelCalls[r].tunnel
        l == ListOf(t)
        left == tunnelCalls[r].left
    IN  /\ Answered(r) /\ tunnelCalls[r].op \in RowOps
        /\ tunnelCalls' = [tunnelCalls EXCEPT ![r] = NoTunnelCall]
        /\ IF tunnelCalls[r].at = "failed" THEN UNCHANGED <<shownStatus, doubled>>
           ELSE IF tunnelCalls[r].op # "delete" THEN ShowRow(tunnelCalls[r].rows)
           ELSE /\ shownStatus' = [shownStatus EXCEPT ![t] = "absent"]
                /\ doubled' = doubled \ {t}
        /\ outdated' = (outdated \/ Stale(tunnelCalls[r].rows))
        /\ busy' = IF left THEN busy ELSE [busy EXCEPT ![l] = NoTunnel]
        /\ clobbered' =
                /\ clobbered \/ (~left /\ busy[l] # t)
                /\ \E s \in TunnelCalls \ {r} :
                        tunnelCalls[s].op \in RowOps /\ ~tunnelCalls[s].left
        /\ UNCHANGED <<daemonStatus, tunnelEvents, listing, tunnelSocket>>

TunnelPageNext ==
    \/ ProxyPageReopened
    \/ ListTaken \/ ListArrives \/ TunnelSocketDrops \/ HandleWsEvent
    \/ \E t \in Tunnels : CreateTunnel(t) \/ \E op \in RowOps : Run(t, op)
    \/ \E r \in TunnelCalls :
        Served(r) \/ CreateReply(r) \/ RunReply(r)

TunnelPageSpec == TunnelPageInit /\ [][TunnelPageNext]_tunnelPageVars

--------------------------------------------------------------------------------
\* With nothing under way the page shows every row with the daemon's status,
\* unless its socket dropped, it applied rows that had changed by then, or it got
\* a row twice.  Rows are created and deleted by this page alone: of another's the
\* daemon tells nobody until the next list.
PageShowsDaemon ==
    /\ \A r \in TunnelCalls : tunnelCalls[r].at = "idle"
    /\ tunnelEvents = <<>> /\ listing = NoRows
    /\ tunnelSocket /\ ~outdated /\ doubled = {}
    => shownStatus = AsListed(daemonStatus)

\* A row gets a second request while one is under way only after the busy flag of
\* its list, which holds one row, was taken over or down by another row, or went with
\* the list when the user left the page while one of the two was under way.
OneRequestPerRow ==
    \A r, s \in TunnelCalls :
        /\ r # s /\ tunnelCalls[r].tunnel = tunnelCalls[s].tunnel
        /\ {tunnelCalls[r].op, tunnelCalls[s].op} \subseteq RowOps
        => clobbered \/ tunnelCalls[r].left \/ tunnelCalls[s].left

================================================================================
