------------------------------ MODULE SshManager ------------------------------
(***************************************************************************)
(* internal/ssh/manager.go with the handlers of internal/server that use   *)
(* it and the SFTP client cache of internal/sftp/manager.go.               *)
(*                                                                         *)
(* A connection has the goroutine that dials it (handleConnect), a monitor *)
(* that waits for its end, and the probes that keepAliveLoop starts; any   *)
(* of them, a user's disconnect and SFTP requests run at the same time.    *)
(* An action is one critical section of Manager.mu, ManagedConnection.mu   *)
(* or sftp.Manager.mu, one call to the remote host, or one event sent to   *)
(* the system hub.                                                         *)
(***************************************************************************)
EXTENDS Integers, FiniteSets

CONSTANTS
    Accounts,     \* saved connections (rows), the ids in the URLs
    Conns,        \* the connIDs that Connect draws
    Probes,       \* keep-alive goroutines
    Disconnects,  \* concurrent requests to handleDisconnect
    Requests,     \* concurrent requests that need an SFTP client
    Monitor,      \* the goroutine monitorConnection
    NoAccount,    \* no account
    NoConn        \* no connection

ASSUME MonitorAssumption == Monitor \notin Probes
ASSUME NoConnAssumption == NoConn \notin Conns
ASSUME NoAccountAssumption == NoAccount \notin Accounts

VARIABLES
    connections,  \* the keys of Manager.connections
    owner,        \* AccountID
    state,        \* State
    hasClient,    \* Client # nil
    transport,    \* the ssh.Client's TCP connection, as the host and TCP know it
    connect,      \* where handleConnect is, for each connection it makes
    reporter,     \* where the monitor and the probes of each connection are
    disconnect,   \* where each handleDisconnect is ...
    leaving,      \* ... and the connection it found
    request,      \* where each SFTP request is ...
    wanted,       \* ... and the connection in its URL
    sftpClients,  \* the keys of sftp.Manager.clients
    sftpLock,     \* the request inside pkgsftp.NewClient, which holds sftp.Manager.mu
    lossDowns,    \* connection_down events of the lost-connection callback
    userDowns,    \* connection_down events of handleDisconnect
    crashed       \* a goroutine panicked: the daemon is gone

managerVars == <<connections, owner, state, hasClient>>
connectVars == <<connect, reporter>>
disconnectVars == <<disconnect, leaving>>
sftpVars == <<request, wanted, sftpClients, sftpLock>>
eventVars == <<lossDowns, userDowns>>
vars == <<managerVars, transport, connectVars, disconnectVars, sftpVars, eventVars,
          crashed>>

Reporters == {Monitor} \cup Probes

\* A goroutine that may report the loss of its connection: not running; chosen
\* by keepAliveLoop or started; waiting for the transport; calling
\* handleConnectionLost; and the stages of that call.
ReporterState == {"idle", "started", "waiting", "reporting", "marked", "cleaned",
                  "told", "forgotten", "over"}

\* The stages only the goroutine that marked the connection goes through.
Winning == {"marked", "cleaned", "told", "forgotten", "over"}

Init ==
    /\ connections = {}
    /\ owner = [c \in Conns |-> NoAccount]
    /\ state = [c \in Conns |-> "new"]
    /\ hasClient = [c \in Conns |-> FALSE]
    /\ transport = [c \in Conns |-> "none"]
    /\ connect = [c \in Conns |-> "none"]
    /\ reporter = [c \in Conns |-> [r \in Reporters |-> "idle"]]
    /\ disconnect = [d \in Disconnects |-> "idle"]
    /\ leaving = [d \in Disconnects |-> NoConn]
    /\ request = [q \in Requests |-> "idle"]
    /\ wanted = [q \in Requests |-> NoConn]
    /\ sftpClients = {}
    /\ sftpLock = FALSE
    /\ lossDowns = [c \in Conns |-> 0]
    /\ userDowns = [c \in Conns |-> 0]
    /\ crashed = FALSE

\* A lookup that does not look at State.
InMap(c) == c \in connections

\* GetConnection's and GetByAccountID's test.
Live(c) == c \in connections /\ state[c] = "connected"

--------------------------------------------------------------------------------
(* handleConnect and Manager.Connect *)

\* dialSSH succeeds.  (A dial that fails changes nothing.)
Dial(c, a) ==
    /\ ~crashed
    /\ connect[c] = "none"
    /\ connect' = [connect EXCEPT ![c] = "dialled"]
    /\ owner' = [owner EXCEPT ![c] = a]
    /\ state' = [state EXCEPT ![c] = "connected"]
    /\ hasClient' = [hasClient EXCEPT ![c] = TRUE]
    /\ transport' = [transport EXCEPT ![c] = "up"]
    /\ UNCHANGED <<connections, reporter, disconnectVars, sftpVars, eventVars, crashed>>

\* The connection enters the map and its monitor starts.
Register(c) ==
    /\ ~crashed
    /\ connect[c] = "dialled"
    /\ connect' = [connect EXCEPT ![c] = "registered"]
    /\ connections' = connections \cup {c}
    /\ reporter' = [reporter EXCEPT ![c][Monitor] = "started"]
    /\ UNCHANGED <<owner, state, hasClient, transport, disconnectVars, sftpVars,
                   eventVars, crashed>>

\* connection_up, and the reply.
AnnounceUp(c) ==
    /\ ~crashed
    /\ connect[c] = "registered"
    /\ connect' = [connect EXCEPT ![c] = "up"]
    /\ UNCHANGED <<managerVars, transport, reporter, disconnectVars, sftpVars,
                   eventVars, crashed>>

\* The network or the host drops the connection.
TransportDies(c) ==
    /\ ~crashed
    /\ transport[c] = "up"
    /\ transport' = [transport EXCEPT ![c] = "dead"]
    /\ UNCHANGED <<managerVars, connectVars, disconnectVars, sftpVars, eventVars, crashed>>

--------------------------------------------------------------------------------
(* monitorConnection, keepAliveLoop and sendKeepAlive *)

Moves(c, r, from, to) ==
    /\ reporter[c][r] = from
    /\ reporter' = [reporter EXCEPT ![c][r] = to]

\* monitorConnection evaluates conn.Client.Wait: a nil client is a panic in a
\* goroutine of its own, which ends the process.
MonitorWaits(c) ==
    /\ ~crashed
    /\ Moves(c, Monitor, "started", IF hasClient[c] THEN "waiting" ELSE "idle")
    /\ crashed' = ~hasClient[c]
    /\ UNCHANGED <<managerVars, transport, connect, disconnectVars, sftpVars, eventVars>>

\* keepAliveLoop picks the connection under Manager.mu ...
ProbePicks(c, p) ==
    /\ ~crashed
    /\ Live(c)
    /\ Moves(c, p, "idle", "started")
    /\ UNCHANGED <<managerVars, transport, connect, disconnectVars, sftpVars, eventVars,
                   crashed>>

\* ... and sendKeepAlive looks again under the connection's own mutex.
ProbeSends(c, p) ==
    /\ ~crashed
    /\ Moves(c, p, "started",
             IF state[c] = "connected" /\ hasClient[c] THEN "waiting" ELSE "idle")
    /\ UNCHANGED <<managerVars, transport, connect, disconnectVars, sftpVars, eventVars,
                   crashed>>

\* The host answers the probe.
ProbeAnswered(c, p) ==
    /\ ~crashed
    /\ transport[c] = "up"
    /\ Moves(c, p, "waiting", "idle")
    /\ UNCHANGED <<managerVars, transport, connect, disconnectVars, sftpVars, eventVars,
                   crashed>>

\* Wait returns, or the probe fails: handleConnectionLost is called.
TransportEnds(c, r) ==
    /\ ~crashed
    /\ transport[c] \in {"dead", "closed"}
    /\ Moves(c, r, "waiting", "reporting")
    /\ UNCHANGED <<managerVars, transport, connect, disconnectVars, sftpVars, eventVars,
                   crashed>>

--------------------------------------------------------------------------------
(* handleConnectionLost *)

\* A handleConnectionLost without the test of State.
LostMarkAlways(c, r) ==
    /\ ~crashed
    /\ Moves(c, r, "reporting", "marked")
    /\ state' = [state EXCEPT ![c] = "disconnected"]
    /\ UNCHANGED <<connections, owner, hasClient, transport, connect, disconnectVars,
                   sftpVars, eventVars, crashed>>

\* Under the connection's mutex: only the first report goes on.
LostMark(c, r) ==
    /\ ~crashed
    /\ Moves(c, r, "reporting", IF state[c] = "connected" THEN "marked" ELSE "idle")
    /\ state' = [state EXCEPT ![c] = "disconnected"]
    /\ UNCHANGED <<connections, owner, hasClient, transport, connect, disconnectVars,
                   sftpVars, eventVars, crashed>>

\* A callback that forgets the SFTP client.
LostCleanNothing(c, r) ==
    /\ ~crashed
    /\ Moves(c, r, "marked", "cleaned")
    /\ UNCHANGED <<managerVars, transport, connect, disconnectVars, sftpVars, eventVars,
                   crashed>>

\* The server's callback (after the pages of the connection's terminals were
\* told) removes the SFTP client, once sftp.Manager.mu is free ...
LostClean(c, r) ==
    /\ ~crashed
    /\ ~sftpLock
    /\ Moves(c, r, "marked", "cleaned")
    /\ sftpClients' = sftpClients \ {c}
    /\ UNCHANGED <<managerVars, transport, connect, disconnectVars, request, wanted,
                   sftpLock, eventVars, crashed>>

\* ... and emits connection_down.
LostTell(c, r) ==
    /\ ~crashed
    /\ Moves(c, r, "cleaned", "told")
    /\ lossDowns' = [lossDowns EXCEPT ![c] = @ + 1]
    /\ UNCHANGED <<managerVars, transport, connect, disconnectVars, sftpVars, userDowns,
                   crashed>>

\* A handleConnectionLost that keeps the connection's entry.
LostKeep(c, r) ==
    /\ ~crashed
    /\ Moves(c, r, "told", "forgotten")
    /\ UNCHANGED <<managerVars, transport, connect, disconnectVars, sftpVars, eventVars,
                   crashed>>

LostForget(c, r) ==
    /\ ~crashed
    /\ Moves(c, r, "told", "forgotten")
    /\ connections' = connections \ {c}
    /\ UNCHANGED <<owner, state, hasClient, transport, connect, disconnectVars, sftpVars,
                   eventVars, crashed>>

\* A handleConnectionLost that drops the client without closing it.
LostDropClient(c, r) ==
    /\ ~crashed
    /\ Moves(c, r, "forgotten", "over")
    /\ hasClient' = [hasClient EXCEPT ![c] = FALSE]
    /\ UNCHANGED <<connections, owner, state, transport, connect, disconnectVars,
                   sftpVars, eventVars, crashed>>

\* Close the client, unless Disconnect took it.
LostClose(c, r) ==
    /\ ~crashed
    /\ Moves(c, r, "forgotten", "over")
    /\ hasClient' = [hasClient EXCEPT ![c] = FALSE]
    /\ transport' = [transport EXCEPT ![c] = IF hasClient[c] THEN "closed" ELSE @]
    /\ UNCHANGED <<connections, owner, state, connect, disconnectVars, sftpVars,
                   eventVars, crashed>>

--------------------------------------------------------------------------------
(* handleDisconnect and Manager.Disconnect *)

\* GetByAccountID: some live connection of the account; without one the request
\* is answered with 404.
DisconnectFinds(d, a, c) ==
    /\ ~crashed
    /\ disconnect[d] = "idle"
    /\ Live(c) /\ owner[c] = a
    /\ disconnect' = [disconnect EXCEPT ![d] = "found"]
    /\ leaving' = [leaving EXCEPT ![d] = c]
    /\ UNCHANGED <<managerVars, transport, connectVars, sftpVars, eventVars, crashed>>

DisconnectCleans(d) ==
    /\ ~crashed
    /\ disconnect[d] = "found"
    /\ ~sftpLock
    /\ sftpClients' = sftpClients \ {leaving[d]}
    /\ disconnect' = [disconnect EXCEPT ![d] = "cleaned"]
    /\ UNCHANGED <<managerVars, transport, connectVars, leaving, request, wanted, sftpLock,
                   eventVars, crashed>>

\* The entry leaves the map; if it is gone already the request fails with 500.
DisconnectDeletes(d) ==
    /\ ~crashed
    /\ disconnect[d] = "cleaned"
    /\ IF leaving[d] \in connections
       THEN /\ disconnect' = [disconnect EXCEPT ![d] = "deleted"]
            /\ connections' = connections \ {leaving[d]}
            /\ UNCHANGED leaving
       ELSE /\ disconnect' = [disconnect EXCEPT ![d] = "idle"]
            /\ leaving' = [leaving EXCEPT ![d] = NoConn]
            /\ UNCHANGED connections
    /\ UNCHANGED <<owner, state, hasClient, transport, connectVars, sftpVars, eventVars,
                   crashed>>

\* A Disconnect that forgets the client without closing it.
DisconnectDropsClient(d) ==
    /\ ~crashed
    /\ disconnect[d] = "deleted"
    /\ state' = [state EXCEPT ![leaving[d]] = "disconnected"]
    /\ hasClient' = [hasClient EXCEPT ![leaving[d]] = FALSE]
    /\ disconnect' = [disconnect EXCEPT ![d] = "telling"]
    /\ UNCHANGED <<connections, owner, transport, connectVars, leaving, sftpVars, eventVars,
                   crashed>>

\* Under the connection's mutex Disconnect takes the client for itself.
DisconnectTakes(d) ==
    /\ ~crashed
    /\ disconnect[d] = "deleted"
    /\ LET c == leaving[d]
       IN  /\ state' = [state EXCEPT ![c] = "disconnected"]
           /\ hasClient' = [hasClient EXCEPT ![c] = FALSE]
           /\ disconnect' = [disconnect EXCEPT ![d] =
                                IF hasClient[c] THEN "closing" ELSE "telling"]
    /\ UNCHANGED <<connections, owner, transport, connectVars, leaving, sftpVars, eventVars,
                   crashed>>

DisconnectCloses(d) ==
    /\ ~crashed
    /\ disconnect[d] = "closing"
    /\ transport' = [transport EXCEPT ![leaving[d]] = "closed"]
    /\ disconnect' = [disconnect EXCEPT ![d] = "telling"]
    /\ UNCHANGED <<managerVars, connectVars, leaving, sftpVars, eventVars, crashed>>

DisconnectTells(d) ==
    /\ ~crashed
    /\ disconnect[d] = "telling"
    /\ userDowns' = [userDowns EXCEPT ![leaving[d]] = @ + 1]
    /\ disconnect' = [disconnect EXCEPT ![d] = "idle"]
    /\ leaving' = [leaving EXCEPT ![d] = NoConn]
    /\ UNCHANGED <<managerVars, transport, connectVars, sftpVars, lossDowns, crashed>>

--------------------------------------------------------------------------------
(* getSFTPClient and sftp.Manager.GetOrCreate *)

\* GetConnection finds the connection; otherwise the request is answered 502.
SftpLooksUp(q, c) ==
    /\ ~crashed
    /\ request[q] = "idle"
    /\ Live(c)
    /\ request' = [request EXCEPT ![q] = "lookedUp"]
    /\ wanted' = [wanted EXCEPT ![q] = c]
    /\ UNCHANGED <<managerVars, transport, connectVars, disconnectVars, sftpClients,
                   sftpLock, eventVars, crashed>>

SftpEnds(q) ==
    /\ request' = [request EXCEPT ![q] = "idle"]
    /\ wanted' = [wanted EXCEPT ![q] = NoConn]

\* GetOrCreate returns the cached client, or takes the lock and calls NewClient
\* with the Client read after the lookup.  If that was nil already, NewClient
\* panics; the HTTP server recovers that, and the deferred Unlock frees the lock.
SftpGets(q) ==
    /\ ~crashed
    /\ request[q] = "lookedUp"
    /\ ~sftpLock
    /\ \/ /\ wanted[q] \in sftpClients \/ ~hasClient[wanted[q]]
          /\ SftpEnds(q)
          /\ UNCHANGED sftpLock
       \/ /\ wanted[q] \notin sftpClients
          /\ request' = [request EXCEPT ![q] = "opening"]
          /\ sftpLock' = TRUE
          /\ UNCHANGED wanted
    /\ UNCHANGED <<managerVars, transport, connectVars, disconnectVars, sftpClients,
                   eventVars, crashed>>

\* The host answers, or the transport's end makes the call fail.
SftpOpened(q) ==
    /\ ~crashed
    /\ request[q] = "opening"
    /\ sftpLock' = FALSE
    /\ sftpClients' = IF transport[wanted[q]] = "up" THEN sftpClients \cup {wanted[q]}
                      ELSE sftpClients
    /\ SftpEnds(q)
    /\ UNCHANGED <<managerVars, transport, connectVars, disconnectVars, eventVars, crashed>>

--------------------------------------------------------------------------------
LostStep(c, r) ==
    LostMark(c, r) \/ LostClean(c, r) \/ LostTell(c, r) \/ LostForget(c, r)
        \/ LostClose(c, r)

DisconnectStep(d) ==
    DisconnectCleans(d) \/ DisconnectDeletes(d) \/ DisconnectTakes(d)
        \/ DisconnectCloses(d) \/ DisconnectTells(d)

Next ==
    \/ \E c \in Conns, a \in Accounts : Dial(c, a)
    \/ \E c \in Conns : Register(c) \/ AnnounceUp(c) \/ TransportDies(c) \/ MonitorWaits(c)
    \/ \E c \in Conns, p \in Probes :
          ProbePicks(c, p) \/ ProbeSends(c, p) \/ ProbeAnswered(c, p)
    \/ \E c \in Conns, r \in Reporters : TransportEnds(c, r) \/ LostStep(c, r)
    \/ \E d \in Disconnects, a \in Accounts, c \in Conns : DisconnectFinds(d, a, c)
    \/ \E d \in Disconnects : DisconnectStep(d)
    \/ \E q \in Requests, c \in Conns : SftpLooksUp(q, c)
    \/ \E q \in Requests : SftpGets(q) \/ SftpOpened(q)

\* Goroutines run; a call to a host ends, with an answer or, when TCP gives up,
\* with an error; and nobody starves at sftp.Manager.mu (Go's mutexes are fair).
Fairness ==
    /\ \A c \in Conns :
          /\ WF_vars(Register(c))
          /\ WF_vars(MonitorWaits(c))
          /\ \A r \in Reporters :
                /\ WF_vars(TransportEnds(c, r) \/ LostStep(c, r))
                /\ SF_vars(LostClean(c, r))
    /\ \A d \in Disconnects :
          /\ WF_vars(DisconnectStep(d))
          /\ SF_vars(DisconnectCleans(d))
    /\ \A q \in Requests : WF_vars(SftpGets(q) \/ SftpOpened(q))

Spec == Init /\ [][Next]_vars /\ Fairness

--------------------------------------------------------------------------------
(* Properties *)

\* Every variable keeps its type: among them the events of one connection's
\* end, each sent at most once however many goroutines report that end.
TypeOK ==
    /\ connections \subseteq Conns
    /\ owner \in [Conns -> Accounts \cup {NoAccount}]
    /\ state \in [Conns -> {"new", "connected", "disconnected"}]
    /\ hasClient \in [Conns -> BOOLEAN]
    /\ transport \in [Conns -> {"none", "up", "dead", "closed"}]
    /\ connect \in [Conns -> {"none", "dialled", "registered", "up"}]
    /\ reporter \in [Conns -> [Reporters -> ReporterState]]
    /\ disconnect \in [Disconnects -> {"idle", "found", "cleaned", "deleted",
                                       "closing", "telling"}]
    /\ leaving \in [Disconnects -> Conns \cup {NoConn}]
    /\ request \in [Requests -> {"idle", "lookedUp", "opening"}]
    /\ wanted \in [Requests -> Conns \cup {NoConn}]
    /\ sftpClients \subseteq Conns
    /\ sftpLock \in BOOLEAN
    /\ lossDowns \in [Conns -> 0..1]
    /\ userDowns \in [Conns -> 0..1]
    /\ crashed \in BOOLEAN

Reporting(c) == \E r \in Reporters : reporter[c][r] \in Winning \ {"over"}
Disconnecting(c) == \E d \in Disconnects : leaving[d] = c

\* Whoever ends a connection ends all of it: once it has left the map and the
\* goroutines that end it are done, its client is gone and its socket closed,
\* in whatever order a loss and a user's disconnect of it met.
EndedConnectionsAreClosed ==
    \A c \in Conns :
        connect[c] \in {"registered", "up"} /\ c \notin connections
            /\ ~Reporting(c) /\ ~Disconnecting(c)
            => ~hasClient[c] /\ transport[c] = "closed" /\ state[c] = "disconnected"

\* When connection_down of a lost connection is out, no SFTP client is cached
\* for it any more, although requests that looked the connection up before it
\* was lost may still be about to create one.
LossLeavesNoSftpClient ==
    \A c \in Conns : lossDowns[c] > 0 => c \notin sftpClients

\* The manager implements the lifecycle it promises to its callers.
Lifecycle == INSTANCE ConnectionLifecycle WITH
    visible  <- {c \in Conns : Live(c)},
    ended    <- {c \in Conns : connect[c] \in {"registered", "up"} /\ ~Live(c)},
    lossTold <- {c \in Conns : lossDowns[c] = 1},
    userTold <- {c \in Conns : userDowns[c] = 1}

LifecycleKept == Lifecycle!LifeSpec

\* A connection whose transport is lost is not left in the map.
LostConnectionsAreForgotten ==
    \A c \in Conns :
        (c \in connections /\ transport[c] = "dead") ~> (c \notin connections \/ crashed)

\* A connection that was ended, by anybody, has its socket closed in the end.
EndedConnectionsGetClosed ==
    \A c \in Conns :
        (state[c] = "disconnected") ~> (transport[c] = "closed" \/ crashed)

\* The daemon keeps running whatever its users do.
DaemonSurvives == ~crashed

================================================================================
