----------------------------- MODULE TunnelManager -----------------------------
(***************************************************************************)
(* internal/tunnel/manager.go with the handlers of                         *)
(* internal/server/tunnels.go, the rows of the tunnels table and the       *)
(* listeners of internal/proxy.                                            *)
(*                                                                         *)
(* A request is one HTTP handler; requests on the same tunnel overlap      *)
(* freely.  An action is one critical section of Manager.mu, one database  *)
(* statement, or one call that takes its time: the SSH connect, the        *)
(* listen, the close of a listener.  A listener is identified by the port  *)
(* the operating system gave it.  All tunnels bind the same host.          *)
(***************************************************************************)
EXTENDS Integers, FiniteSets

CONSTANTS
    Tunnels,     \* ids of the rows
    Requests,    \* concurrent HTTP requests
    Ports,       \* the ports users choose
    Kinds,       \* the types users choose
    Ephemeral,   \* the ports the operating system assigns to a listen on port 0
    NoTunnel     \* no tunnel

ASSUME PortAssumption == Ports \subseteq Nat \ {0} /\ Ephemeral \subseteq Nat \ {0}
ASSUME KindAssumption == Kinds \subseteq {"socks5", "local", "remote"}
ASSUME NoTunnelAssumption == NoTunnel \notin Tunnels

VARIABLES
    rows,      \* the tunnels table: what each row says, or NoRow
    running,   \* Manager.running: the entry of each tunnel, or NoEntry
    holder,    \* the tunnel that opened the listener on each port, or NoTunnel
    thread,    \* where each request is and what it has read
    raced,     \* tunnels on which two requests overlapped
    twiceStarted \* tunnels on which two starts overlapped

vars == <<rows, running, holder, thread, raced, twiceStarted>>

OSPorts == Ports \cup Ephemeral

\* "dynamic" is served like "socks5".  Port 0 asks for any free port.
Row == [port : Ports \cup {0}, kind : Kinds]
NoRow == [port |-> 0, kind |-> "none"]

\* An entry: the status, the port of BindAddr (the row's, even if it is 0) and
\* the listener.
NoEntry == [status |-> "stopped", port |-> 0, sock |-> 0]
ErrorEntry == [status |-> "error", port |-> 0, sock |-> 0]
Entry == [status : {"running"}, port : Ports \cup {0}, sock : OSPorts]
             \cup {NoEntry, ErrorEntry}

\* A request: what it does, where it is, the tunnel in its URL, the row it has
\* read, the listener it has in hand, and the status it has read for its reply.
Idle == [op |-> "none", pc |-> "idle", tunnel |-> NoTunnel, row |-> NoRow,
         sock |-> 0, status |-> "stopped"]

\* ("busy" and "tellingBusy" are the failures that are ErrPortBusy.)
StartPC  == {"checking", "connecting", "listening", "refused", "bound", "yielding",
             "yielded", "failing", "busy", "started", "tellingError", "tellingBusy",
             "telling"}
StopPC   == {"closing", "draining", "stopped", "telling"}
UpdatePC == {"checking", "saving"}

Thread == {Idle} \cup
    [op : {"start", "stop", "delete", "update"}, pc : StartPC \cup StopPC \cup UpdatePC,
     tunnel : Tunnels, row : Row \cup {NoRow}, sock : OSPorts \cup {0},
     status : {"running", "stopped", "error"}]

Init ==
    /\ rows = [t \in Tunnels |-> NoRow]
    /\ running = [t \in Tunnels |-> NoEntry]
    /\ holder = [p \in OSPorts |-> NoTunnel]
    /\ thread = [q \in Requests |-> Idle]
    /\ raced = {}
    /\ twiceStarted = {}

--------------------------------------------------------------------------------
(* Requests *)

At(q, op, pc) == thread[q].op = op /\ thread[q].pc = pc

\* The request goes on to pc, keeping what it has read, or needing none of it.
Goes(q, pc) == thread' = [thread EXCEPT ![q].pc = pc]
Drops(q, pc) ==
    thread' = [thread EXCEPT ![q] = [Idle EXCEPT !.op = thread[q].op, !.pc = pc,
                                                 !.tunnel = thread[q].tunnel]]
Ends(q) == thread' = [thread EXCEPT ![q] = Idle]

\* The first step of a request on tunnel t, perhaps while others are at work on
\* t: it reads row, takes the listener sock in hand and goes on to pc.
Begins(q, op, t, pc, row, sock) ==
    LET others == {r \in Requests : thread[r].tunnel = t}
    IN  /\ thread[q] = Idle
        /\ thread' = [thread EXCEPT ![q] = [Idle EXCEPT !.op = op, !.pc = pc, !.tunnel = t,
                                                       !.row = row, !.sock = sock]]
        /\ raced' = IF others = {} THEN raced ELSE raced \cup {t}
        /\ twiceStarted' =
              IF op = "start" /\ \E r \in others : thread[r].op = "start"
              THEN twiceStarted \cup {t} ELSE twiceStarted

Running(t) == running[t].status = "running"

\* runningBindConflict: another running tunnel's BindAddr has the port.
BindConflict(t, port) == \E u \in Tunnels \ {t} : Running(u) /\ running[u].port = port

--------------------------------------------------------------------------------
(* handleCreateTunnel: the row, with BeforeCreate's default port 1080, here *)
(* any of the ports.  Its id is new: nothing is left of a tunnel before it. *)

CreateTunnel(t, row) ==
    /\ rows[t] = NoRow /\ running[t] = NoEntry
    /\ \A q \in Requests : thread[q].tunnel # t
    /\ \A p \in OSPorts : holder[p] # t
    /\ row.kind = "socks5" => row.port # 0
    /\ rows' = [rows EXCEPT ![t] = row]
    /\ raced' = raced \ {t}
    /\ twiceStarted' = twiceStarted \ {t}
    /\ UNCHANGED <<running, holder, thread>>

--------------------------------------------------------------------------------
(* handleStartTunnel and Manager.Start *)

\* GetTunnel.  (Without the row the request is answered 404.)
StartReads(q, t) ==
    /\ rows[t] # NoRow
    /\ Begins(q, "start", t, "checking", rows[t], 0)
    /\ UNCHANGED <<rows, running, holder>>

\* Under mu: not running already, and no running tunnel has the port.  Neither
\* refusal touches the entry.
StartChecks(q) ==
    /\ At(q, "start", "checking")
    /\ LET t == thread[q].tunnel
       IN  \/ Running(t) /\ Drops(q, "failing")
           \/ /\ ~Running(t) /\ BindConflict(t, thread[q].row.port)
              /\ Drops(q, "busy")
           \/ /\ ~Running(t) /\ ~BindConflict(t, thread[q].row.port)
              /\ Goes(q, "connecting")
    /\ UNCHANGED <<rows, running, holder, raced, twiceStarted>>

\* ensureSSHForTunnel, without mu: a client, or an error.
StartConnects(q) ==
    /\ At(q, "start", "connecting")
    /\ Goes(q, "listening") \/ Drops(q, "refused")
    /\ UNCHANGED <<rows, running, holder, raced, twiceStarted>>

\* A Start that takes no notice of net.Listen's error.
StartListensBlindly(q) ==
    /\ At(q, "start", "listening")
    /\ \/ \E p \in OSPorts :
            /\ holder[p] = NoTunnel
            /\ p = thread[q].row.port \/ (thread[q].row.port = 0 /\ p \in Ephemeral)
            /\ holder' = [holder EXCEPT ![p] = thread[q].tunnel]
            /\ thread' = [thread EXCEPT ![q].pc = "bound", ![q].sock = p]
       \/ Goes(q, "bound") /\ UNCHANGED holder
    /\ UNCHANGED <<rows, running, raced, twiceStarted>>

\* StartSOCKS5 or PortForward.Start: net.Listen gets the port unless a listener
\* has it, one of a tunnel or of some other program.
Listens(q) ==
    \/ \E p \in OSPorts :
          /\ holder[p] = NoTunnel
          /\ p = thread[q].row.port \/ (thread[q].row.port = 0 /\ p \in Ephemeral)
          /\ holder' = [holder EXCEPT ![p] = thread[q].tunnel]
          /\ thread' = [thread EXCEPT ![q].pc = "bound", ![q].sock = p]
    \/ Drops(q, "refused") /\ UNCHANGED holder

\* A remote forward is not supported: an error, and no entry.
StartListens(q) ==
    /\ At(q, "start", "listening")
    /\ IF thread[q].row.kind = "remote" THEN Drops(q, "failing") /\ UNCHANGED holder
       ELSE Listens(q)
    /\ UNCHANGED <<rows, running, raced, twiceStarted>>

\* setError: whatever the entry was, it becomes the error.
StartSetsError(q) ==
    /\ At(q, "start", "refused") \/ At(q, "start", "yielded")
    /\ running' = [running EXCEPT ![thread[q].tunnel] = ErrorEntry]
    /\ Drops(q, IF thread[q].pc = "yielded" THEN "busy" ELSE "failing")
    /\ UNCHANGED <<rows, holder, raced, twiceStarted>>

\* A Start that does not look at the table a second time.
StartRegistersUnchecked(q) ==
    /\ At(q, "start", "bound")
    /\ running' = [running EXCEPT ![thread[q].tunnel] =
           [status |-> "running", port |-> thread[q].row.port, sock |-> thread[q].sock]]
    /\ Drops(q, "started")
    /\ UNCHANGED <<rows, holder, raced, twiceStarted>>

\* Under mu again: the table may have changed since the first look.
StartRegisters(q) ==
    /\ At(q, "start", "bound")
    /\ IF BindConflict(thread[q].tunnel, thread[q].row.port)
       THEN Goes(q, "yielding") /\ UNCHANGED running
       ELSE /\ running' = [running EXCEPT ![thread[q].tunnel] =
                   [status |-> "running", port |-> thread[q].row.port,
                    sock |-> thread[q].sock]]
            /\ Drops(q, "started")
    /\ UNCHANGED <<rows, holder, raced, twiceStarted>>

\* A Start that forgets the listener it gives up.
StartYieldsNothing(q) ==
    /\ At(q, "start", "yielding")
    /\ Drops(q, "yielded")
    /\ UNCHANGED <<rows, running, holder, raced, twiceStarted>>

\* The other tunnel wins: stop the own listener, then setError.
StartYields(q) ==
    /\ At(q, "start", "yielding")
    /\ holder' = [holder EXCEPT ![thread[q].sock] = NoTunnel]
    /\ Drops(q, "yielded")
    /\ UNCHANGED <<rows, running, raced, twiceStarted>>

\* Enrich: the status the event and the reply will carry.  A failed start is
\* told as tunnel_error, a good one as tunnel_started.
StartEnriches(q) ==
    /\ thread[q].op = "start" /\ thread[q].pc \in {"failing", "busy", "started"}
    /\ thread' = [thread EXCEPT ![q].pc = CASE @ = "failing" -> "tellingError"
                                             [] @ = "busy"    -> "tellingBusy"
                                             [] @ = "started" -> "telling",
                                ![q].status = running[thread[q].tunnel].status]
    /\ UNCHANGED <<rows, running, holder, raced, twiceStarted>>

\* The events are sent and the request is answered.
Answers(q) ==
    /\ thread[q].pc \in {"telling", "tellingError", "tellingBusy"}
    /\ Ends(q)
    /\ UNCHANGED <<rows, running, holder, raced, twiceStarted>>

--------------------------------------------------------------------------------
(* handleStopTunnel, handleDeleteTunnel and Manager.Stop *)

Stopping(q) == thread[q].op \in {"stop", "delete"}

\* A Stop that leaves the entry where it is.
StopKeepsEntry(q, op, t) ==
    /\ Begins(q, op, t, IF Running(t) THEN "closing" ELSE "stopped", NoRow, running[t].sock)
    /\ UNCHANGED <<rows, running, holder>>

\* Under mu: take the entry, if there is one.
StopDeletes(q, op, t) ==
    /\ Begins(q, op, t, IF Running(t) THEN "closing" ELSE "stopped", NoRow, running[t].sock)
    /\ running' = [running EXCEPT ![t] = NoEntry]
    /\ UNCHANGED <<rows, holder>>

\* Close its listener.
StopCloses(q) ==
    /\ Stopping(q) /\ thread[q].pc = "closing"
    /\ holder' = [holder EXCEPT ![thread[q].sock] = NoTunnel]
    /\ Drops(q, "draining")
    /\ UNCHANGED <<rows, running, raced, twiceStarted>>

\* PortForward.Stop returns when the forwarded connections are over,
\* SOCKS5Server.Stop at once.
StopReturns(q) ==
    /\ Stopping(q) /\ thread[q].pc = "draining"
    /\ Goes(q, "stopped")
    /\ UNCHANGED <<rows, running, holder, raced, twiceStarted>>

\* handleStopTunnel reads the row and the status for its event; no row, 404.
StopEnriches(q) ==
    /\ At(q, "stop", "stopped")
    /\ IF rows[thread[q].tunnel] = NoRow THEN Ends(q)
       ELSE thread' = [thread EXCEPT ![q].pc = "telling",
                                     ![q].status = running[thread[q].tunnel].status]
    /\ UNCHANGED <<rows, running, holder, raced, twiceStarted>>

\* handleDeleteTunnel deletes the row and sends no event.
DeleteRow(q) ==
    /\ At(q, "delete", "stopped")
    /\ rows' = [rows EXCEPT ![thread[q].tunnel] = NoRow]
    /\ Ends(q)
    /\ UNCHANGED <<running, holder, raced, twiceStarted>>

--------------------------------------------------------------------------------
(* handleUpdateTunnel *)

UpdateReads(q, t) ==
    /\ rows[t] # NoRow
    /\ Begins(q, "update", t, "checking", rows[t], 0)
    /\ UNCHANGED <<rows, running, holder>>

\* A handler that edits running tunnels too.
UpdateChecksNothing(q) ==
    /\ At(q, "update", "checking")
    /\ Goes(q, "saving")
    /\ UNCHANGED <<rows, running, holder, raced, twiceStarted>>

\* "Stop the tunnel before editing."
UpdateChecks(q) ==
    /\ At(q, "update", "checking")
    /\ IF Running(thread[q].tunnel) THEN Ends(q) ELSE Goes(q, "saving")
    /\ UNCHANGED <<rows, running, holder, raced, twiceStarted>>

\* Save writes the row as it was read with the fields of the request that are
\* set; it inserts the row if it is gone.
UpdateSaves(q, port, kind) ==
    /\ At(q, "update", "saving")
    /\ rows' = [rows EXCEPT ![thread[q].tunnel] =
                   [port |-> IF port = 0 THEN thread[q].row.port ELSE port, kind |-> kind]]
    /\ Ends(q)
    /\ UNCHANGED <<running, holder, raced, twiceStarted>>

--------------------------------------------------------------------------------
StartStep(q) ==
    \/ StartChecks(q) \/ StartConnects(q) \/ StartListens(q) \/ StartSetsError(q)
    \/ StartRegisters(q) \/ StartYields(q) \/ StartEnriches(q)

StopStep(q) == StopCloses(q) \/ StopReturns(q) \/ StopEnriches(q) \/ DeleteRow(q)

Next ==
    \/ \E t \in Tunnels, row \in Row : CreateTunnel(t, row)
    \/ \E q \in Requests, t \in Tunnels :
          \/ StartReads(q, t)
          \/ UpdateReads(q, t)
          \/ \E op \in {"stop", "delete"} : StopDeletes(q, op, t)
    \/ \E q \in Requests : StartStep(q) \/ StopStep(q) \/ Answers(q) \/ UpdateChecks(q)
    \/ \E q \in Requests, port \in Ports \cup {0}, kind \in Kinds : UpdateSaves(q, port, kind)

Spec == Init /\ [][Next]_vars

--------------------------------------------------------------------------------
(* Properties *)

\* The tables, the listeners and what each request has read keep their types;
\* two starts that overlap are two requests that overlap.
TypeOK ==
    /\ rows \in [Tunnels -> Row \cup {NoRow}]
    /\ running \in [Tunnels -> Entry]
    /\ holder \in [OSPorts -> Tunnels \cup {NoTunnel}]
    /\ thread \in [Requests -> Thread]
    /\ raced \subseteq Tunnels
    /\ twiceStarted \subseteq raced

\* A tunnel shown as running listens: its entry's listener is open and its own,
\* whatever starts, stops and deletes of it overlap.
RunningTunnelListens ==
    \A t \in Tunnels : Running(t) => holder[running[t].sock] = t

\* No two running tunnels report the same local address.  The operating system
\* does not see to that for port 0; the second look at the table does.
RunningAddressesDiffer ==
    \A t, u \in Tunnels :
        t # u /\ Running(t) /\ Running(u) => running[t].port # running[u].port

\* The listeners a request still has to register or to close.
InHand(p) ==
    \E q \in Requests :
        thread[q].sock = p /\ thread[q].pc \in {"bound", "yielding", "closing"}

Orphaned(p) == holder[p] # NoTunnel /\ ~InHand(p) /\ running[holder[p]].sock # p

\* A listener that nobody can close any more comes from two starts of the same
\* tunnel that overlapped, and from nothing else.
OrphanNeedsTwoStarts ==
    \A p \in OSPorts : Orphaned(p) => holder[p] \in twiceStarted

\* Requests on a tunnel that never overlapped keep it consistent: while it runs
\* its row is there, names a kind that can run and the port it listens on.
SerialRequestsKeepRows ==
    \A t \in Tunnels \ raced :
        Running(t) => /\ rows[t].port = running[t].port
                      /\ rows[t].kind \in {"socks5", "local"}

\* A start that fails because the port is in use is told with the status error.
PortBusySaysError ==
    \A q \in Requests : thread[q].pc = "tellingBusy" => thread[q].status = "error"

\* A stop leaves nothing behind: when it has done its work, the tunnel is not
\* running again and no other request is at work on it, it holds no port.
StopFreesThePort ==
    \A q \in Requests :
        LET t == thread[q].tunnel
        IN  At(q, "stop", "stopped") /\ ~Running(t)
                /\ (\A r \in Requests \ {q} : thread[r].tunnel # t)
                => \A p \in OSPorts : holder[p] # t

================================================================================
