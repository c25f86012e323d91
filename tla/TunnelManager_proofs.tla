-------------------------- MODULE TunnelManager_proofs --------------------------
(***************************************************************************)
(* Proofs about TunnelManager for every set of tunnels, requests and       *)
(* ports.  The invariants come in layers: the types, the listeners in      *)
(* somebody's hand, what a tunnel knows that was never started twice at a  *)
(* time, and what one knows on which no two requests ever overlapped.      *)
(***************************************************************************)
EXTENDS TunnelManager, TLAPS

InHandPC == {"bound", "yielding", "closing"}

--------------------------------------------------------------------------------
(* Types *)

\* A request that is to register or to close a listener has one.
TypeInv ==
    /\ TypeOK
    /\ \A q \in Requests : thread[q].pc \in InHandPC => thread[q].sock # 0

\* The host never hands out port 0.
LEMMA PortsArePositive == 0 \notin OSPorts
BY PortAssumption DEF OSPorts

\* A request at work has a tunnel.
LEMMA BusyHasTunnel ==
    ASSUME TypeOK, NEW q \in Requests, thread[q].op # "none" \/ thread[q].pc # "idle"
    PROVE  /\ thread[q].tunnel \in Tunnels
           /\ thread[q].row \in Row \cup {NoRow}
           /\ thread[q].op \in {"start", "stop", "delete", "update"}
           /\ thread[q] # Idle
BY DEF TypeOK, Thread, Idle

\* The three ways a request goes on keep its type.
LEMMA DropsType ==
    ASSUME TypeOK, NEW q \in Requests, thread[q].op # "none",
           NEW pc \in StartPC \cup StopPC \cup UpdatePC, Drops(q, pc)
    PROVE  thread' \in [Requests -> Thread] /\ thread'[q].pc = pc
<1>1. thread[q].tunnel \in Tunnels /\ thread[q].op \in {"start", "stop", "delete", "update"}
  BY BusyHasTunnel
<1>2. [Idle EXCEPT !.op = thread[q].op, !.pc = pc, !.tunnel = thread[q].tunnel] \in Thread
  BY <1>1 DEF Idle, Thread
<1> QED
  BY <1>2 DEF Drops, TypeOK, Idle

\* ... to its next step ...
LEMMA GoesType ==
    ASSUME TypeOK, NEW q \in Requests, thread[q].op # "none",
           NEW pc \in StartPC \cup StopPC \cup UpdatePC, Goes(q, pc)
    PROVE  thread' \in [Requests -> Thread] /\ thread'[q].pc = pc
<1>1. thread[q] \in Thread \ {Idle}
  BY BusyHasTunnel DEF TypeOK
<1>2. [thread[q] EXCEPT !.pc = pc] \in Thread
  BY <1>1 DEF Thread
<1> QED
  BY <1>1, <1>2 DEF Goes, TypeOK, Thread

\* ... or to its end.
LEMMA EndsType ==
    ASSUME TypeOK, NEW q \in Requests, Ends(q)
    PROVE  thread' \in [Requests -> Thread]
BY DEF Ends, TypeOK, Thread

\* A request that begins has its type.
LEMMA BeginsType ==
    ASSUME TypeOK, NEW q \in Requests, NEW t \in Tunnels,
           NEW op \in {"start", "stop", "delete", "update"},
           NEW pc \in StartPC \cup StopPC \cup UpdatePC,
           NEW row \in Row \cup {NoRow}, NEW sock \in OSPorts \cup {0},
           Begins(q, op, t, pc, row, sock)
    PROVE  /\ thread' \in [Requests -> Thread]
           /\ thread'[q].pc = pc /\ thread'[q].sock = sock
           /\ \A r \in Requests \ {q} : thread'[r] = thread[r]
           /\ raced' \subseteq Tunnels /\ twiceStarted' \subseteq raced'
<1>1. [Idle EXCEPT !.op = op, !.pc = pc, !.tunnel = t, !.row = row, !.sock = sock] \in Thread
  BY DEF Idle, Thread
<1>2. raced' \subseteq Tunnels /\ twiceStarted' \subseteq raced'
  BY DEF Begins, TypeOK
<1>3. thread' = [thread EXCEPT ![q] = [Idle EXCEPT !.op = op, !.pc = pc, !.tunnel = t,
                                                   !.row = row, !.sock = sock]]
  BY DEF Begins
<1> QED
  BY <1>1, <1>2, <1>3 DEF TypeOK, Idle

\* The types hold at first.
LEMMA TypeInit == Init => TypeInv
BY DEF Init, TypeInv, TypeOK, Entry, Thread, Idle, InHandPC

\* Steps that leave the tables alone: only the request's own type matters.
LEMMA ThreadOnlyType ==
    ASSUME TypeInv, NEW q \in Requests, thread' \in [Requests -> Thread],
           \A r \in Requests \ {q} : thread'[r] = thread[r],
           thread'[q].pc \in InHandPC => thread'[q].sock # 0,
           UNCHANGED <<rows, running, holder, raced, twiceStarted>>
    PROVE  TypeInv'
BY DEF TypeInv, TypeOK

\* A request that is refused keeps the types.
LEMMA DropsKeepsType ==
    ASSUME TypeInv, NEW q \in Requests, thread[q].op # "none",
           NEW pc \in (StartPC \cup StopPC \cup UpdatePC) \ InHandPC, Drops(q, pc),
           UNCHANGED <<rows, running, holder, raced, twiceStarted>>
    PROVE  TypeInv'
<1>1. thread' \in [Requests -> Thread] /\ thread'[q].pc = pc
  BY DropsType DEF TypeInv
<1>2. \A r \in Requests \ {q} : thread'[r] = thread[r]
  BY DEF Drops, TypeInv, TypeOK
<1> QED
  BY <1>1, <1>2, ThreadOnlyType

\* So does one that goes on.
LEMMA GoesKeepsType ==
    ASSUME TypeInv, NEW q \in Requests, thread[q].op # "none",
           NEW pc \in (StartPC \cup StopPC \cup UpdatePC) \ InHandPC, Goes(q, pc),
           UNCHANGED <<rows, running, holder, raced, twiceStarted>>
    PROVE  TypeInv'
<1>1. thread' \in [Requests -> Thread] /\ thread'[q].pc = pc
  BY GoesType DEF TypeInv
<1>2. \A r \in Requests \ {q} : thread'[r] = thread[r]
  BY DEF Goes, TypeInv, TypeOK
<1> QED
  BY <1>1, <1>2, ThreadOnlyType

\* Every step of every handler keeps the types.
LEMMA TypeNext == TypeInv /\ [Next]_vars => TypeInv'
<1> SUFFICES ASSUME TypeInv, [Next]_vars PROVE TypeInv'
  OBVIOUS
<1> USE PortsArePositive
<1>0. TypeOK
  BY DEF TypeInv
<1>1. ASSUME NEW t \in Tunnels, NEW row \in Row, CreateTunnel(t, row) PROVE TypeInv'
  BY <1>1 DEF TypeInv, TypeOK, CreateTunnel
<1>2. ASSUME NEW q \in Requests, NEW t \in Tunnels, StartReads(q, t) PROVE TypeInv'
  <2>1. rows[t] \in Row \cup {NoRow}
    BY <1>0 DEF TypeOK
  <2>2. Begins(q, "start", t, "checking", rows[t], 0)
    BY <1>2 DEF StartReads
  <2>3. "checking" \in StartPC \cup StopPC \cup UpdatePC
    BY DEF StartPC
  <2>4. /\ thread' \in [Requests -> Thread]
        /\ thread'[q].pc = "checking"
        /\ raced' \subseteq Tunnels /\ twiceStarted' \subseteq raced'
        /\ \A r \in Requests \ {q} : thread'[r] = thread[r]
    BY <1>0, <2>1, <2>2, <2>3, BeginsType
  <2> QED
    BY <1>2, <2>4 DEF TypeInv, TypeOK, StartReads, InHandPC
<1>3. ASSUME NEW q \in Requests, NEW t \in Tunnels, UpdateReads(q, t) PROVE TypeInv'
  <2>1. rows[t] \in Row \cup {NoRow}
    BY <1>0 DEF TypeOK
  <2>2. Begins(q, "update", t, "checking", rows[t], 0)
    BY <1>3 DEF UpdateReads
  <2>3. "checking" \in StartPC \cup StopPC \cup UpdatePC
    BY DEF StartPC
  <2>4. /\ thread' \in [Requests -> Thread]
        /\ thread'[q].pc = "checking"
        /\ raced' \subseteq Tunnels /\ twiceStarted' \subseteq raced'
        /\ \A r \in Requests \ {q} : thread'[r] = thread[r]
    BY <1>0, <2>1, <2>2, <2>3, BeginsType
  <2> QED
    BY <1>3, <2>4 DEF TypeInv, TypeOK, UpdateReads, InHandPC
<1>4. ASSUME NEW q \in Requests, NEW t \in Tunnels, NEW op \in {"stop", "delete"},
             StopDeletes(q, op, t)
      PROVE  TypeInv'
  <2>1. running[t] \in Entry /\ (Running(t) => running[t].sock \in OSPorts)
    BY <1>0 DEF TypeOK, Entry, NoEntry, ErrorEntry, Running
  <2>2. running[t].sock \in OSPorts \cup {0}
    BY <2>1 DEF Entry, NoEntry, ErrorEntry
  <2> DEFINE pc == IF Running(t) THEN "closing" ELSE "stopped"
  <2>3. pc \in StartPC \cup StopPC \cup UpdatePC
    BY DEF StopPC
  <2>4. Begins(q, op, t, pc, NoRow, running[t].sock)
    BY <1>4 DEF StopDeletes
  <2> HIDE DEF pc
  <2>5. /\ thread' \in [Requests -> Thread]
        /\ thread'[q].pc = pc /\ thread'[q].sock = running[t].sock
        /\ raced' \subseteq Tunnels /\ twiceStarted' \subseteq raced'
    <3>1. op \in {"start", "stop", "delete", "update"} /\ NoRow \in Row \cup {NoRow}
      OBVIOUS
    <3> QED
      BY <1>0, <2>2, <2>3, <2>4, <3>1, BeginsType
  <2>6. \A r \in Requests \ {q} : thread'[r] = thread[r]
    BY <1>0, <2>4 DEF Begins, TypeOK
  <2>7. running' \in [Tunnels -> Entry]
    BY <1>0, <1>4 DEF StopDeletes, TypeOK, Entry
  <2> QED
    BY <1>4, <2>1, <2>5, <2>6, <2>7 DEF pc, TypeInv, TypeOK, StopDeletes, InHandPC
<1>5. ASSUME NEW q \in Requests, StartChecks(q) PROVE TypeInv'
  BY <1>5, DropsKeepsType, GoesKeepsType DEF StartChecks, At, StartPC, InHandPC
<1>6. ASSUME NEW q \in Requests, StartConnects(q) PROVE TypeInv'
  BY <1>6, DropsKeepsType, GoesKeepsType DEF StartConnects, At, StartPC, InHandPC
<1>7. ASSUME NEW q \in Requests, StartListens(q) PROVE TypeInv'
  <2>0. thread[q].op = "start" /\ thread[q].tunnel \in Tunnels /\ thread[q] # Idle
    BY <1>0, <1>7, BusyHasTunnel DEF StartListens, At
  <2>1. ASSUME NEW pc \in {"failing", "refused"}, Drops(q, pc), UNCHANGED holder PROVE TypeInv'
    BY <1>0, <1>7, <2>0, <2>1, ThreadOnlyType, DropsType
       DEF StartListens, StartPC, InHandPC, Drops
  <2>2. ASSUME NEW p \in OSPorts, holder' = [holder EXCEPT ![p] = thread[q].tunnel],
               thread' = [thread EXCEPT ![q].pc = "bound", ![q].sock = p]
        PROVE  TypeInv'
    <3>1. thread[q] \in Thread \ {Idle}
      BY <1>0, <2>0 DEF TypeOK
    <3>2. [thread[q] EXCEPT !.pc = "bound", !.sock = p] \in Thread
      BY <3>1 DEF Thread, StartPC
    <3>3. thread' = [thread EXCEPT ![q] = [thread[q] EXCEPT !.pc = "bound", !.sock = p]]
      BY <2>2
    <3>4. thread' \in [Requests -> Thread]
      BY <1>0, <3>2, <3>3 DEF TypeOK
    <3>5. thread'[q].sock = p /\ \A r \in Requests \ {q} : thread'[r] = thread[r]
      BY <1>0, <3>1, <3>3 DEF TypeOK, Thread
    <3> QED
      BY <1>7, <2>0, <2>2, <3>4, <3>5 DEF TypeInv, TypeOK, StartListens
  <2> QED
    BY <1>7, <2>1, <2>2 DEF StartListens, Listens
<1>8. ASSUME NEW q \in Requests, StartSetsError(q) PROVE TypeInv'
  <2>1. thread[q].op = "start" /\ thread[q].tunnel \in Tunnels
    BY <1>0, <1>8, BusyHasTunnel DEF StartSetsError, At
  <2>2. thread' \in [Requests -> Thread] /\ thread'[q].pc \in {"busy", "failing"}
    BY <1>0, <1>8, <2>1, DropsType DEF StartSetsError, StartPC
  <2>3. \A r \in Requests \ {q} : thread'[r] = thread[r]
    BY <1>0, <1>8 DEF StartSetsError, Drops, TypeOK
  <2> QED
    BY <1>8, <2>1, <2>2, <2>3 DEF TypeInv, TypeOK, StartSetsError, InHandPC, Entry
<1>9. ASSUME NEW q \in Requests, StartRegisters(q) PROVE TypeInv'
  <2>1. /\ thread[q].op = "start" /\ thread[q].tunnel \in Tunnels
        /\ thread[q].row \in Row \cup {NoRow}
    BY <1>0, <1>9, BusyHasTunnel DEF StartRegisters, At
  <2>2. thread[q].sock \in OSPorts
    BY <1>9 DEF StartRegisters, At, TypeInv, TypeOK, Thread, Idle, InHandPC
  <2>3. thread[q].row.port \in Ports \cup {0}
    BY <2>1 DEF Row, NoRow
  <2>4. CASE BindConflict(thread[q].tunnel, thread[q].row.port)
    <3>1. Goes(q, "yielding") /\ UNCHANGED <<rows, running, holder, raced, twiceStarted>>
      BY <1>9, <2>4 DEF StartRegisters
    <3>2. thread'[q].sock = thread[q].sock /\ \A r \in Requests \ {q} : thread'[r] = thread[r]
      BY <1>0, <3>1 DEF Goes, TypeOK, Thread, Idle
    <3> QED
      BY <1>0, <2>1, <2>2, <3>1, <3>2, GoesType, ThreadOnlyType DEF StartPC
  <2>5. CASE ~BindConflict(thread[q].tunnel, thread[q].row.port)
    <3>1. /\ Drops(q, "started") /\ UNCHANGED <<rows, holder, raced, twiceStarted>>
          /\ running' = [running EXCEPT ![thread[q].tunnel] =
                   [status |-> "running", port |-> thread[q].row.port,
                    sock |-> thread[q].sock]]
      BY <1>9, <2>5 DEF StartRegisters
    <3>2. running' \in [Tunnels -> Entry]
      BY <1>0, <2>2, <2>3, <3>1 DEF TypeOK, Entry
    <3>3. thread' \in [Requests -> Thread] /\ thread'[q].pc = "started"
      BY <1>0, <2>1, <3>1, DropsType DEF StartPC
    <3> QED
      BY <3>1, <3>2, <3>3 DEF TypeInv, TypeOK, InHandPC, Drops
  <2> QED
    BY <2>4, <2>5
<1>10. ASSUME NEW q \in Requests, StartYields(q) PROVE TypeInv'
  <2>1. thread[q].op = "start"
    BY <1>10 DEF StartYields, At
  <2>2. thread' \in [Requests -> Thread] /\ thread'[q].pc = "yielded"
    BY <1>0, <1>10, <2>1, DropsType DEF StartYields, StartPC
  <2> QED
    BY <1>10, <2>2 DEF TypeInv, TypeOK, StartYields, InHandPC, Drops
<1>11. ASSUME NEW q \in Requests, StartEnriches(q) PROVE TypeInv'
  <2>1. thread[q] \in Thread \ {Idle} /\ thread[q].tunnel \in Tunnels
    BY <1>0, <1>11, BusyHasTunnel DEF StartEnriches, TypeOK
  <2>2. running[thread[q].tunnel].status \in {"running", "stopped", "error"}
    BY <1>0, <2>1 DEF TypeOK, Entry, NoEntry, ErrorEntry
  <2>3. PICK pc \in {"tellingError", "tellingBusy", "telling"} :
            thread' = [thread EXCEPT ![q] = [thread[q] EXCEPT !.pc = pc,
                                  !.status = running[thread[q].tunnel].status]]
    BY <1>0, <1>11, <2>1 DEF StartEnriches, TypeOK, Thread
  <2>4. [thread[q] EXCEPT !.pc = pc, !.status = running[thread[q].tunnel].status] \in Thread
    BY <2>1, <2>2 DEF Thread, StartPC
  <2>5. /\ thread' \in [Requests -> Thread] /\ thread'[q].pc = pc
        /\ \A r \in Requests \ {q} : thread'[r] = thread[r]
    BY <1>0, <2>1, <2>3, <2>4 DEF TypeOK, Thread
  <2> QED
    BY <1>11, <2>5, ThreadOnlyType DEF StartEnriches, InHandPC
<1>12. ASSUME NEW q \in Requests, Answers(q) PROVE TypeInv'
  BY <1>0, <1>12, EndsType, ThreadOnlyType DEF Answers, Ends, InHandPC, Idle, TypeOK
<1>13. ASSUME NEW q \in Requests, StopCloses(q) PROVE TypeInv'
  <2>1. thread[q].op # "none"
    BY <1>13 DEF StopCloses, Stopping
  <2>2. thread' \in [Requests -> Thread] /\ thread'[q].pc = "draining"
    BY <1>0, <1>13, <2>1, DropsType DEF StopCloses, StopPC
  <2> QED
    BY <1>13, <2>2 DEF TypeInv, TypeOK, StopCloses, InHandPC, Drops
<1>14. ASSUME NEW q \in Requests, StopReturns(q) PROVE TypeInv'
  BY <1>14, GoesKeepsType DEF StopReturns, Stopping, StopPC, InHandPC
<1>15. ASSUME NEW q \in Requests, StopEnriches(q) PROVE TypeInv'
  <2>1. CASE rows[thread[q].tunnel] = NoRow
    BY <1>0, <1>15, <2>1, EndsType, ThreadOnlyType
       DEF StopEnriches, Ends, InHandPC, Idle, TypeOK
  <2>2. CASE rows[thread[q].tunnel] # NoRow
    <3>1. thread[q] \in Thread \ {Idle} /\ thread[q].tunnel \in Tunnels
      BY <1>0, <1>15, BusyHasTunnel DEF StopEnriches, At, TypeOK
    <3>2. running[thread[q].tunnel].status \in {"running", "stopped", "error"}
      BY <1>0, <3>1 DEF TypeOK, Entry, NoEntry, ErrorEntry
    <3>3. thread' = [thread EXCEPT ![q] = [thread[q] EXCEPT !.pc = "telling",
                                  !.status = running[thread[q].tunnel].status]]
      BY <1>0, <1>15, <2>2, <3>1 DEF StopEnriches, TypeOK, Thread
    <3>4. [thread[q] EXCEPT !.pc = "telling", !.status = running[thread[q].tunnel].status]
            \in Thread
      BY <3>1, <3>2 DEF Thread, StartPC
    <3> QED
      BY <1>0, <1>15, <3>1, <3>3, <3>4, ThreadOnlyType DEF StopEnriches, InHandPC, TypeOK, Thread
  <2> QED
    BY <2>1, <2>2
<1>16. ASSUME NEW q \in Requests, DeleteRow(q) PROVE TypeInv'
  BY <1>0, <1>16, EndsType DEF DeleteRow, Ends, InHandPC, Idle, TypeOK, TypeInv
<1>17. ASSUME NEW q \in Requests, UpdateChecks(q) PROVE TypeInv'
  BY <1>0, <1>17, EndsType, GoesType, ThreadOnlyType
     DEF UpdateChecks, At, Ends, Goes, InHandPC, Idle, TypeOK, UpdatePC
<1>18. ASSUME NEW q \in Requests, NEW port \in Ports \cup {0}, NEW kind \in Kinds,
              UpdateSaves(q, port, kind)
       PROVE  TypeInv'
  <2>1. thread[q].row \in Row \cup {NoRow}
    BY <1>0, <1>18, BusyHasTunnel DEF UpdateSaves, At
  <2>2. [port |-> IF port = 0 THEN thread[q].row.port ELSE port, kind |-> kind] \in Row
    BY <2>1 DEF Row, NoRow
  <2> QED
    BY <1>0, <1>18, <2>2, EndsType DEF UpdateSaves, Ends, InHandPC, Idle, TypeOK, TypeInv
<1>19. CASE UNCHANGED vars
  BY <1>19 DEF TypeInv, TypeOK, vars
<1> QED
  BY <1>1, <1>2, <1>3, <1>4, <1>5, <1>6, <1>7, <1>8, <1>9, <1>10, <1>11, <1>12, <1>13,
     <1>14, <1>15, <1>16, <1>17, <1>18, <1>19 DEF Next, StartStep, StopStep

\* The types, with the addresses of the listeners that are open or in hand.
THEOREM TypeInvariant == Spec => []TypeInv
<1> QED
  BY TypeInit, TypeNext, PTL DEF Spec

\* Every variable of the tunnel manager keeps its type.
THEOREM TypeCorrect == Spec => []TypeOK
<1>1. TypeInv => TypeOK
  BY DEF TypeInv
<1> QED
  BY <1>1, TypeInvariant, PTL

--------------------------------------------------------------------------------
(* What the ways a request goes on do to its own fields and to the others  *)

\* A refused request is over and leaves the others alone.
LEMMA DropsEffect ==
    ASSUME TypeInv, NEW q \in Requests, NEW pc, Drops(q, pc)
    PROVE  /\ thread'[q].op = thread[q].op /\ thread'[q].pc = pc
           /\ thread'[q].tunnel = thread[q].tunnel
           /\ thread'[q].row = NoRow /\ thread'[q].sock = 0
           /\ \A r \in Requests \ {q} : thread'[r] = thread[r]
BY DEF TypeInv, TypeOK, Drops, Idle

\* One that goes on keeps its tunnel and what it has read.
LEMMA GoesEffect ==
    ASSUME TypeInv, NEW q \in Requests, NEW pc, Goes(q, pc)
    PROVE  /\ thread'[q].op = thread[q].op /\ thread'[q].pc = pc
           /\ thread'[q].tunnel = thread[q].tunnel
           /\ thread'[q].row = thread[q].row /\ thread'[q].sock = thread[q].sock
           /\ \A r \in Requests \ {q} : thread'[r] = thread[r]
<1>1. thread[q] \in Thread
  BY DEF TypeInv, TypeOK
<1>2. thread' = [thread EXCEPT ![q] = [thread[q] EXCEPT !.pc = pc]]
  BY DEF Goes
<1> QED
  BY <1>1, <1>2 DEF TypeInv, TypeOK, Thread, Idle

\* One that answers is over.
LEMMA EndsEffect ==
    ASSUME TypeInv, NEW q \in Requests, Ends(q)
    PROVE  /\ thread'[q] = Idle
           /\ \A r \in Requests \ {q} : thread'[r] = thread[r]
BY DEF TypeInv, TypeOK, Ends

\* One that begins takes a tunnel and a row and leaves the others alone.
LEMMA BeginsEffect ==
    ASSUME TypeInv, NEW q \in Requests, NEW op, NEW t, NEW pc, NEW row, NEW sock,
           Begins(q, op, t, pc, row, sock)
    PROVE  /\ thread[q] = Idle
           /\ thread'[q].op = op /\ thread'[q].pc = pc /\ thread'[q].tunnel = t
           /\ thread'[q].row = row /\ thread'[q].sock = sock
           /\ \A r \in Requests \ {q} : thread'[r] = thread[r]
<1>1. thread' = [thread EXCEPT ![q] = [Idle EXCEPT !.op = op, !.pc = pc, !.tunnel = t,
                                                   !.row = row, !.sock = sock]]
  BY DEF Begins
<1> QED
  BY <1>1 DEF TypeInv, TypeOK, Begins, Idle

\* The listen that succeeds.
LEMMA BindsEffect ==
    ASSUME TypeInv, NEW q \in Requests, NEW p,
           thread' = [thread EXCEPT ![q].pc = "bound", ![q].sock = p]
    PROVE  /\ thread'[q].op = thread[q].op /\ thread'[q].pc = "bound"
           /\ thread'[q].tunnel = thread[q].tunnel
           /\ thread'[q].row = thread[q].row /\ thread'[q].sock = p
           /\ \A r \in Requests \ {q} : thread'[r] = thread[r]
<1>1. thread[q] \in Thread
  BY DEF TypeInv, TypeOK
<1>2. thread' = [thread EXCEPT ![q] = [thread[q] EXCEPT !.pc = "bound", !.sock = p]]
  OBVIOUS
<1> QED
  BY <1>1, <1>2 DEF TypeInv, TypeOK, Thread, Idle

--------------------------------------------------------------------------------
(* Listeners in hand *)

\* A listener in hand is open for its tunnel, in one hand only and in no entry.
HandInv ==
    /\ \A q \in Requests :
          thread[q].pc \in InHandPC => holder[thread[q].sock] = thread[q].tunnel
    /\ \A q, r \in Requests :
          q # r /\ thread[q].pc \in InHandPC /\ thread[r].pc \in InHandPC
             => thread[q].sock # thread[r].sock
    /\ \A q \in Requests, t \in Tunnels :
          thread[q].pc \in InHandPC /\ Running(t) => running[t].sock # thread[q].sock
    /\ RunningTunnelListens
    /\ RunningAddressesDiffer

\* At first nothing listens.
LEMMA HandInit == Init => HandInv
BY DEF Init, HandInv, RunningTunnelListens, RunningAddressesDiffer, Running, NoEntry,
       Idle, InHandPC

\* A step that touches neither entries nor listeners, and takes none in hand.
LEMMA HandStable ==
    ASSUME TypeInv, HandInv, NEW q \in Requests,
           \A r \in Requests \ {q} : thread'[r] = thread[r],
           \/ thread'[q].pc \notin InHandPC
           \/ /\ thread[q].pc \in InHandPC
              /\ thread'[q].sock = thread[q].sock /\ thread'[q].tunnel = thread[q].tunnel,
           UNCHANGED <<running, holder>>
    PROVE  HandInv'
BY DEF HandInv, RunningTunnelListens, RunningAddressesDiffer, Running

\* The entry of a tunnel that does not run afterwards.
LEMMA HandEntryGone ==
    ASSUME TypeInv, HandInv, NEW q \in Requests, NEW t \in Tunnels,
           NEW e \in {NoEntry, ErrorEntry},
           \A r \in Requests \ {q} : thread'[r] = thread[r],
           thread'[q].pc \notin InHandPC,
           running' = [running EXCEPT ![t] = e], UNCHANGED holder
    PROVE  HandInv'
<1>1. \A u \in Tunnels : Running(u)' => u # t /\ Running(u) /\ running'[u] = running[u]
  BY DEF TypeInv, TypeOK, Running, NoEntry, ErrorEntry
<1> QED
  BY <1>1 DEF HandInv, RunningTunnelListens, RunningAddressesDiffer

\* The listener in a request's hand is closed.
LEMMA HandCloses ==
    ASSUME TypeInv, HandInv, NEW q \in Requests, thread[q].pc \in InHandPC,
           \A r \in Requests \ {q} : thread'[r] = thread[r],
           thread'[q].pc \notin InHandPC,
           holder' = [holder EXCEPT ![thread[q].sock] = NoTunnel], UNCHANGED running
    PROVE  HandInv'
<1>1. \A p : p # thread[q].sock /\ p \in OSPorts => holder'[p] = holder[p]
  BY DEF TypeInv, TypeOK
<1>2. \A t \in Tunnels : Running(t) => running[t].sock \in OSPorts
  BY DEF TypeInv, TypeOK, Running, Entry, NoEntry, ErrorEntry
<1>3. \A r \in Requests : thread[r].pc \in InHandPC => thread[r].sock \in OSPorts
  BY DEF TypeInv, TypeOK, Thread, Idle, InHandPC
<1> QED
  BY <1>1, <1>2, <1>3 DEF HandInv, RunningTunnelListens, RunningAddressesDiffer, Running

\* Every step keeps who owns which listener.
LEMMA HandNext == TypeInv /\ HandInv /\ [Next]_vars => HandInv'
<1> SUFFICES ASSUME TypeInv, HandInv, [Next]_vars PROVE HandInv'
  OBVIOUS
<1> USE PortsArePositive
<1>1. ASSUME NEW t \in Tunnels, NEW row \in Row, CreateTunnel(t, row) PROVE HandInv'
  BY <1>1 DEF CreateTunnel, HandInv, RunningTunnelListens, RunningAddressesDiffer, Running
<1>2. ASSUME NEW q \in Requests, NEW t \in Tunnels, StartReads(q, t) PROVE HandInv'
  BY <1>2, BeginsEffect, HandStable DEF StartReads, InHandPC
<1>3. ASSUME NEW q \in Requests, NEW t \in Tunnels, UpdateReads(q, t) PROVE HandInv'
  BY <1>3, BeginsEffect, HandStable DEF UpdateReads, InHandPC
<1>4. ASSUME NEW q \in Requests, NEW t \in Tunnels, NEW op \in {"stop", "delete"},
             StopDeletes(q, op, t)
      PROVE  HandInv'
  <2> DEFINE pc == IF Running(t) THEN "closing" ELSE "stopped"
  <2>1. /\ Begins(q, op, t, pc, NoRow, running[t].sock)
        /\ running' = [running EXCEPT ![t] = NoEntry] /\ UNCHANGED holder
    BY <1>4 DEF StopDeletes
  <2> HIDE DEF pc
  <2>2. /\ thread'[q].pc = pc /\ thread'[q].tunnel = t /\ thread'[q].sock = running[t].sock
        /\ \A r \in Requests \ {q} : thread'[r] = thread[r]
    BY <2>1, BeginsEffect
  <2>3. CASE ~Running(t)
    BY <2>1, <2>2, <2>3, HandEntryGone DEF pc, InHandPC
  <2>4. CASE Running(t)
    <3>1. \A u \in Tunnels : Running(u)' => u # t /\ Running(u) /\ running'[u] = running[u]
      BY <2>1 DEF TypeInv, TypeOK, Running, NoEntry
    <3>2. \A u \in Tunnels \ {t} : Running(u) => running[u].sock # running[t].sock
      BY <2>4 DEF HandInv, RunningTunnelListens
    <3>3. RunningTunnelListens' /\ RunningAddressesDiffer'
      BY <2>1, <3>1 DEF HandInv, RunningTunnelListens, RunningAddressesDiffer
    <3>4. \A r \in Requests : thread'[r].pc \in InHandPC
             => holder'[thread'[r].sock] = thread'[r].tunnel
      BY <2>1, <2>2, <2>4 DEF HandInv, RunningTunnelListens
    <3>5. \A r, s \in Requests :
             r # s /\ thread'[r].pc \in InHandPC /\ thread'[s].pc \in InHandPC
                => thread'[r].sock # thread'[s].sock
      BY <2>2, <2>4 DEF HandInv
    <3>6. \A r \in Requests, u \in Tunnels :
             thread'[r].pc \in InHandPC /\ Running(u)' => running'[u].sock # thread'[r].sock
      BY <2>2, <3>1, <3>2 DEF HandInv
    <3> QED
      BY <3>3, <3>4, <3>5, <3>6 DEF HandInv
  <2> QED
    BY <2>3, <2>4
<1>5. ASSUME NEW q \in Requests, StartChecks(q) PROVE HandInv'
  BY <1>5, DropsEffect, GoesEffect, HandStable DEF StartChecks, InHandPC
<1>6. ASSUME NEW q \in Requests, StartConnects(q) PROVE HandInv'
  BY <1>6, DropsEffect, GoesEffect, HandStable DEF StartConnects, InHandPC
<1>7. ASSUME NEW q \in Requests, StartListens(q) PROVE HandInv'
  <2>1. ASSUME NEW pc \in {"failing", "refused"}, Drops(q, pc), UNCHANGED holder PROVE HandInv'
    BY <1>7, <2>1, DropsEffect, HandStable DEF StartListens, InHandPC
  <2>2. ASSUME NEW p \in OSPorts, holder[p] = NoTunnel,
               holder' = [holder EXCEPT ![p] = thread[q].tunnel],
               thread' = [thread EXCEPT ![q].pc = "bound", ![q].sock = p]
        PROVE  HandInv'
    <3>1. /\ thread'[q].tunnel = thread[q].tunnel /\ thread'[q].sock = p
          /\ \A r \in Requests \ {q} : thread'[r] = thread[r]
      BY <2>2, BindsEffect
    <3>2. \A t \in Tunnels : Running(t) => running[t].sock \in OSPorts /\ running[t].sock # p
      BY <2>2, NoTunnelAssumption
         DEF HandInv, RunningTunnelListens, TypeInv, TypeOK, Running, Entry, NoEntry, ErrorEntry
    <3>3. \A r \in Requests :
             thread[r].pc \in InHandPC => thread[r].sock \in OSPorts /\ thread[r].sock # p
      <4> SUFFICES ASSUME NEW r \in Requests, thread[r].pc \in InHandPC
                   PROVE  thread[r].sock \in OSPorts /\ thread[r].sock # p
        OBVIOUS
      <4>1. thread[r].tunnel \in Tunnels
        BY BusyHasTunnel DEF InHandPC, TypeInv
      <4>2. thread[r].sock \in OSPorts
        BY DEF TypeInv, TypeOK, Thread, Idle, InHandPC
      <4> QED
        BY <2>2, <4>1, <4>2, NoTunnelAssumption DEF HandInv
    <3>4. holder'[p] = thread[q].tunnel /\ \A x \in OSPorts \ {p} : holder'[x] = holder[x]
      BY <2>2 DEF TypeInv, TypeOK
    <3>5. UNCHANGED running
      BY <1>7 DEF StartListens
    <3> QED
      BY <3>1, <3>2, <3>3, <3>4, <3>5
         DEF HandInv, RunningTunnelListens, RunningAddressesDiffer, Running
  <2> QED
    BY <1>7, <2>1, <2>2 DEF StartListens, Listens
<1>8. ASSUME NEW q \in Requests, StartSetsError(q) PROVE HandInv'
  <2>1. thread[q].tunnel \in Tunnels
    BY <1>8, BusyHasTunnel DEF StartSetsError, At, TypeInv
  <2> QED
    <3>1. PICK pc \in {"busy", "failing"} : Drops(q, pc)
      BY <1>8 DEF StartSetsError
    <3>2. thread'[q].pc \notin InHandPC /\ \A r \in Requests \ {q} : thread'[r] = thread[r]
      BY <3>1, DropsEffect DEF InHandPC
    <3> QED
      BY <1>8, <2>1, <3>2, HandEntryGone DEF StartSetsError
<1>9. ASSUME NEW q \in Requests, StartRegisters(q) PROVE HandInv'
  <2> DEFINE t == thread[q].tunnel
             port == thread[q].row.port
             sock == thread[q].sock
  <2>1. t \in Tunnels /\ thread[q].pc = "bound" /\ UNCHANGED holder
    BY <1>9, BusyHasTunnel DEF StartRegisters, At, TypeInv
  <2>2. CASE BindConflict(t, port)
    BY <1>9, <2>1, <2>2, GoesEffect, HandStable DEF StartRegisters, InHandPC
  <2>3. CASE ~BindConflict(t, port)
    <3>1. /\ Drops(q, "started")
          /\ running' = [running EXCEPT ![t] = [status |-> "running", port |-> port, sock |-> sock]]
      BY <1>9, <2>3 DEF StartRegisters
    <3>2. thread'[q].pc \notin InHandPC /\ \A r \in Requests \ {q} : thread'[r] = thread[r]
      BY <3>1, DropsEffect DEF InHandPC
    <3>3. /\ running'[t].port = port /\ running'[t].sock = sock
          /\ \A u \in Tunnels \ {t} : running'[u] = running[u]
      BY <2>1, <3>1 DEF TypeInv, TypeOK
    <3>4. holder[sock] = t
      BY <2>1 DEF HandInv, InHandPC
    <3>5. RunningTunnelListens'
      BY <2>1, <3>3, <3>4 DEF HandInv, RunningTunnelListens, Running
    <3>6. RunningAddressesDiffer'
      BY <2>1, <2>3, <3>3 DEF HandInv, RunningAddressesDiffer, Running, BindConflict
    <3>7. \A r \in Requests, u \in Tunnels :
             thread'[r].pc \in InHandPC /\ Running(u)' => running'[u].sock # thread'[r].sock
      BY <2>1, <3>2, <3>3 DEF HandInv, Running, InHandPC
    <3> QED
      BY <2>1, <3>2, <3>5, <3>6, <3>7 DEF HandInv
  <2> QED
    BY <2>2, <2>3
<1>10. ASSUME NEW q \in Requests, StartYields(q) PROVE HandInv'
  <2>1. thread[q].pc \in InHandPC /\ Drops(q, "yielded")
    BY <1>10 DEF StartYields, At, InHandPC
  <2>2. thread'[q].pc \notin InHandPC /\ \A r \in Requests \ {q} : thread'[r] = thread[r]
    BY <2>1, DropsEffect DEF InHandPC
  <2> QED
    BY <1>10, <2>1, <2>2, HandCloses DEF StartYields
<1>11. ASSUME NEW q \in Requests, StartEnriches(q) PROVE HandInv'
  <2>1. thread'[q].pc \notin InHandPC /\ \A r \in Requests \ {q} : thread'[r] = thread[r]
    <3>1. thread[q] \in Thread \ {Idle}
      BY <1>11, BusyHasTunnel DEF StartEnriches, TypeInv, TypeOK
    <3> QED
      BY <1>11, <3>1 DEF StartEnriches, InHandPC, TypeInv, TypeOK, Thread
  <2> QED
    BY <1>11, <2>1, HandStable DEF StartEnriches
<1>12. ASSUME NEW q \in Requests, Answers(q) PROVE HandInv'
  BY <1>12, EndsEffect, HandStable DEF Answers, InHandPC, Idle
<1>13. ASSUME NEW q \in Requests, StopCloses(q) PROVE HandInv'
  <2>1. thread[q].pc \in InHandPC /\ Drops(q, "draining")
    BY <1>13 DEF StopCloses, InHandPC
  <2>2. thread'[q].pc \notin InHandPC /\ \A r \in Requests \ {q} : thread'[r] = thread[r]
    BY <2>1, DropsEffect DEF InHandPC
  <2> QED
    BY <1>13, <2>1, <2>2, HandCloses DEF StopCloses
<1>14. ASSUME NEW q \in Requests, StopReturns(q) PROVE HandInv'
  BY <1>14, GoesEffect, HandStable DEF StopReturns, InHandPC
<1>15. ASSUME NEW q \in Requests, StopEnriches(q) PROVE HandInv'
  <2>1. thread'[q].pc \notin InHandPC /\ \A r \in Requests \ {q} : thread'[r] = thread[r]
    <3>1. thread[q] \in Thread \ {Idle}
      BY <1>15, BusyHasTunnel DEF StopEnriches, At, TypeInv, TypeOK
    <3> QED
      BY <1>15, <3>1, EndsEffect DEF StopEnriches, InHandPC, Idle, TypeInv, TypeOK, Thread
  <2> QED
    BY <1>15, <2>1, HandStable DEF StopEnriches
<1>16. ASSUME NEW q \in Requests, DeleteRow(q) PROVE HandInv'
  BY <1>16, EndsEffect, HandStable DEF DeleteRow, InHandPC, Idle
<1>17. ASSUME NEW q \in Requests, UpdateChecks(q) PROVE HandInv'
  BY <1>17, EndsEffect, GoesEffect, HandStable DEF UpdateChecks, InHandPC, Idle
<1>18. ASSUME NEW q \in Requests, NEW port \in Ports \cup {0}, NEW kind \in Kinds,
              UpdateSaves(q, port, kind)
       PROVE  HandInv'
  BY <1>18, EndsEffect, HandStable DEF UpdateSaves, InHandPC, Idle
<1>19. CASE UNCHANGED vars
  BY <1>19 DEF HandInv, RunningTunnelListens, RunningAddressesDiffer, Running, vars
<1> QED
  BY <1>1, <1>2, <1>3, <1>4, <1>5, <1>6, <1>7, <1>8, <1>9, <1>10, <1>11, <1>12, <1>13,
     <1>14, <1>15, <1>16, <1>17, <1>18, <1>19 DEF Next, StartStep, StopStep

\* Every open listener in an entry or in a request's hand has one owner,
\* and running tunnels listen on addresses of their own.
THEOREM HandInvariant == Spec => []HandInv
<1> QED
  BY HandInit, HandNext, TypeInvariant, PTL DEF Spec

\* A tunnel shown as running always has its own open listener.
THEOREM RunningListens == Spec => []RunningTunnelListens
<1>1. HandInv => RunningTunnelListens
  BY DEF HandInv
<1> QED
  BY <1>1, HandInvariant, PTL

\* No two tunnels shown as running report the same local address.
THEOREM AddressesDiffer == Spec => []RunningAddressesDiffer
<1>1. HandInv => RunningAddressesDiffer
  BY DEF HandInv
<1> QED
  BY <1>1, HandInvariant, PTL

--------------------------------------------------------------------------------
(* Tunnels that were never started twice at a time                         *)

UnregisteredPC == {"connecting", "listening", "refused", "bound", "yielding", "yielded"}

Registered(p) == Running(holder[p]) /\ running[holder[p]].sock = p

\* One start at a time; while it has registered nothing the tunnel does not run;
\* and every listener of the tunnel is in a request's hand or in its entry.
StartsInv ==
    /\ \A q, r \in Requests :
             thread[q].op = "start" /\ thread[r].op = "start"
          /\ thread[q].tunnel = thread[r].tunnel /\ thread[q].tunnel \notin twiceStarted
             => q = r
    /\ \A q \in Requests :
             thread[q].op = "start" /\ thread[q].pc \in UnregisteredPC
          /\ thread[q].tunnel \notin twiceStarted
             => ~Running(thread[q].tunnel)
    /\ \A p \in OSPorts :
          holder[p] # NoTunnel /\ holder[p] \notin twiceStarted
             => InHand(p) \/ Registered(p)

\* At first no request is at work.
LEMMA StartsInit == Init => StartsInv
BY DEF Init, StartsInv, Idle

\* What the history of starts records when a request begins.
LEMMA BeginsGhosts ==
    ASSUME TypeInv, NEW q \in Requests, NEW op, NEW t \in Tunnels, NEW pc, NEW row, NEW sock,
           Begins(q, op, t, pc, row, sock)
    PROVE  /\ twiceStarted \subseteq twiceStarted' /\ raced \subseteq raced'
           /\ op = "start" /\ t \notin twiceStarted'
                => \A r \in Requests : thread[r].tunnel = t => thread[r].op # "start"
           /\ t \notin raced' => \A r \in Requests : thread[r].tunnel # t
BY DEF Begins

\* A step of one request that leaves entries and listeners as they are, takes
\* no listener into its hand or out of it, and begins no start.
LEMMA StartsStable ==
    ASSUME TypeInv, StartsInv, NEW q \in Requests,
           \A r \in Requests \ {q} : thread'[r] = thread[r],
           thread'[q].op = "start" =>
              /\ thread[q].op = "start" /\ thread'[q].tunnel = thread[q].tunnel
              /\ thread'[q].pc \in UnregisteredPC =>
                    thread[q].pc \in UnregisteredPC \/ ~Running(thread[q].tunnel),
           thread[q].pc \in InHandPC =>
              thread'[q].pc \in InHandPC /\ thread'[q].sock = thread[q].sock,
           twiceStarted \subseteq twiceStarted', UNCHANGED <<running, holder>>
    PROVE  StartsInv'
<1>1. \A p \in OSPorts : InHand(p) => InHand(p)'
  BY DEF InHand, InHandPC
<1>2. \A p \in OSPorts : Registered(p)' <=> Registered(p)
  BY DEF Registered, Running
<1>3. \A p \in OSPorts : holder'[p] # NoTunnel /\ holder'[p] \notin twiceStarted'
             => InHand(p)' \/ Registered(p)'
  BY <1>1, <1>2 DEF StartsInv
<1>4. \A r, s \in Requests :
             thread'[r].op = "start" /\ thread'[s].op = "start"
          /\ thread'[r].tunnel = thread'[s].tunnel /\ thread'[r].tunnel \notin twiceStarted'
             => r = s
  BY DEF StartsInv
<1>5. \A r \in Requests :
             thread'[r].op = "start" /\ thread'[r].pc \in UnregisteredPC
          /\ thread'[r].tunnel \notin twiceStarted'
             => running'[thread'[r].tunnel].status # "running"
  BY DEF StartsInv, Running
<1> QED
  BY <1>3, <1>4, <1>5 DEF StartsInv, Running

\* Every step keeps the account of which listeners are owned.
LEMMA StartsNext == TypeInv /\ HandInv /\ StartsInv /\ [Next]_vars => StartsInv'
<1> SUFFICES ASSUME TypeInv, HandInv, StartsInv, [Next]_vars PROVE StartsInv'
  OBVIOUS
<1> USE PortsArePositive DEF InHandPC, UnregisteredPC
<1>1. ASSUME NEW t \in Tunnels, NEW row \in Row, CreateTunnel(t, row) PROVE StartsInv'
  <2>1. \A q \in Requests : thread'[q] = thread[q] /\ thread[q].tunnel # t
    BY <1>1 DEF CreateTunnel
  <2>2. \A p \in OSPorts : holder'[p] = holder[p] /\ holder[p] # t
    BY <1>1 DEF CreateTunnel
  <2>3. twiceStarted' = twiceStarted \ {t} /\ running' = running
    BY <1>1 DEF CreateTunnel
  <2> QED
    BY <2>1, <2>2, <2>3 DEF StartsInv, InHand, Registered, Running
<1>2. ASSUME NEW q \in Requests, NEW t \in Tunnels, StartReads(q, t) PROVE StartsInv'
  <2>1. Begins(q, "start", t, "checking", rows[t], 0) /\ UNCHANGED <<running, holder>>
    BY <1>2 DEF StartReads
  <2>2. /\ thread[q] = Idle /\ thread'[q].op = "start" /\ thread'[q].pc = "checking"
        /\ thread'[q].tunnel = t /\ \A r \in Requests \ {q} : thread'[r] = thread[r]
    BY <2>1, BeginsEffect
  <2>3. /\ twiceStarted \subseteq twiceStarted'
        /\ t \notin twiceStarted'
             => \A r \in Requests : thread[r].tunnel = t => thread[r].op # "start"
    BY <2>1, BeginsGhosts
  <2>4. \A p \in OSPorts : InHand(p) => InHand(p)'
    BY <2>2 DEF InHand, Idle
  <2>5. \A p \in OSPorts : holder'[p] # NoTunnel /\ holder'[p] \notin twiceStarted'
               => InHand(p)' \/ Registered(p)'
    BY <2>1, <2>3, <2>4 DEF StartsInv, Registered, Running
  <2>6. \A r, s \in Requests :
               thread'[r].op = "start" /\ thread'[s].op = "start"
            /\ thread'[r].tunnel = thread'[s].tunnel /\ thread'[r].tunnel \notin twiceStarted'
               => r = s
    BY <2>2, <2>3 DEF StartsInv
  <2>7. \A r \in Requests :
               thread'[r].op = "start" /\ thread'[r].pc \in UnregisteredPC
            /\ thread'[r].tunnel \notin twiceStarted'
               => running'[thread'[r].tunnel].status # "running"
    BY <2>1, <2>2, <2>3 DEF StartsInv, Running
  <2> QED
    BY <2>5, <2>6, <2>7 DEF StartsInv, Running
<1>3. ASSUME NEW q \in Requests, NEW t \in Tunnels, UpdateReads(q, t) PROVE StartsInv'
  <2>1. Begins(q, "update", t, "checking", rows[t], 0) /\ UNCHANGED <<running, holder>>
    BY <1>3 DEF UpdateReads
  <2>2. /\ thread[q] = Idle /\ thread'[q].op = "update"
        /\ \A r \in Requests \ {q} : thread'[r] = thread[r]
    BY <2>1, BeginsEffect
  <2>3. twiceStarted \subseteq twiceStarted'
    BY <2>1, BeginsGhosts
  <2> QED
    BY <2>1, <2>2, <2>3, StartsStable DEF Idle
<1>4. ASSUME NEW q \in Requests, NEW t \in Tunnels, NEW op \in {"stop", "delete"},
             StopDeletes(q, op, t)
      PROVE  StartsInv'
  <2> DEFINE pc == IF Running(t) THEN "closing" ELSE "stopped"
  <2>1. /\ Begins(q, op, t, pc, NoRow, running[t].sock)
        /\ running' = [running EXCEPT ![t] = NoEntry] /\ UNCHANGED holder
    BY <1>4 DEF StopDeletes
  <2> HIDE DEF pc
  <2>2. /\ thread[q] = Idle /\ thread'[q].op = op /\ thread'[q].pc = pc
        /\ thread'[q].sock = running[t].sock
        /\ \A r \in Requests \ {q} : thread'[r] = thread[r]
    BY <2>1, BeginsEffect
  <2>3. twiceStarted \subseteq twiceStarted'
    BY <2>1, BeginsGhosts
  <2>4. /\ ~Running(t)'
        /\ \A u \in Tunnels \ {t} : running'[u] = running[u]
    BY <2>1 DEF TypeInv, TypeOK, Running, NoEntry
  <2>5. \A p \in OSPorts : InHand(p) => InHand(p)'
    BY <2>2 DEF InHand, Idle
  <2>6. \A p \in OSPorts : holder[p] = t /\ Registered(p) => InHand(p)'
    BY <2>2 DEF InHand, Registered, pc
  <2>7. \A p \in OSPorts : holder[p] \in Tunnels \ {t} /\ Registered(p) => Registered(p)'
    BY <2>1, <2>4 DEF Registered, Running
  <2>8. \A p \in OSPorts : holder'[p] # NoTunnel /\ holder'[p] \notin twiceStarted'
               => InHand(p)' \/ Registered(p)'
    BY <2>1, <2>3, <2>5, <2>6, <2>7 DEF StartsInv, TypeInv, TypeOK
  <2>9. \A r, s \in Requests :
               thread'[r].op = "start" /\ thread'[s].op = "start"
            /\ thread'[r].tunnel = thread'[s].tunnel /\ thread'[r].tunnel \notin twiceStarted'
               => r = s
    BY <2>2, <2>3 DEF StartsInv
  <2>10. \A r \in Requests :
               thread'[r].op = "start" /\ thread'[r].pc \in UnregisteredPC
            /\ thread'[r].tunnel \notin twiceStarted'
               => running'[thread'[r].tunnel].status # "running"
    <3> SUFFICES ASSUME NEW r \in Requests, thread'[r].op = "start",
                        thread'[r].pc \in UnregisteredPC,
                        thread'[r].tunnel \notin twiceStarted'
                 PROVE  running'[thread'[r].tunnel].status # "running"
      OBVIOUS
    <3>1. r # q /\ thread'[r] = thread[r]
      BY <2>2
    <3>2. thread[r].tunnel \in Tunnels
      BY <3>1, BusyHasTunnel DEF TypeInv
    <3> QED
      BY <2>3, <2>4, <3>1, <3>2 DEF StartsInv, Running
  <2> QED
    BY <2>8, <2>9, <2>10 DEF StartsInv, Running
<1>5. ASSUME NEW q \in Requests, StartChecks(q) PROVE StartsInv'
  <2>1. /\ thread[q].op = "start" /\ thread[q].pc = "checking"
        /\ UNCHANGED <<running, holder, twiceStarted>>
    BY <1>5 DEF StartChecks, At
  <2>2. PICK pc \in {"failing", "busy", "connecting"} :
            /\ Drops(q, pc) \/ Goes(q, pc)
            /\ pc = "connecting" => ~Running(thread[q].tunnel)
    BY <1>5 DEF StartChecks
  <2>3. /\ thread'[q].op = "start" /\ thread'[q].pc = pc
        /\ thread'[q].tunnel = thread[q].tunnel
        /\ \A r \in Requests \ {q} : thread'[r] = thread[r]
    BY <2>1, <2>2, DropsEffect, GoesEffect
  <2> QED
    BY <2>1, <2>2, <2>3, StartsStable
<1>6. ASSUME NEW q \in Requests, StartConnects(q) PROVE StartsInv'
  <2>1. /\ thread[q].op = "start" /\ thread[q].pc = "connecting"
        /\ UNCHANGED <<running, holder, twiceStarted>>
    BY <1>6 DEF StartConnects, At
  <2>2. PICK pc \in {"listening", "refused"} : Drops(q, pc) \/ Goes(q, pc)
    BY <1>6 DEF StartConnects
  <2>3. /\ thread'[q].op = "start" /\ thread'[q].tunnel = thread[q].tunnel
        /\ \A r \in Requests \ {q} : thread'[r] = thread[r]
    BY <2>1, <2>2, DropsEffect, GoesEffect
  <2> QED
    BY <2>1, <2>3, StartsStable
<1>7. ASSUME NEW q \in Requests, StartListens(q) PROVE StartsInv'
  <2>0. /\ thread[q].op = "start" /\ thread[q].pc = "listening"
        /\ UNCHANGED <<running, twiceStarted>>
    BY <1>7 DEF StartListens, At
  <2>1. ASSUME NEW pc \in {"failing", "refused"}, Drops(q, pc), UNCHANGED holder
        PROVE  StartsInv'
    <3>1. /\ thread'[q].op = "start" /\ thread'[q].tunnel = thread[q].tunnel
          /\ \A r \in Requests \ {q} : thread'[r] = thread[r]
      BY <2>0, <2>1, DropsEffect
    <3> QED
      BY <2>0, <2>1, <3>1, StartsStable
  <2>2. ASSUME NEW p \in OSPorts, holder[p] = NoTunnel,
               holder' = [holder EXCEPT ![p] = thread[q].tunnel],
               thread' = [thread EXCEPT ![q].pc = "bound", ![q].sock = p]
        PROVE  StartsInv'
    <3>1. /\ thread'[q].op = "start" /\ thread'[q].pc = "bound" /\ thread'[q].sock = p
          /\ thread'[q].tunnel = thread[q].tunnel
          /\ \A r \in Requests \ {q} : thread'[r] = thread[r]
      BY <2>0, <2>2, BindsEffect
    <3>2. \A x \in OSPorts \ {p} : holder'[x] = holder[x]
      BY <2>2 DEF TypeInv, TypeOK
    <3>3. InHand(p)'
      BY <3>1 DEF InHand
    <3>4. \A x \in OSPorts \ {p} : InHand(x) => InHand(x)'
      BY <2>0, <3>1 DEF InHand
    <3>5. \A x \in OSPorts \ {p} : Registered(x) => Registered(x)'
      BY <2>0, <3>2 DEF Registered, Running
    <3>6. \A x \in OSPorts : holder'[x] # NoTunnel /\ holder'[x] \notin twiceStarted'
               => InHand(x)' \/ Registered(x)'
      BY <2>0, <3>2, <3>3, <3>4, <3>5 DEF StartsInv
    <3>7. \A r, s \in Requests :
                 thread'[r].op = "start" /\ thread'[s].op = "start"
              /\ thread'[r].tunnel = thread'[s].tunnel /\ thread'[r].tunnel \notin twiceStarted'
                 => r = s
      BY <2>0, <3>1 DEF StartsInv
    <3>8. \A r \in Requests :
                 thread'[r].op = "start" /\ thread'[r].pc \in UnregisteredPC
              /\ thread'[r].tunnel \notin twiceStarted'
                 => running'[thread'[r].tunnel].status # "running"
      BY <2>0, <3>1 DEF StartsInv, Running
    <3> QED
      BY <3>6, <3>7, <3>8 DEF StartsInv, Running
  <2> QED
    BY <1>7, <2>1, <2>2 DEF StartListens, Listens
<1>8. ASSUME NEW q \in Requests, StartSetsError(q) PROVE StartsInv'
  <2> DEFINE t == thread[q].tunnel
  <2>1. /\ thread[q].op = "start" /\ thread[q].pc \in {"refused", "yielded"}
        /\ running' = [running EXCEPT ![t] = ErrorEntry]
        /\ UNCHANGED <<holder, twiceStarted>>
    BY <1>8 DEF StartSetsError, At
  <2>2. t \in Tunnels
    BY <2>1, BusyHasTunnel DEF TypeInv
  <2>3. PICK pc \in {"busy", "failing"} : Drops(q, pc)
    BY <1>8 DEF StartSetsError
  <2>4. /\ thread'[q].op = "start" /\ thread'[q].pc = pc /\ thread'[q].tunnel = t
        /\ \A r \in Requests \ {q} : thread'[r] = thread[r]
    BY <2>1, <2>3, DropsEffect
  <2>5. running'[t].status # "running" /\ \A u \in Tunnels \ {t} : running'[u] = running[u]
    BY <2>1, <2>2 DEF TypeInv, TypeOK, Running, ErrorEntry
  <2>6. t \notin twiceStarted => ~Running(t)
    BY <2>1 DEF StartsInv
  <2>7. \A p \in OSPorts : InHand(p) => InHand(p)'
    BY <2>1, <2>4 DEF InHand
  <2>8. \A p \in OSPorts : holder[p] # NoTunnel /\ holder[p] \notin twiceStarted /\ Registered(p)
                => Registered(p)'
    BY <2>1, <2>5, <2>6 DEF Registered, Running, TypeInv, TypeOK
  <2>9. \A r \in Requests :
               thread'[r].op = "start" /\ thread'[r].pc \in UnregisteredPC
            /\ thread'[r].tunnel \notin twiceStarted'
               => running'[thread'[r].tunnel].status # "running"
    <3> SUFFICES ASSUME NEW r \in Requests, thread'[r].op = "start",
                        thread'[r].pc \in UnregisteredPC,
                        thread'[r].tunnel \notin twiceStarted'
                 PROVE  running'[thread'[r].tunnel].status # "running"
      OBVIOUS
    <3>1. r # q /\ thread'[r] = thread[r]
      BY <2>4
    <3>2. thread[r].tunnel \in Tunnels
      BY <3>1, BusyHasTunnel DEF TypeInv
    <3> QED
      BY <2>1, <2>5, <3>1, <3>2 DEF StartsInv, Running
  <2>10. \A r, s \in Requests :
               thread'[r].op = "start" /\ thread'[s].op = "start"
            /\ thread'[r].tunnel = thread'[s].tunnel /\ thread'[r].tunnel \notin twiceStarted'
               => r = s
    BY <2>1, <2>4 DEF StartsInv
  <2>11. \A p \in OSPorts : holder'[p] # NoTunnel /\ holder'[p] \notin twiceStarted'
               => InHand(p)' \/ Registered(p)'
    BY <2>1, <2>7, <2>8 DEF StartsInv
  <2> QED
    BY <2>9, <2>10, <2>11 DEF StartsInv, Running
<1>9. ASSUME NEW q \in Requests, StartRegisters(q) PROVE StartsInv'
  <2> DEFINE t == thread[q].tunnel
             port == thread[q].row.port
             sock == thread[q].sock
  <2>1. /\ thread[q].op = "start" /\ thread[q].pc = "bound"
        /\ UNCHANGED <<holder, twiceStarted>>
    BY <1>9 DEF StartRegisters, At
  <2>2. t \in Tunnels
    BY <2>1, BusyHasTunnel DEF TypeInv
  <2>3. CASE BindConflict(t, port)
    <3>1. Goes(q, "yielding") /\ UNCHANGED running
      BY <1>9, <2>3 DEF StartRegisters
    <3>2. /\ thread'[q].op = "start" /\ thread'[q].pc = "yielding"
          /\ thread'[q].tunnel = t /\ thread'[q].sock = sock
          /\ \A r \in Requests \ {q} : thread'[r] = thread[r]
      BY <2>1, <3>1, GoesEffect
    <3> QED
      BY <2>1, <3>1, <3>2, StartsStable
  <2>4. CASE ~BindConflict(t, port)
    <3>1. /\ Drops(q, "started")
          /\ running' = [running EXCEPT ![t] = [status |-> "running", port |-> port, sock |-> sock]]
      BY <1>9, <2>4 DEF StartRegisters
    <3>2. /\ thread'[q].op = "start" /\ thread'[q].pc = "started" /\ thread'[q].tunnel = t
          /\ \A r \in Requests \ {q} : thread'[r] = thread[r]
      BY <2>1, <3>1, DropsEffect
    <3>3. /\ running'[t].status = "running" /\ running'[t].sock = sock
          /\ \A u \in Tunnels \ {t} : running'[u] = running[u]
      BY <2>2, <3>1 DEF TypeInv, TypeOK, Running
    <3>4. t \notin twiceStarted => ~Running(t)
      BY <2>1 DEF StartsInv
    <3>5. holder[sock] = t
      BY <2>1 DEF HandInv
    <3>6. \A p \in OSPorts : InHand(p) => InHand(p)' \/ (p = sock)
      BY <2>1, <3>2 DEF InHand
    <3>7. \A p \in OSPorts : p = sock => Registered(p)'
      BY <2>1, <3>3, <3>5 DEF Registered, Running
    <3>8. \A p \in OSPorts : holder[p] # NoTunnel /\ holder[p] \notin twiceStarted /\ Registered(p)
                  => Registered(p)'
      BY <2>1, <3>3, <3>4 DEF Registered, Running, TypeInv, TypeOK
    <3>9. \A p \in OSPorts : holder'[p] # NoTunnel /\ holder'[p] \notin twiceStarted'
               => InHand(p)' \/ Registered(p)'
      BY <2>1, <3>6, <3>7, <3>8 DEF StartsInv
    <3>10. \A r, s \in Requests :
                 thread'[r].op = "start" /\ thread'[s].op = "start"
              /\ thread'[r].tunnel = thread'[s].tunnel /\ thread'[r].tunnel \notin twiceStarted'
                 => r = s
      BY <2>1, <3>2 DEF StartsInv
    <3>11. \A r \in Requests :
                 thread'[r].op = "start" /\ thread'[r].pc \in UnregisteredPC
              /\ thread'[r].tunnel \notin twiceStarted'
                 => running'[thread'[r].tunnel].status # "running"
      <4> SUFFICES ASSUME NEW r \in Requests, thread'[r].op = "start",
                          thread'[r].pc \in UnregisteredPC,
                          thread'[r].tunnel \notin twiceStarted'
                   PROVE  running'[thread'[r].tunnel].status # "running"
        OBVIOUS
      <4>1. r # q /\ thread'[r] = thread[r]
        BY <3>2
      <4>2. thread[r].tunnel \in Tunnels /\ thread[r].tunnel # t
        BY <2>1, <4>1, BusyHasTunnel DEF StartsInv, TypeInv
      <4> QED
        BY <2>1, <3>3, <4>1, <4>2 DEF StartsInv, Running
    <3> QED
      BY <3>9, <3>10, <3>11 DEF StartsInv, Running
  <2> QED
    BY <2>3, <2>4
<1>10. ASSUME NEW q \in Requests, NEW pc \in {"yielded", "draining"},
              thread[q].pc \in {"yielding", "closing"},
              thread[q].pc = "closing" => thread[q].op # "start",
              holder' = [holder EXCEPT ![thread[q].sock] = NoTunnel], Drops(q, pc),
              UNCHANGED <<running, twiceStarted>>
       PROVE  StartsInv'
  <2>1. /\ thread'[q].op = thread[q].op /\ thread'[q].tunnel = thread[q].tunnel
        /\ thread'[q].pc = pc /\ \A r \in Requests \ {q} : thread'[r] = thread[r]
    BY <1>10, DropsEffect
  <2>2. thread[q].sock \in OSPorts
    BY <1>10 DEF TypeInv, TypeOK, Thread, Idle
  <2>3. /\ holder'[thread[q].sock] = NoTunnel
        /\ \A p \in OSPorts : p # thread[q].sock => holder'[p] = holder[p]
    BY <1>10, <2>2 DEF TypeInv, TypeOK
  <2>4. \A p \in OSPorts : p # thread[q].sock /\ InHand(p) => InHand(p)'
    BY <2>1 DEF InHand
  <2>5. \A p \in OSPorts : p # thread[q].sock /\ Registered(p) => Registered(p)'
    BY <1>10, <2>3 DEF Registered, Running
  <2>6. \A p \in OSPorts : holder'[p] # NoTunnel /\ holder'[p] \notin twiceStarted'
               => InHand(p)' \/ Registered(p)'
    BY <1>10, <2>3, <2>4, <2>5 DEF StartsInv
  <2>7. \A r, s \in Requests :
               thread'[r].op = "start" /\ thread'[s].op = "start"
            /\ thread'[r].tunnel = thread'[s].tunnel /\ thread'[r].tunnel \notin twiceStarted'
               => r = s
    BY <1>10, <2>1 DEF StartsInv
  <2>8. \A r \in Requests :
               thread'[r].op = "start" /\ thread'[r].pc \in UnregisteredPC
            /\ thread'[r].tunnel \notin twiceStarted'
               => running'[thread'[r].tunnel].status # "running"
    BY <1>10, <2>1 DEF StartsInv, Running
  <2> QED
    BY <2>6, <2>7, <2>8 DEF StartsInv, Running
<1>11. ASSUME NEW q \in Requests, StartYields(q) PROVE StartsInv'
  <2>1. /\ thread[q].pc = "yielding" /\ Drops(q, "yielded")
        /\ holder' = [holder EXCEPT ![thread[q].sock] = NoTunnel]
        /\ UNCHANGED <<running, twiceStarted>>
    BY <1>11 DEF StartYields, At
  <2> QED
    BY <1>10, <2>1
<1>12. ASSUME NEW q \in Requests, StopCloses(q) PROVE StartsInv'
  BY <1>10, <1>12 DEF StopCloses, Stopping
<1>13. ASSUME NEW q \in Requests, StartEnriches(q) PROVE StartsInv'
  <2>1. thread[q] \in Thread \ {Idle}
    BY <1>13, BusyHasTunnel DEF StartEnriches, TypeInv, TypeOK
  <2>2. /\ thread'[q].op = "start" /\ thread'[q].tunnel = thread[q].tunnel
        /\ thread'[q].pc \in {"tellingError", "tellingBusy", "telling"}
        /\ \A r \in Requests \ {q} : thread'[r] = thread[r]
    BY <1>13, <2>1 DEF StartEnriches, TypeInv, TypeOK, Thread
  <2> QED
    BY <1>13, <2>2, StartsStable DEF StartEnriches
<1>14. ASSUME NEW q \in Requests, Answers(q) PROVE StartsInv'
  BY <1>14, EndsEffect, StartsStable DEF Answers, Idle
<1>15. ASSUME NEW q \in Requests, StopReturns(q) PROVE StartsInv'
  <2>1. /\ thread'[q].op = thread[q].op
        /\ \A r \in Requests \ {q} : thread'[r] = thread[r]
    BY <1>15, GoesEffect DEF StopReturns
  <2> QED
    BY <1>15, <2>1, StartsStable DEF StopReturns, Stopping
<1>16. ASSUME NEW q \in Requests, StopEnriches(q) PROVE StartsInv'
  <2>1. thread[q] \in Thread \ {Idle}
    BY <1>16, BusyHasTunnel DEF StopEnriches, At, TypeInv, TypeOK
  <2>2. thread'[q].op # "start" /\ \A r \in Requests \ {q} : thread'[r] = thread[r]
    BY <1>16, <2>1, EndsEffect DEF StopEnriches, At, Idle, TypeInv, TypeOK, Thread
  <2> QED
    BY <1>16, <2>2, StartsStable DEF StopEnriches, At
<1>17. ASSUME NEW q \in Requests, DeleteRow(q) PROVE StartsInv'
  BY <1>17, EndsEffect, StartsStable DEF DeleteRow, At, Idle
<1>18. ASSUME NEW q \in Requests, UpdateChecks(q) PROVE StartsInv'
  <2>1. thread'[q].op # "start" /\ \A r \in Requests \ {q} : thread'[r] = thread[r]
    BY <1>18, EndsEffect, GoesEffect DEF UpdateChecks, At, Idle
  <2> QED
    BY <1>18, <2>1, StartsStable DEF UpdateChecks, At
<1>19. ASSUME NEW q \in Requests, NEW port \in Ports \cup {0}, NEW kind \in Kinds,
              UpdateSaves(q, port, kind)
       PROVE  StartsInv'
  BY <1>19, EndsEffect, StartsStable DEF UpdateSaves, At, Idle
<1>20. CASE UNCHANGED vars
  BY <1>20 DEF StartsInv, InHand, Registered, Running, vars
<1> QED
  BY <1>1, <1>2, <1>3, <1>4, <1>5, <1>6, <1>7, <1>8, <1>9, <1>11, <1>12, <1>13,
     <1>14, <1>15, <1>16, <1>17, <1>18, <1>19, <1>20 DEF Next, StartStep, StopStep

\* Only two overlapping starts of one tunnel can leave a listener that nobody
\* will close.
THEOREM OrphansComeFromTwoStarts == Spec => []OrphanNeedsTwoStarts
<1>1. StartsInv => OrphanNeedsTwoStarts
  BY DEF StartsInv, OrphanNeedsTwoStarts, Orphaned, Registered
<1> QED
  BY <1>1, StartsInit, StartsNext, TypeInvariant, HandInvariant, PTL DEF Spec

--------------------------------------------------------------------------------
(* Tunnels on which no two requests ever overlapped                        *)

\* What the only request on such a tunnel knows: a start has the row as it is
\* and, like a stop, a delete and an update about to save, no entry that runs.
Alone(q) ==
    LET t == thread[q].tunnel
    IN  /\ thread[q].op = "start" /\ thread[q].pc \in {"checking", "connecting", "listening",
                                                       "bound", "yielding"}
               => thread[q].row = rows[t] /\ rows[t] # NoRow
        /\ thread[q].op = "start" /\ thread[q].pc \in UnregisteredPC => ~Running(t)
        /\ thread[q].op = "start" /\ thread[q].pc \in {"bound", "yielding"}
               => thread[q].row.kind \in {"socks5", "local"}
        /\ Stopping(q) => ~Running(t)
        /\ At(q, "update", "saving") => ~Running(t)

RowsKept(t) ==
    Running(t) => rows[t].port = running[t].port /\ rows[t].kind \in {"socks5", "local"}

SerialInv ==
    /\ \A q, r \in Requests :
          thread[q].tunnel = thread[r].tunnel /\ thread[q].tunnel \in Tunnels \ raced => q = r
    /\ \A q \in Requests : thread[q].tunnel \in Tunnels \ raced => Alone(q)
    /\ \A t \in Tunnels \ raced : RowsKept(t)

\* At first no tunnel is raced and none runs.
LEMMA SerialInit == Init => SerialInv
BY NoTunnelAssumption DEF Init, SerialInv, Idle, RowsKept, Running, NoEntry

\* A step of request q, on a tunnel of its own or on one that was raced, that
\* begins no request: what is to be shown of it concerns its own tunnel.
LEMMA SerialStep ==
    ASSUME TypeInv, SerialInv, NEW q \in Requests, thread[q].tunnel \in Tunnels,
           thread'[q].tunnel \in {thread[q].tunnel, NoTunnel},
           \A r \in Requests \ {q} : thread'[r] = thread[r],
           \A t \in Tunnels \ {thread[q].tunnel} :
               running'[t] = running[t] /\ rows'[t] = rows[t],
           raced' = raced,
           thread[q].tunnel \notin raced /\ Alone(q) /\ RowsKept(thread[q].tunnel) =>
               /\ thread'[q].tunnel \in Tunnels => Alone(q)'
               /\ running'[thread[q].tunnel].status = "running" =>
                     /\ rows'[thread[q].tunnel].port = running'[thread[q].tunnel].port
                     /\ rows'[thread[q].tunnel].kind \in {"socks5", "local"}
    PROVE  SerialInv'
<1>1. \A r, s \in Requests :
          thread'[r].tunnel = thread'[s].tunnel /\ thread'[r].tunnel \in Tunnels \ raced' => r = s
  BY NoTunnelAssumption DEF SerialInv
<1>2. \A r \in Requests : thread'[r].tunnel \in Tunnels \ raced' => Alone(r)'
  <2> SUFFICES ASSUME NEW r \in Requests, thread'[r].tunnel \in Tunnels \ raced'
               PROVE  Alone(r)'
    OBVIOUS
  <2>1. CASE r = q
    BY <2>1, NoTunnelAssumption DEF SerialInv
  <2>2. CASE r # q
    <3>1. thread'[r] = thread[r] /\ thread[r].tunnel # thread[q].tunnel /\ Alone(r)
      BY <2>2 DEF SerialInv
    <3> QED
      BY <3>1 DEF Alone, Running, Stopping, At
  <2> QED
    BY <2>1, <2>2
<1>3. \A t \in Tunnels \ raced' : RowsKept(t)'
  <2> SUFFICES ASSUME NEW t \in Tunnels \ raced' PROVE RowsKept(t)'
    OBVIOUS
  <2>1. CASE t = thread[q].tunnel
    <3>1. Alone(q) /\ RowsKept(thread[q].tunnel)
      BY <2>1 DEF SerialInv
    <3> QED
      BY <2>1, <3>1 DEF RowsKept, Running
  <2>2. CASE t # thread[q].tunnel
    BY <2>2 DEF SerialInv, RowsKept, Running
  <2> QED
    BY <2>1, <2>2
<1> QED
  BY <1>1, <1>2, <1>3 DEF SerialInv

\* A request begins: on a tunnel that stays unraced it is alone.
LEMMA SerialBegins ==
    ASSUME TypeInv, SerialInv, NEW q \in Requests, NEW op, NEW t \in Tunnels, NEW pc,
           NEW row, NEW sock, Begins(q, op, t, pc, row, sock), UNCHANGED rows,
           \A u \in Tunnels \ {t} : running'[u] = running[u],
           running'[t] = running[t] \/ running'[t].status # "running",
           Alone(q)'
    PROVE  SerialInv'
<1>1. /\ thread'[q].tunnel = t
      /\ \A r \in Requests \ {q} : thread'[r] = thread[r]
  BY BeginsEffect
<1>2. raced \subseteq raced' /\ (t \notin raced' => \A r \in Requests : thread[r].tunnel # t)
  BY BeginsGhosts
<1>3. \A r, s \in Requests :
          thread'[r].tunnel = thread'[s].tunnel /\ thread'[r].tunnel \in Tunnels \ raced' => r = s
  BY <1>1, <1>2 DEF SerialInv
<1>4. \A r \in Requests : thread'[r].tunnel \in Tunnels \ raced' => Alone(r)'
  <2> SUFFICES ASSUME NEW r \in Requests \ {q}, thread'[r].tunnel \in Tunnels \ raced'
               PROVE  Alone(r)'
    OBVIOUS
  <2>1. thread'[r] = thread[r] /\ thread[r].tunnel # t /\ Alone(r)
    BY <1>1, <1>2 DEF SerialInv
  <2> QED
    BY <2>1 DEF Alone, Running, Stopping, At
<1>5. \A u \in Tunnels \ raced' : RowsKept(u)'
  BY <1>2 DEF SerialInv, RowsKept, Running
<1> QED
  BY <1>3, <1>4, <1>5 DEF SerialInv

\* Steps of a request that change its own place only.
LEMMA SerialQuiet ==
    ASSUME TypeInv, SerialInv, NEW q \in Requests, thread[q].tunnel \in Tunnels,
           thread'[q].tunnel \in {thread[q].tunnel, NoTunnel},
           \A r \in Requests \ {q} : thread'[r] = thread[r],
           UNCHANGED <<rows, running, raced>>,
           thread[q].tunnel \notin raced /\ Alone(q) /\ thread'[q].tunnel \in Tunnels => Alone(q)'
    PROVE  SerialInv'
BY SerialStep DEF RowsKept, Running

\* Every step keeps row and entry together on tunnels that are not raced.
LEMMA SerialNext == TypeInv /\ SerialInv /\ [Next]_vars => SerialInv'
<1> SUFFICES ASSUME TypeInv, SerialInv, [Next]_vars PROVE SerialInv'
  OBVIOUS
<1> USE NoTunnelAssumption DEF UnregisteredPC
<1>1. ASSUME NEW t \in Tunnels, NEW row \in Row, CreateTunnel(t, row) PROVE SerialInv'
  <2>1. /\ \A q \in Requests : thread'[q] = thread[q] /\ thread[q].tunnel # t
        /\ running' = running /\ running[t] = NoEntry /\ raced' = raced \ {t}
        /\ \A u \in Tunnels \ {t} : rows'[u] = rows[u]
    BY <1>1 DEF CreateTunnel, TypeInv, TypeOK
  <2>2. \A q \in Requests : thread'[q].tunnel \in Tunnels \ raced' => Alone(q)'
    BY <2>1 DEF SerialInv, Alone, Running, Stopping, At
  <2>3. \A u \in Tunnels \ raced' : RowsKept(u)'
    BY <2>1 DEF SerialInv, RowsKept, Running, NoEntry
  <2> QED
    BY <2>1, <2>2, <2>3 DEF SerialInv
<1>2. ASSUME NEW q \in Requests, NEW t \in Tunnels, StartReads(q, t) PROVE SerialInv'
  <2>1. Begins(q, "start", t, "checking", rows[t], 0) /\ UNCHANGED <<rows, running>>
    BY <1>2 DEF StartReads
  <2>2. Alone(q)'
    BY <1>2, <2>1, BeginsEffect DEF StartReads, Alone, Stopping, At
  <2> QED
    BY <2>1, <2>2, SerialBegins
<1>3. ASSUME NEW q \in Requests, NEW t \in Tunnels, UpdateReads(q, t) PROVE SerialInv'
  <2>1. Begins(q, "update", t, "checking", rows[t], 0) /\ UNCHANGED <<rows, running>>
    BY <1>3 DEF UpdateReads
  <2>2. Alone(q)'
    BY <2>1, BeginsEffect DEF Alone, Stopping, At
  <2> QED
    BY <2>1, <2>2, SerialBegins
<1>4. ASSUME NEW q \in Requests, NEW t \in Tunnels, NEW op \in {"stop", "delete"},
             StopDeletes(q, op, t)
      PROVE  SerialInv'
  <2> DEFINE pc == IF Running(t) THEN "closing" ELSE "stopped"
  <2>1. /\ Begins(q, op, t, pc, NoRow, running[t].sock)
        /\ running' = [running EXCEPT ![t] = NoEntry] /\ UNCHANGED rows
    BY <1>4 DEF StopDeletes
  <2> HIDE DEF pc
  <2>2. /\ running'[t].status # "running"
        /\ \A u \in Tunnels \ {t} : running'[u] = running[u]
    BY <2>1 DEF TypeInv, TypeOK, NoEntry
  <2>3. thread'[q].op = op /\ thread'[q].tunnel = t
    BY <2>1, BeginsEffect
  <2>4. Alone(q)'
    BY <2>2, <2>3 DEF Alone, Stopping, At, Running
  <2> QED
    BY <2>1, <2>2, <2>4, SerialBegins
<1>5. ASSUME NEW q \in Requests, StartChecks(q) PROVE SerialInv'
  <2>1. /\ thread[q].op = "start" /\ thread[q].pc = "checking" /\ thread[q].tunnel \in Tunnels
        /\ UNCHANGED <<rows, running, raced>>
    BY <1>5, BusyHasTunnel DEF StartChecks, At, TypeInv
  <2>2. ASSUME NEW pc \in {"failing", "busy"}, Drops(q, pc) PROVE SerialInv'
    <3>1. /\ thread'[q].op = "start" /\ thread'[q].pc = pc
          /\ thread'[q].tunnel = thread[q].tunnel
          /\ \A r \in Requests \ {q} : thread'[r] = thread[r]
      BY <2>1, <2>2, DropsEffect
    <3>2. Alone(q)'
      BY <3>1 DEF Alone, Stopping, At
    <3> QED
      BY <2>1, <3>1, <3>2, SerialQuiet
  <2>3. ASSUME Goes(q, "connecting"), ~Running(thread[q].tunnel) PROVE SerialInv'
    <3>1. /\ thread'[q].op = "start" /\ thread'[q].pc = "connecting"
          /\ thread'[q].tunnel = thread[q].tunnel /\ thread'[q].row = thread[q].row
          /\ \A r \in Requests \ {q} : thread'[r] = thread[r]
      BY <2>1, <2>3, GoesEffect
    <3>2. Alone(q) => Alone(q)'
      BY <2>1, <2>3, <3>1 DEF Alone, Stopping, At, Running
    <3> QED
      BY <2>1, <3>1, <3>2, SerialQuiet
  <2> QED
    BY <1>5, <2>2, <2>3 DEF StartChecks
<1>6. ASSUME NEW q \in Requests, StartConnects(q) PROVE SerialInv'
  <2>1. /\ thread[q].op = "start" /\ thread[q].pc = "connecting" /\ thread[q].tunnel \in Tunnels
        /\ UNCHANGED <<rows, running, raced>>
    BY <1>6, BusyHasTunnel DEF StartConnects, At, TypeInv
  <2>2. /\ thread'[q].op = "start" /\ thread'[q].tunnel = thread[q].tunnel
        /\ \/ thread'[q].pc = "refused"
           \/ thread'[q].pc = "listening" /\ thread'[q].row = thread[q].row
        /\ \A r \in Requests \ {q} : thread'[r] = thread[r]
    BY <1>6, <2>1, DropsEffect, GoesEffect DEF StartConnects
  <2>3. Alone(q) => Alone(q)'
    BY <2>1, <2>2 DEF Alone, Stopping, At, Running
  <2> QED
    BY <2>1, <2>2, <2>3, SerialQuiet
<1>7. ASSUME NEW q \in Requests, StartListens(q) PROVE SerialInv'
  <2>1. /\ thread[q].op = "start" /\ thread[q].pc = "listening" /\ thread[q].tunnel \in Tunnels
        /\ thread[q].row \in Row \cup {NoRow} /\ UNCHANGED <<rows, running, raced>>
    BY <1>7, BusyHasTunnel DEF StartListens, At, TypeInv
  <2>2. ASSUME NEW pc \in {"failing", "refused"}, Drops(q, pc) PROVE SerialInv'
    <3>1. /\ thread'[q].op = "start" /\ thread'[q].pc = pc
          /\ thread'[q].tunnel = thread[q].tunnel
          /\ \A r \in Requests \ {q} : thread'[r] = thread[r]
      BY <2>1, <2>2, DropsEffect
    <3>2. Alone(q) => Alone(q)'
      BY <2>1, <3>1 DEF Alone, Stopping, At, Running
    <3> QED
      BY <2>1, <3>1, <3>2, SerialQuiet
  <2>3. ASSUME NEW p \in OSPorts, thread[q].row.kind # "remote",
               thread' = [thread EXCEPT ![q].pc = "bound", ![q].sock = p]
        PROVE  SerialInv'
    <3>1. /\ thread'[q].op = "start" /\ thread'[q].pc = "bound"
          /\ thread'[q].tunnel = thread[q].tunnel /\ thread'[q].row = thread[q].row
          /\ \A r \in Requests \ {q} : thread'[r] = thread[r]
      BY <2>1, <2>3, BindsEffect
    <3>2. thread[q].row # NoRow => thread[q].row.kind \in {"socks5", "local"}
      BY <2>1, <2>3, KindAssumption DEF Row
    <3>3. Alone(q) => Alone(q)'
      BY <2>1, <3>1, <3>2 DEF Alone, Stopping, At, Running
    <3> QED
      BY <2>1, <3>1, <3>3, SerialQuiet
  <2> QED
    BY <1>7, <2>2, <2>3 DEF StartListens, Listens
<1>8. ASSUME NEW q \in Requests, StartSetsError(q) PROVE SerialInv'
  <2>1. /\ thread[q].op = "start" /\ thread[q].tunnel \in Tunnels
        /\ running' = [running EXCEPT ![thread[q].tunnel] = ErrorEntry]
        /\ UNCHANGED <<rows, raced>>
    BY <1>8, BusyHasTunnel DEF StartSetsError, At, TypeInv
  <2>2. PICK pc \in {"busy", "failing"} : Drops(q, pc)
    BY <1>8 DEF StartSetsError
  <2>3. /\ thread'[q].op = "start" /\ thread'[q].pc = pc
        /\ thread'[q].tunnel = thread[q].tunnel
        /\ \A r \in Requests \ {q} : thread'[r] = thread[r]
    BY <2>1, <2>2, DropsEffect
  <2>4. /\ running'[thread[q].tunnel].status # "running"
        /\ \A u \in Tunnels \ {thread[q].tunnel} : running'[u] = running[u]
    BY <2>1 DEF TypeInv, TypeOK, ErrorEntry
  <2>5. Alone(q)'
    BY <2>3 DEF Alone, Stopping, At
  <2> QED
    BY <2>1, <2>3, <2>4, <2>5, SerialStep
<1>9. ASSUME NEW q \in Requests, StartRegisters(q) PROVE SerialInv'
  <2>1. /\ thread[q].op = "start" /\ thread[q].pc = "bound" /\ thread[q].tunnel \in Tunnels
        /\ UNCHANGED <<rows, raced>>
    BY <1>9, BusyHasTunnel DEF StartRegisters, At, TypeInv
  <2>2. CASE BindConflict(thread[q].tunnel, thread[q].row.port)
    <3>1. Goes(q, "yielding") /\ UNCHANGED running
      BY <1>9, <2>2 DEF StartRegisters
    <3>2. /\ thread'[q].op = "start" /\ thread'[q].pc = "yielding"
          /\ thread'[q].tunnel = thread[q].tunnel /\ thread'[q].row = thread[q].row
          /\ \A r \in Requests \ {q} : thread'[r] = thread[r]
      BY <2>1, <3>1, GoesEffect
    <3>3. Alone(q) => Alone(q)'
      BY <2>1, <3>1, <3>2 DEF Alone, Stopping, At, Running
    <3> QED
      BY <2>1, <3>1, <3>2, <3>3, SerialQuiet
  <2>3. CASE ~BindConflict(thread[q].tunnel, thread[q].row.port)
    <3>1. /\ Drops(q, "started")
          /\ running' = [running EXCEPT ![thread[q].tunnel] =
                 [status |-> "running", port |-> thread[q].row.port, sock |-> thread[q].sock]]
      BY <1>9, <2>3 DEF StartRegisters
    <3>2. /\ thread'[q].op = "start" /\ thread'[q].pc = "started"
          /\ thread'[q].tunnel = thread[q].tunnel
          /\ \A r \in Requests \ {q} : thread'[r] = thread[r]
      BY <2>1, <3>1, DropsEffect
    <3>3. /\ running'[thread[q].tunnel].port = thread[q].row.port
          /\ \A u \in Tunnels \ {thread[q].tunnel} : running'[u] = running[u]
      BY <2>1, <3>1 DEF TypeInv, TypeOK
    <3>4. Alone(q)'
      BY <3>2 DEF Alone, Stopping, At
    <3>5. Alone(q) => /\ rows[thread[q].tunnel].port = thread[q].row.port
                      /\ rows[thread[q].tunnel].kind \in {"socks5", "local"}
      BY <2>1 DEF Alone
    <3> QED
      BY <2>1, <3>2, <3>3, <3>4, <3>5, SerialStep
  <2> QED
    BY <2>2, <2>3
<1>10. ASSUME NEW q \in Requests, StartYields(q) PROVE SerialInv'
  <2>1. /\ thread[q].op = "start" /\ thread[q].pc = "yielding" /\ thread[q].tunnel \in Tunnels
        /\ Drops(q, "yielded") /\ UNCHANGED <<rows, running, raced>>
    BY <1>10, BusyHasTunnel DEF StartYields, At, TypeInv
  <2>2. /\ thread'[q].op = "start" /\ thread'[q].pc = "yielded"
        /\ thread'[q].tunnel = thread[q].tunnel
        /\ \A r \in Requests \ {q} : thread'[r] = thread[r]
    BY <2>1, DropsEffect
  <2>3. Alone(q) => Alone(q)'
    BY <2>1, <2>2 DEF Alone, Stopping, At, Running
  <2> QED
    BY <2>1, <2>2, <2>3, SerialQuiet
<1>11. ASSUME NEW q \in Requests, StartEnriches(q) PROVE SerialInv'
  <2>1. thread[q] \in Thread \ {Idle} /\ thread[q].tunnel \in Tunnels
    BY <1>11, BusyHasTunnel DEF StartEnriches, TypeInv, TypeOK
  <2>2. /\ thread'[q].op = "start" /\ thread'[q].tunnel = thread[q].tunnel
        /\ thread'[q].pc \in {"tellingError", "tellingBusy", "telling"}
        /\ \A r \in Requests \ {q} : thread'[r] = thread[r]
    BY <1>11, <2>1 DEF StartEnriches, TypeInv, TypeOK, Thread
  <2>3. Alone(q)'
    BY <2>2 DEF Alone, Stopping, At
  <2> QED
    BY <1>11, <2>1, <2>2, <2>3, SerialQuiet DEF StartEnriches
<1>12. ASSUME NEW q \in Requests, Ends(q), thread[q].tunnel \in Tunnels,
              UNCHANGED <<rows, running, raced>>
       PROVE  SerialInv'
  <2>1. thread'[q].tunnel = NoTunnel /\ \A r \in Requests \ {q} : thread'[r] = thread[r]
    BY <1>12, EndsEffect DEF Idle
  <2> QED
    BY <1>12, <2>1, SerialQuiet
<1>13. ASSUME NEW q \in Requests, Answers(q) PROVE SerialInv'
  BY <1>12, <1>13, BusyHasTunnel DEF Answers, TypeInv
<1>14. ASSUME NEW q \in Requests, StopCloses(q) PROVE SerialInv'
  <2>1. /\ Stopping(q) /\ thread[q].tunnel \in Tunnels
        /\ Drops(q, "draining") /\ UNCHANGED <<rows, running, raced>>
    BY <1>14, BusyHasTunnel DEF StopCloses, TypeInv
  <2>2. /\ thread'[q].op = thread[q].op /\ thread'[q].tunnel = thread[q].tunnel
        /\ \A r \in Requests \ {q} : thread'[r] = thread[r]
    BY <2>1, DropsEffect
  <2>3. Alone(q) => Alone(q)'
    BY <2>1, <2>2 DEF Alone, Stopping, At, Running
  <2> QED
    BY <2>1, <2>2, <2>3, SerialQuiet
<1>15. ASSUME NEW q \in Requests, StopReturns(q) PROVE SerialInv'
  <2>1. /\ Stopping(q) /\ thread[q].tunnel \in Tunnels
        /\ Goes(q, "stopped") /\ UNCHANGED <<rows, running, raced>>
    BY <1>15, BusyHasTunnel DEF StopReturns, TypeInv
  <2>2. /\ thread'[q].op = thread[q].op /\ thread'[q].tunnel = thread[q].tunnel
        /\ \A r \in Requests \ {q} : thread'[r] = thread[r]
    BY <2>1, GoesEffect
  <2>3. Alone(q) => Alone(q)'
    BY <2>1, <2>2 DEF Alone, Stopping, At, Running
  <2> QED
    BY <2>1, <2>2, <2>3, SerialQuiet
<1>16. ASSUME NEW q \in Requests, StopEnriches(q) PROVE SerialInv'
  <2>1. /\ thread[q] \in Thread \ {Idle} /\ thread[q].tunnel \in Tunnels
        /\ thread[q].op = "stop" /\ UNCHANGED <<rows, running, raced>>
    BY <1>16, BusyHasTunnel DEF StopEnriches, At, TypeInv, TypeOK
  <2>2. CASE rows[thread[q].tunnel] = NoRow
    BY <1>12, <1>16, <2>1, <2>2 DEF StopEnriches
  <2>3. CASE rows[thread[q].tunnel] # NoRow
    <3>1. /\ thread'[q].op = "stop" /\ thread'[q].tunnel = thread[q].tunnel
          /\ \A r \in Requests \ {q} : thread'[r] = thread[r]
      BY <1>16, <2>1, <2>3 DEF StopEnriches, TypeInv, TypeOK, Thread
    <3>2. Alone(q) => Alone(q)'
      BY <2>1, <3>1 DEF Alone, Stopping, At, Running
    <3> QED
      BY <2>1, <3>1, <3>2, SerialQuiet
  <2> QED
    BY <2>2, <2>3
<1>17. ASSUME NEW q \in Requests, DeleteRow(q) PROVE SerialInv'
  <2>1. /\ thread[q].tunnel \in Tunnels /\ Stopping(q) /\ Ends(q)
        /\ UNCHANGED <<running, raced>>
    BY <1>17, BusyHasTunnel DEF DeleteRow, At, Stopping, TypeInv
  <2>2. thread'[q].tunnel = NoTunnel /\ \A r \in Requests \ {q} : thread'[r] = thread[r]
    BY <2>1, EndsEffect DEF Idle
  <2>3. \A u \in Tunnels \ {thread[q].tunnel} : rows'[u] = rows[u]
    BY <1>17 DEF DeleteRow, TypeInv, TypeOK
  <2>4. Alone(q) => running'[thread[q].tunnel].status # "running"
    BY <2>1 DEF Alone, Running
  <2> QED
    BY <2>1, <2>2, <2>3, <2>4, SerialStep
<1>18. ASSUME NEW q \in Requests, UpdateChecks(q) PROVE SerialInv'
  <2>1. /\ thread[q].op = "update" /\ thread[q].tunnel \in Tunnels
        /\ UNCHANGED <<rows, running, raced>>
    BY <1>18, BusyHasTunnel DEF UpdateChecks, At, TypeInv
  <2>2. CASE Running(thread[q].tunnel)
    BY <1>12, <1>18, <2>1, <2>2 DEF UpdateChecks
  <2>3. CASE ~Running(thread[q].tunnel)
    <3>1. Goes(q, "saving")
      BY <1>18, <2>3 DEF UpdateChecks
    <3>2. /\ thread'[q].op = "update" /\ thread'[q].tunnel = thread[q].tunnel
          /\ \A r \in Requests \ {q} : thread'[r] = thread[r]
      BY <2>1, <3>1, GoesEffect
    <3>3. Alone(q)'
      BY <2>1, <2>3, <3>2 DEF Alone, Stopping, At, Running
    <3> QED
      BY <2>1, <3>2, <3>3, SerialQuiet
  <2> QED
    BY <2>2, <2>3
<1>19. ASSUME NEW q \in Requests, NEW port \in Ports \cup {0}, NEW kind \in Kinds,
              UpdateSaves(q, port, kind)
       PROVE  SerialInv'
  <2>1. /\ thread[q].tunnel \in Tunnels /\ At(q, "update", "saving") /\ Ends(q)
        /\ UNCHANGED <<running, raced>>
    BY <1>19, BusyHasTunnel DEF UpdateSaves, At, TypeInv
  <2>2. thread'[q].tunnel = NoTunnel /\ \A r \in Requests \ {q} : thread'[r] = thread[r]
    BY <2>1, EndsEffect DEF Idle
  <2>3. \A u \in Tunnels \ {thread[q].tunnel} : rows'[u] = rows[u]
    BY <1>19 DEF UpdateSaves, TypeInv, TypeOK
  <2>4. Alone(q) => running'[thread[q].tunnel].status # "running"
    BY <2>1 DEF Alone, Running
  <2> QED
    BY <2>1, <2>2, <2>3, <2>4, SerialStep
<1>20. CASE UNCHANGED vars
  BY <1>20 DEF SerialInv, Alone, RowsKept, Running, Stopping, At, vars
<1> QED
  BY <1>1, <1>2, <1>3, <1>4, <1>5, <1>6, <1>7, <1>8, <1>9, <1>10, <1>11, <1>13, <1>14,
     <1>15, <1>16, <1>17, <1>18, <1>19, <1>20 DEF Next, StartStep, StopStep

\* While the requests on a tunnel come one at a time, it runs with the row it
\* was started from.
THEOREM SerialRowsKept == Spec => []SerialRequestsKeepRows
<1>1. SerialInv => SerialRequestsKeepRows
  BY DEF SerialInv, SerialRequestsKeepRows, RowsKept
<1> QED
  BY <1>1, SerialInit, SerialNext, TypeInvariant, PTL DEF Spec

================================================================================
