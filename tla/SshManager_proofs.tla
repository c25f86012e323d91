--------------------------- MODULE SshManager_proofs ---------------------------
(***************************************************************************)
(* Proofs about SshManager for any connections, probes and requests: its   *)
(* types (with them: at most one connection_down event of either kind per  *)
(* connection), that an announced loss leaves no SFTP client behind, and   *)
(* that the manager implements ConnectionLifecycle.                        *)
(***************************************************************************)
EXTENDS SshManager, TLAPS

\* The stages of a loss after the event, and of a disconnect after the map.
Told == {"told", "forgotten", "over"}
Owning == {"deleted", "closing", "telling"}

\* Nobody touches a connection before handleConnect has registered it.
NewIsUntouched ==
    \A c \in Conns : connect[c] \in {"none", "dialled"} =>
        /\ c \notin connections
        /\ userDowns[c] = 0
        /\ state[c] = IF connect[c] = "none" THEN "new" ELSE "connected"
        /\ \A r \in Reporters : reporter[c][r] = "idle"

\* At most one goroutine reports the loss of a connection, and only of one that
\* no lookup finds.
OneWinner ==
    \A c \in Conns, r \in Reporters : reporter[c][r] \in Winning =>
        /\ state[c] = "disconnected"
        /\ \A s \in Reporters : reporter[c][s] \in Winning => s = r

LossCounted ==
    \A c \in Conns : lossDowns[c] = 1 <=> \E r \in Reporters : reporter[c][r] \in Told

\* A loss is reported only after the transport's end.
LossHasCause ==
    \A c \in Conns, r \in Reporters : reporter[c][r] \in Winning \cup {"reporting"} =>
        transport[c] \in {"dead", "closed"}

CleanedStaysClean ==
    \A c \in Conns, r \in Reporters : reporter[c][r] \in Winning \ {"marked"} =>
        c \notin sftpClients

\* A disconnect has found a registered connection, and the one that deletes its
\* entry owns it from then on.
LeaverOwns ==
    /\ \A d \in Disconnects : disconnect[d] # "idle" =>
          leaving[d] \in Conns /\ connect[leaving[d]] \in {"registered", "up"}
    /\ \A d \in Disconnects : disconnect[d] \in Owning =>
          /\ leaving[d] \notin connections
          /\ userDowns[leaving[d]] = 0
          /\ \A e \in Disconnects :
                disconnect[e] \in Owning /\ leaving[e] = leaving[d] => e = d

UserCounted == \A c \in connections : userDowns[c] = 0

RequestHasConn == \A q \in Requests : request[q] # "idle" => wanted[q] \in Conns

Inv ==
    /\ TypeOK
    /\ NewIsUntouched
    /\ OneWinner
    /\ LossCounted
    /\ LossHasCause
    /\ CleanedStaysClean
    /\ LeaverOwns
    /\ UserCounted
    /\ RequestHasConn

USE DEF Winning, Told, Owning

\* Before the first connection nothing is open.
LEMMA InvInit == Init => Inv
<1> SUFFICES ASSUME Init PROVE Inv
  OBVIOUS
<1> USE DEF Init
<1>1. TypeOK
  <2>1. reporter \in [Conns -> [Reporters -> ReporterState]]
    BY DEF ReporterState
  <2>2. lossDowns \in [Conns -> 0..1] /\ userDowns \in [Conns -> 0..1]
    OBVIOUS
  <2> QED
    BY <2>1, <2>2 DEF TypeOK
<1>2. NewIsUntouched /\ OneWinner /\ LossHasCause /\ CleanedStaysClean
  BY DEF NewIsUntouched, OneWinner, LossHasCause, CleanedStaysClean
<1>3. LossCounted
  BY DEF LossCounted
<1>4. LeaverOwns /\ UserCounted /\ RequestHasConn
  BY DEF LeaverOwns, UserCounted, RequestHasConn
<1> QED
  BY <1>1, <1>2, <1>3, <1>4 DEF Inv

\* A dial puts nothing into the map yet.
LEMMA DialPreserves ==
    ASSUME Inv, NEW c \in Conns, NEW a \in Accounts, Dial(c, a) PROVE Inv'
<1> USE DEF Inv, Dial, disconnectVars, sftpVars, eventVars
<1>1. TypeOK'
  BY DEF TypeOK
<1>2. NewIsUntouched' /\ OneWinner' /\ LossHasCause'
  BY DEF TypeOK, NewIsUntouched, OneWinner, LossHasCause
<1>3. LossCounted' /\ CleanedStaysClean' /\ LeaverOwns' /\ UserCounted' /\ RequestHasConn'
  BY DEF TypeOK, LossCounted, CleanedStaysClean, LeaverOwns, UserCounted, RequestHasConn
<1> QED
  BY <1>1, <1>2, <1>3

\* A new connection enters the map: nobody was at work on it before.
LEMMA RegisterPreserves ==
    ASSUME Inv, NEW c \in Conns, Register(c) PROVE Inv'
<1> USE DEF Inv, Register, Reporters, managerVars, connectVars, disconnectVars, sftpVars, eventVars
<1>1. TypeOK'
  BY DEF TypeOK, ReporterState
<1>2. NewIsUntouched' /\ OneWinner' /\ LossHasCause'
  BY DEF TypeOK, NewIsUntouched, OneWinner, LossHasCause
<1>3. LossCounted' /\ CleanedStaysClean'
  BY DEF TypeOK, NewIsUntouched, OneWinner, LossCounted, LossHasCause, CleanedStaysClean
<1>4. LeaverOwns' /\ UserCounted' /\ RequestHasConn'
  BY DEF TypeOK, NewIsUntouched, LeaverOwns, UserCounted, RequestHasConn
<1> QED
  BY <1>1, <1>2, <1>3, <1>4

\* The monitor waits or panics.
LEMMA MonitorPreserves ==
    ASSUME Inv, NEW c \in Conns, MonitorWaits(c) PROVE Inv'
<1> USE DEF Inv, MonitorWaits, Moves, Reporters, managerVars, connectVars, disconnectVars, sftpVars, eventVars
<1>1. TypeOK'
  BY DEF TypeOK, ReporterState
<1>2. NewIsUntouched' /\ OneWinner' /\ LossHasCause'
  BY DEF TypeOK, NewIsUntouched, OneWinner, LossHasCause
<1>3. LossCounted' /\ CleanedStaysClean'
  BY DEF TypeOK, NewIsUntouched, OneWinner, LossCounted, LossHasCause, CleanedStaysClean
<1>4. LeaverOwns' /\ UserCounted' /\ RequestHasConn'
  BY DEF TypeOK, NewIsUntouched, LeaverOwns, UserCounted, RequestHasConn
<1> QED
  BY <1>1, <1>2, <1>3, <1>4

\* A probe of a live connection starts, asks and is answered.
LEMMA ProbePreserves ==
    ASSUME Inv, NEW c \in Conns, NEW p \in Probes,
           ProbePicks(c, p) \/ ProbeSends(c, p) \/ ProbeAnswered(c, p)
    PROVE  Inv'
<1> USE DEF Inv
<1>1. p \in Reporters
  BY DEF Reporters
<1>2. UNCHANGED <<managerVars, transport, connect, disconnectVars, sftpVars, eventVars,
                  crashed>>
  BY DEF ProbePicks, ProbeSends, ProbeAnswered
<1>3. PICK to \in {"idle", "started", "waiting"} :
         reporter' = [reporter EXCEPT ![c][p] = to]
  BY DEF ProbePicks, ProbeSends, ProbeAnswered, Moves
<1>4. reporter[c][p] \in {"idle", "started", "waiting"}
  BY DEF ProbePicks, ProbeSends, ProbeAnswered, Moves
<1>5. connect[c] \notin {"none", "dialled"}
  BY <1>1 DEF ProbePicks, ProbeSends, ProbeAnswered, Moves, Live, NewIsUntouched
<1> USE <1>1, <1>2, <1>3, <1>4, <1>5 DEF managerVars, disconnectVars, sftpVars, eventVars
<1>6. TypeOK'
  BY DEF TypeOK, ReporterState
<1>7. NewIsUntouched' /\ OneWinner' /\ LossHasCause'
  BY DEF TypeOK, NewIsUntouched, OneWinner, LossHasCause
<1>8. LossCounted' /\ CleanedStaysClean'
  <2>1. \A k \in Conns, r \in Reporters :
           reporter'[k][r] = reporter[k][r] \/ (k = c /\ r = p)
    BY DEF TypeOK
  <2>2. reporter'[c][p] \in {"idle", "started", "waiting"}
    BY DEF TypeOK
  <2>3. LossCounted'
    BY <2>1, <2>2 DEF LossCounted
  <2>4. CleanedStaysClean'
    BY <2>1, <2>2 DEF CleanedStaysClean
  <2> QED
    BY <2>3, <2>4
<1>9. LeaverOwns' /\ UserCounted' /\ RequestHasConn'
  BY DEF TypeOK, LeaverOwns, UserCounted, RequestHasConn
<1> QED
  BY <1>6, <1>7, <1>8, <1>9

\* The end of the transport reaches a goroutine.
LEMMA TransportEndsPreserves ==
    ASSUME Inv, NEW c \in Conns, NEW r \in Reporters, TransportEnds(c, r) PROVE Inv'
<1> USE DEF Inv, TransportEnds, Moves, managerVars, connectVars, disconnectVars, sftpVars, eventVars
<1>1. TypeOK'
  BY DEF TypeOK, ReporterState
<1>2. NewIsUntouched' /\ OneWinner' /\ LossHasCause'
  BY DEF TypeOK, NewIsUntouched, OneWinner, LossHasCause
<1>3. LossCounted' /\ CleanedStaysClean'
  BY DEF TypeOK, NewIsUntouched, OneWinner, LossCounted, LossHasCause, CleanedStaysClean
<1>4. LeaverOwns' /\ UserCounted' /\ RequestHasConn'
  BY DEF TypeOK, NewIsUntouched, LeaverOwns, UserCounted, RequestHasConn
<1> QED
  BY <1>1, <1>2, <1>3, <1>4

\* Only the report that finds the connection live goes on.
LEMMA LostMarkPreserves ==
    ASSUME Inv, NEW c \in Conns, NEW r \in Reporters, LostMark(c, r) PROVE Inv'
<1> USE DEF Inv, LostMark, Moves, managerVars, connectVars, disconnectVars, sftpVars, eventVars
<1>1. TypeOK'
  BY DEF TypeOK, ReporterState
<1>2. NewIsUntouched' /\ OneWinner' /\ LossHasCause'
  BY DEF TypeOK, NewIsUntouched, OneWinner, LossHasCause
<1>3. LossCounted' /\ CleanedStaysClean'
  BY DEF TypeOK, NewIsUntouched, OneWinner, LossCounted, LossHasCause, CleanedStaysClean
<1>4. LeaverOwns' /\ UserCounted' /\ RequestHasConn'
  BY DEF TypeOK, NewIsUntouched, LeaverOwns, UserCounted, RequestHasConn
<1> QED
  BY <1>1, <1>2, <1>3, <1>4

\* The winner removes the SFTP client.
LEMMA LostCleanPreserves ==
    ASSUME Inv, NEW c \in Conns, NEW r \in Reporters, LostClean(c, r) PROVE Inv'
<1> USE DEF Inv, LostClean, Moves, managerVars, connectVars, disconnectVars, sftpVars, eventVars
<1>1. TypeOK'
  BY DEF TypeOK, ReporterState
<1>2. NewIsUntouched' /\ OneWinner' /\ LossHasCause'
  BY DEF TypeOK, NewIsUntouched, OneWinner, LossHasCause
<1>3. LossCounted' /\ CleanedStaysClean'
  <2>1. LossCounted'
    BY DEF TypeOK, LossCounted
  <2>2. CleanedStaysClean'
    BY DEF TypeOK, CleanedStaysClean
  <2> QED
    BY <2>1, <2>2
<1>4. LeaverOwns' /\ UserCounted' /\ RequestHasConn'
  BY DEF TypeOK, NewIsUntouched, LeaverOwns, UserCounted, RequestHasConn
<1> QED
  BY <1>1, <1>2, <1>3, <1>4

\* The winner sends the one event of the loss.
LEMMA LostTellPreserves ==
    ASSUME Inv, NEW c \in Conns, NEW r \in Reporters, LostTell(c, r) PROVE Inv'
<1> USE DEF Inv, LostTell, Moves, managerVars, connectVars, disconnectVars, sftpVars, eventVars
<1>0. lossDowns[c] = 0
  <2>1. reporter[c][r] = "cleaned"
    OBVIOUS
  <2>2. \A q \in Reporters : reporter[c][q] \notin Told
    BY <2>1 DEF OneWinner
  <2>3. lossDowns[c] # 1
    BY <2>2 DEF LossCounted
  <2> QED
    BY <2>3 DEF TypeOK
<1>1. TypeOK'
  BY <1>0 DEF TypeOK, ReporterState
<1>2. NewIsUntouched' /\ OneWinner' /\ LossHasCause'
  BY DEF TypeOK, NewIsUntouched, OneWinner, LossHasCause
<1>3. LossCounted' /\ CleanedStaysClean'
  BY DEF TypeOK, NewIsUntouched, OneWinner, LossCounted, LossHasCause, CleanedStaysClean
<1>4. LeaverOwns' /\ UserCounted' /\ RequestHasConn'
  BY DEF TypeOK, NewIsUntouched, LeaverOwns, UserCounted, RequestHasConn
<1> QED
  BY <1>1, <1>2, <1>3, <1>4

\* The winner deletes the entry.
LEMMA LostForgetPreserves ==
    ASSUME Inv, NEW c \in Conns, NEW r \in Reporters, LostForget(c, r) PROVE Inv'
<1> USE DEF Inv, LostForget, Moves, managerVars, connectVars, disconnectVars, sftpVars, eventVars
<1>1. TypeOK'
  BY DEF TypeOK, ReporterState
<1>2. NewIsUntouched' /\ OneWinner' /\ LossHasCause'
  BY DEF TypeOK, NewIsUntouched, OneWinner, LossHasCause
<1>3. LossCounted' /\ CleanedStaysClean'
  BY DEF TypeOK, NewIsUntouched, OneWinner, LossCounted, LossHasCause, CleanedStaysClean
<1>4. LeaverOwns' /\ UserCounted' /\ RequestHasConn'
  BY DEF TypeOK, NewIsUntouched, LeaverOwns, UserCounted, RequestHasConn
<1> QED
  BY <1>1, <1>2, <1>3, <1>4

\* The winner closes the client.
LEMMA LostClosePreserves ==
    ASSUME Inv, NEW c \in Conns, NEW r \in Reporters, LostClose(c, r) PROVE Inv'
<1> USE DEF Inv, LostClose, Moves, managerVars, connectVars, disconnectVars, sftpVars, eventVars
<1>1. TypeOK'
  BY DEF TypeOK, ReporterState
<1>2. NewIsUntouched' /\ OneWinner' /\ LossHasCause'
  BY DEF TypeOK, NewIsUntouched, OneWinner, LossHasCause
<1>3. LossCounted' /\ CleanedStaysClean'
  BY DEF TypeOK, NewIsUntouched, OneWinner, LossCounted, LossHasCause, CleanedStaysClean
<1>4. LeaverOwns' /\ UserCounted' /\ RequestHasConn'
  BY DEF TypeOK, NewIsUntouched, LeaverOwns, UserCounted, RequestHasConn
<1> QED
  BY <1>1, <1>2, <1>3, <1>4

\* A disconnect finds a connection.
LEMMA DisconnectFindsPreserves ==
    ASSUME Inv, NEW d \in Disconnects, NEW a \in Accounts, NEW c \in Conns, DisconnectFinds(d, a, c) PROVE Inv'
<1> USE DEF Inv, DisconnectFinds, Live, managerVars, connectVars, disconnectVars, sftpVars, eventVars
<1>1. TypeOK'
  BY DEF TypeOK, ReporterState
<1>2. NewIsUntouched' /\ OneWinner' /\ LossHasCause'
  BY DEF TypeOK, NewIsUntouched, OneWinner, LossHasCause
<1>3. LossCounted' /\ CleanedStaysClean'
  BY DEF TypeOK, NewIsUntouched, OneWinner, LossCounted, LossHasCause, CleanedStaysClean
<1>4. LeaverOwns' /\ UserCounted' /\ RequestHasConn'
  BY DEF TypeOK, NewIsUntouched, LeaverOwns, UserCounted, RequestHasConn
<1> QED
  BY <1>1, <1>2, <1>3, <1>4

\* ... removes its SFTP client.
LEMMA DisconnectCleansPreserves ==
    ASSUME Inv, NEW d \in Disconnects, DisconnectCleans(d) PROVE Inv'
<1> USE DEF Inv, DisconnectCleans, managerVars, connectVars, disconnectVars, sftpVars, eventVars
<1>1. TypeOK'
  BY DEF TypeOK, ReporterState
<1>2. NewIsUntouched' /\ OneWinner' /\ LossHasCause'
  BY DEF TypeOK, NewIsUntouched, OneWinner, LossHasCause
<1>3. LossCounted' /\ CleanedStaysClean'
  BY DEF TypeOK, NewIsUntouched, OneWinner, LossCounted, LossHasCause, CleanedStaysClean
<1>4. LeaverOwns' /\ UserCounted' /\ RequestHasConn'
  BY DEF TypeOK, NewIsUntouched, LeaverOwns, UserCounted, RequestHasConn
<1> QED
  BY <1>1, <1>2, <1>3, <1>4

\* ... deletes its entry and owns it from here on.
LEMMA DisconnectDeletesPreserves ==
    ASSUME Inv, NEW d \in Disconnects, DisconnectDeletes(d) PROVE Inv'
<1> USE DEF Inv, DisconnectDeletes, managerVars, connectVars, disconnectVars, sftpVars, eventVars
<1>0. leaving[d] \in Conns
  BY DEF LeaverOwns
<1> USE <1>0
<1>1. TypeOK'
  BY DEF TypeOK, ReporterState
<1>2. NewIsUntouched' /\ OneWinner' /\ LossHasCause'
  BY DEF TypeOK, NewIsUntouched, OneWinner, LossHasCause
<1>3. LossCounted' /\ CleanedStaysClean'
  BY DEF TypeOK, NewIsUntouched, OneWinner, LossCounted, LossHasCause, CleanedStaysClean
<1>4. LeaverOwns' /\ UserCounted' /\ RequestHasConn'
  <2>1. LeaverOwns'
    <3>a. CASE leaving[d] \in connections
      <4>1. userDowns[leaving[d]] = 0
        BY <3>a DEF UserCounted
      <4>2. \A e \in Disconnects : disconnect[e] \in Owning => leaving[e] # leaving[d]
        BY <3>a DEF LeaverOwns
      <4>3. /\ disconnect' = [disconnect EXCEPT ![d] = "deleted"]
            /\ connections' = connections \ {leaving[d]}
            /\ UNCHANGED <<leaving, connect, userDowns>>
        BY <3>a
      <4> QED
        BY <4>1, <4>2, <4>3 DEF TypeOK, LeaverOwns
    <3>b. CASE leaving[d] \notin connections
      <4>1. /\ disconnect' = [disconnect EXCEPT ![d] = "idle"]
            /\ leaving' = [leaving EXCEPT ![d] = NoConn]
            /\ UNCHANGED <<connections, connect, userDowns>>
        BY <3>b
      <4>2. \A e \in Disconnects : disconnect'[e] # "idle" =>
               e # d /\ disconnect'[e] = disconnect[e] /\ leaving'[e] = leaving[e]
        BY <4>1 DEF TypeOK
      <4> QED
        BY <4>1, <4>2 DEF LeaverOwns
    <3> QED
      BY <3>a, <3>b
  <2>2. UserCounted' /\ RequestHasConn'
    BY DEF UserCounted, RequestHasConn
  <2> QED
    BY <2>1, <2>2
<1> QED
  BY <1>1, <1>2, <1>3, <1>4

\* ... takes its client.
LEMMA DisconnectTakesPreserves ==
    ASSUME Inv, NEW d \in Disconnects, DisconnectTakes(d) PROVE Inv'
<1> USE DEF Inv, DisconnectTakes, managerVars, connectVars, disconnectVars, sftpVars, eventVars
<1>0. leaving[d] \in Conns
  BY DEF LeaverOwns
<1> USE <1>0
<1>1. TypeOK'
  BY DEF TypeOK, ReporterState
<1>2. NewIsUntouched' /\ OneWinner' /\ LossHasCause'
  <2>1. state' = [state EXCEPT ![leaving[d]] = "disconnected"]
        /\ connect[leaving[d]] \in {"registered", "up"}
    BY DEF LeaverOwns
  <2>2. NewIsUntouched'
    BY <2>1 DEF TypeOK, NewIsUntouched
  <2>3. OneWinner'
    BY <2>1 DEF TypeOK, OneWinner
  <2>4. LossHasCause'
    BY DEF LossHasCause
  <2> QED
    BY <2>2, <2>3, <2>4
<1>3. LossCounted' /\ CleanedStaysClean'
  BY DEF TypeOK, NewIsUntouched, OneWinner, LossCounted, LossHasCause, CleanedStaysClean
<1>4. LeaverOwns' /\ UserCounted' /\ RequestHasConn'
  BY DEF TypeOK, NewIsUntouched, LeaverOwns, UserCounted, RequestHasConn
<1> QED
  BY <1>1, <1>2, <1>3, <1>4

\* ... closes it.
LEMMA DisconnectClosesPreserves ==
    ASSUME Inv, NEW d \in Disconnects, DisconnectCloses(d) PROVE Inv'
<1> USE DEF Inv, DisconnectCloses, managerVars, connectVars, disconnectVars, sftpVars, eventVars
<1>1. TypeOK'
  BY DEF TypeOK, ReporterState
<1>2. NewIsUntouched' /\ OneWinner' /\ LossHasCause'
  BY DEF TypeOK, NewIsUntouched, OneWinner, LossHasCause
<1>3. LossCounted' /\ CleanedStaysClean'
  BY DEF TypeOK, NewIsUntouched, OneWinner, LossCounted, LossHasCause, CleanedStaysClean
<1>4. LeaverOwns' /\ UserCounted' /\ RequestHasConn'
  BY DEF TypeOK, NewIsUntouched, LeaverOwns, UserCounted, RequestHasConn
<1> QED
  BY <1>1, <1>2, <1>3, <1>4

\* ... and sends the one event of the disconnect.
LEMMA DisconnectTellsPreserves ==
    ASSUME Inv, NEW d \in Disconnects, DisconnectTells(d) PROVE Inv'
<1> USE DEF Inv, DisconnectTells, managerVars, connectVars, disconnectVars, sftpVars, eventVars
<1>0. leaving[d] \in Conns
  BY DEF LeaverOwns
<1> USE <1>0
<1>a. userDowns[leaving[d]] = 0 /\ connect[leaving[d]] \in {"registered", "up"}
  BY DEF LeaverOwns
<1> USE <1>a
<1>1. TypeOK'
  BY DEF TypeOK, ReporterState
<1>2. NewIsUntouched' /\ OneWinner' /\ LossHasCause'
  BY DEF TypeOK, NewIsUntouched, OneWinner, LossHasCause
<1>3. LossCounted' /\ CleanedStaysClean'
  BY DEF TypeOK, NewIsUntouched, OneWinner, LossCounted, LossHasCause, CleanedStaysClean
<1>4. LeaverOwns' /\ UserCounted' /\ RequestHasConn'
  BY DEF TypeOK, NewIsUntouched, LeaverOwns, UserCounted, RequestHasConn
<1> QED
  BY <1>1, <1>2, <1>3, <1>4

\* An SFTP request finds its connection.
LEMMA SftpLooksUpPreserves ==
    ASSUME Inv, NEW q \in Requests, NEW c \in Conns, SftpLooksUp(q, c) PROVE Inv'
<1> USE DEF Inv, SftpLooksUp, Live, managerVars, connectVars, disconnectVars, sftpVars, eventVars
<1>1. TypeOK'
  BY DEF TypeOK, ReporterState
<1>2. NewIsUntouched' /\ OneWinner' /\ LossHasCause'
  BY DEF TypeOK, NewIsUntouched, OneWinner, LossHasCause
<1>3. LossCounted' /\ CleanedStaysClean'
  BY DEF TypeOK, NewIsUntouched, OneWinner, LossCounted, LossHasCause, CleanedStaysClean
<1>4. LeaverOwns' /\ UserCounted' /\ RequestHasConn'
  BY DEF TypeOK, NewIsUntouched, LeaverOwns, UserCounted, RequestHasConn
<1> QED
  BY <1>1, <1>2, <1>3, <1>4

\* It takes the cached client or starts to open one.
LEMMA SftpGetsPreserves ==
    ASSUME Inv, NEW q \in Requests, SftpGets(q) PROVE Inv'
<1> USE DEF Inv, SftpGets, SftpEnds, managerVars, connectVars, disconnectVars, sftpVars, eventVars
<1>1. TypeOK'
  BY DEF TypeOK, ReporterState
<1>2. NewIsUntouched' /\ OneWinner' /\ LossHasCause'
  BY DEF TypeOK, NewIsUntouched, OneWinner, LossHasCause
<1>3. LossCounted' /\ CleanedStaysClean'
  BY DEF TypeOK, NewIsUntouched, OneWinner, LossCounted, LossHasCause, CleanedStaysClean
<1>4. LeaverOwns' /\ UserCounted' /\ RequestHasConn'
  BY DEF TypeOK, NewIsUntouched, LeaverOwns, UserCounted, RequestHasConn
<1> QED
  BY <1>1, <1>2, <1>3, <1>4

\* A client is cached only over a transport that still answers.
LEMMA SftpOpenedPreserves ==
    ASSUME Inv, NEW q \in Requests, SftpOpened(q) PROVE Inv'
<1> USE DEF Inv, SftpOpened, SftpEnds, managerVars, connectVars, disconnectVars, sftpVars, eventVars
<1>0. wanted[q] \in Conns
  BY DEF RequestHasConn
<1> USE <1>0
<1>1. TypeOK'
  BY DEF TypeOK, ReporterState
<1>2. NewIsUntouched' /\ OneWinner' /\ LossHasCause'
  BY DEF TypeOK, NewIsUntouched, OneWinner, LossHasCause
<1>3. LossCounted' /\ CleanedStaysClean'
  BY DEF TypeOK, NewIsUntouched, OneWinner, LossCounted, LossHasCause, CleanedStaysClean
<1>4. LeaverOwns' /\ UserCounted' /\ RequestHasConn'
  BY DEF TypeOK, NewIsUntouched, LeaverOwns, UserCounted, RequestHasConn
<1> QED
  BY <1>1, <1>2, <1>3, <1>4

\* Every step of the daemon keeps the invariant.
LEMMA InvNext == Inv /\ [Next]_vars => Inv'
<1> SUFFICES ASSUME Inv, [Next]_vars PROVE Inv'
  OBVIOUS
<1>1. ASSUME NEW c \in Conns, AnnounceUp(c) \/ TransportDies(c) PROVE Inv'
  <2> USE <1>1 DEF Inv, AnnounceUp, TransportDies, managerVars, connectVars,
                   disconnectVars, sftpVars, eventVars
  <2>1. TypeOK'
    BY DEF TypeOK
  <2>2. NewIsUntouched' /\ OneWinner'
    BY DEF TypeOK, NewIsUntouched, OneWinner
  <2>a. LossHasCause'
    BY DEF TypeOK, LossHasCause
  <2>3. LossCounted' /\ CleanedStaysClean' /\ LeaverOwns' /\ UserCounted' /\ RequestHasConn'
    BY DEF TypeOK, LossCounted, CleanedStaysClean, LeaverOwns, UserCounted, RequestHasConn
  <2> QED
    BY <2>1, <2>2, <2>3, <2>a
<1>2. ASSUME NEW c \in Conns, NEW r \in Reporters, LostStep(c, r) PROVE Inv'
  BY <1>2, LostMarkPreserves, LostCleanPreserves, LostTellPreserves,
     LostForgetPreserves, LostClosePreserves DEF LostStep
<1>3. ASSUME NEW d \in Disconnects, DisconnectStep(d) PROVE Inv'
  BY <1>3, DisconnectCleansPreserves, DisconnectDeletesPreserves,
     DisconnectTakesPreserves, DisconnectClosesPreserves, DisconnectTellsPreserves
     DEF DisconnectStep
<1>4. CASE UNCHANGED vars
  BY <1>4 DEF vars, managerVars, connectVars, disconnectVars, sftpVars, eventVars, Inv,
              TypeOK, NewIsUntouched, OneWinner, LossHasCause, LossCounted,
              CleanedStaysClean, LeaverOwns, UserCounted, RequestHasConn
<1> QED
  BY <1>1, <1>2, <1>3, <1>4, DialPreserves, RegisterPreserves, MonitorPreserves,
     ProbePreserves, TransportEndsPreserves, DisconnectFindsPreserves,
     SftpLooksUpPreserves, SftpGetsPreserves, SftpOpenedPreserves DEF Next

--------------------------------------------------------------------------------
(* Every connection that leaves the map has somebody who closes it. *)

\* A client is taken only to be closed.
TakenIsClosed ==
    \A c \in Conns : connect[c] # "none" /\ ~hasClient[c] =>
        \/ transport[c] = "closed"
        \/ \E d \in Disconnects : disconnect[d] = "closing" /\ leaving[d] = c

\* Whoever deletes the entry of a connection goes on to take its client ...
GoneHasCloser ==
    \A c \in Conns : connect[c] \in {"registered", "up"} /\ c \notin connections /\ hasClient[c] =>
        \/ \E r \in Reporters : reporter[c][r] = "forgotten"
        \/ \E d \in Disconnects : disconnect[d] = "deleted" /\ leaving[d] = c

\* ... and to set its state, if that is not done yet.
GoneIsMarked ==
    \A c \in Conns : connect[c] \in {"registered", "up"} /\ c \notin connections =>
        \/ state[c] = "disconnected"
        \/ \E d \in Disconnects : disconnect[d] = "deleted" /\ leaving[d] = c

Closers == TakenIsClosed /\ GoneHasCloser /\ GoneIsMarked

\* At first no connection has ended.
LEMMA ClosersInit == Init => Closers
BY DEF Init, Closers, TakenIsClosed, GoneHasCloser, GoneIsMarked

\* Every step keeps a goroutine about to close each connection that has
\* ended and is still open.
LEMMA ClosersNext == Inv /\ Closers /\ [Next]_vars => Closers'
<1> SUFFICES ASSUME Inv, Closers, [Next]_vars PROVE Closers'
  OBVIOUS
<1> USE DEF Inv, TypeOK, Closers, TakenIsClosed, GoneHasCloser, GoneIsMarked
<1>1. ASSUME NEW c \in Conns, NEW a \in Accounts, Dial(c, a) PROVE Closers'
  <2>1. TakenIsClosed'
    BY <1>1 DEF Dial, disconnectVars
  <2>2. GoneHasCloser'
    BY <1>1 DEF Dial, disconnectVars
  <2>3. GoneIsMarked'
    BY <1>1 DEF Dial, disconnectVars
  <2> QED
    BY <2>1, <2>2, <2>3
<1>2. ASSUME NEW c \in Conns, Register(c) \/ AnnounceUp(c) PROVE Closers'
  <2>1. TakenIsClosed'
    BY <1>2 DEF Register, AnnounceUp, disconnectVars, managerVars, Reporters
  <2>2. GoneHasCloser'
    BY <1>2 DEF Register, AnnounceUp, disconnectVars, managerVars, Reporters
  <2>3. GoneIsMarked'
    BY <1>2 DEF Register, AnnounceUp, disconnectVars, managerVars, Reporters
  <2> QED
    BY <2>1, <2>2, <2>3
<1>3. ASSUME NEW c \in Conns, TransportDies(c) PROVE Closers'
  BY <1>3 DEF TransportDies, disconnectVars, managerVars, connectVars
<1>4. ASSUME NEW c \in Conns, MonitorWaits(c) PROVE Closers'
  BY <1>4 DEF MonitorWaits, Moves, disconnectVars, managerVars
<1>5. ASSUME NEW c \in Conns, NEW p \in Probes,
             ProbePicks(c, p) \/ ProbeSends(c, p) \/ ProbeAnswered(c, p)
      PROVE  Closers'
  <2>1. TakenIsClosed'
    BY <1>5 DEF ProbePicks, ProbeSends, ProbeAnswered, Moves, disconnectVars, managerVars
  <2>a. \A k \in Conns, r \in Reporters :
           reporter[k][r] = "forgotten" => reporter'[k][r] = "forgotten"
    BY <1>5 DEF ProbePicks, ProbeSends, ProbeAnswered, Moves
  <2>b. UNCHANGED <<connections, connect, hasClient, disconnect, leaving>>
    BY <1>5 DEF ProbePicks, ProbeSends, ProbeAnswered, disconnectVars, managerVars
  <2>2. GoneHasCloser'
    <3> SUFFICES ASSUME NEW k \in Conns, connect'[k] \in {"registered", "up"},
                        k \notin connections', hasClient'[k]
                 PROVE  \/ \E r \in Reporters : reporter'[k][r] = "forgotten"
                        \/ \E d \in Disconnects :
                              disconnect'[d] = "deleted" /\ leaving'[d] = k
      BY DEF GoneHasCloser
    <3>1. CASE \E r \in Reporters : reporter[k][r] = "forgotten"
      BY <2>a, <3>1
    <3>2. CASE \E d \in Disconnects : disconnect[d] = "deleted" /\ leaving[d] = k
      BY <2>b, <3>2
    <3> QED
      BY <2>b, <3>1, <3>2 DEF GoneHasCloser
  <2>3. GoneIsMarked'
    BY <1>5 DEF ProbePicks, ProbeSends, ProbeAnswered, Moves, disconnectVars, managerVars
  <2> QED
    BY <2>1, <2>2, <2>3
<1>6. ASSUME NEW c \in Conns, NEW r \in Reporters,
             TransportEnds(c, r) \/ LostClean(c, r) \/ LostTell(c, r)
      PROVE  Closers'
  <2>1. TakenIsClosed'
    BY <1>6 DEF TransportEnds, LostClean, LostTell, Moves, disconnectVars, managerVars
  <2>2. GoneHasCloser'
    BY <1>6 DEF TransportEnds, LostClean, LostTell, Moves, disconnectVars, managerVars
  <2>3. GoneIsMarked'
    BY <1>6 DEF TransportEnds, LostClean, LostTell, Moves, disconnectVars, managerVars
  <2> QED
    BY <2>1, <2>2, <2>3
<1>7. ASSUME NEW c \in Conns, NEW r \in Reporters, LostMark(c, r) PROVE Closers'
  BY <1>7 DEF LostMark, Moves, disconnectVars
<1>8. ASSUME NEW c \in Conns, NEW r \in Reporters, LostForget(c, r) PROVE Closers'
  <2>1. TakenIsClosed'
    BY <1>8 DEF LostForget, Moves, disconnectVars, OneWinner
  <2>2. GoneHasCloser'
    BY <1>8 DEF LostForget, Moves, disconnectVars, OneWinner
  <2>3. GoneIsMarked'
    BY <1>8 DEF LostForget, Moves, disconnectVars, OneWinner
  <2> QED
    BY <2>1, <2>2, <2>3
<1>9. ASSUME NEW c \in Conns, NEW r \in Reporters, LostClose(c, r) PROVE Closers'
  <2>1. TakenIsClosed'
    BY <1>9 DEF LostClose, Moves, disconnectVars
  <2>2. GoneHasCloser'
    BY <1>9 DEF LostClose, Moves, disconnectVars
  <2>3. GoneIsMarked'
    BY <1>9 DEF LostClose, Moves, disconnectVars
  <2> QED
    BY <2>1, <2>2, <2>3
<1>10. ASSUME NEW d \in Disconnects, NEW a \in Accounts, NEW c \in Conns,
              DisconnectFinds(d, a, c)
       PROVE  Closers'
  BY <1>10 DEF DisconnectFinds, connectVars, managerVars
<1>11. ASSUME NEW d \in Disconnects, DisconnectCleans(d) PROVE Closers'
  BY <1>11 DEF DisconnectCleans, connectVars, managerVars
<1>12. ASSUME NEW d \in Disconnects, DisconnectDeletes(d) PROVE Closers'
  <2>1. TakenIsClosed'
    BY <1>12 DEF DisconnectDeletes, connectVars
  <2>a. \A e \in Disconnects :
           disconnect[e] = "deleted" => disconnect'[e] = "deleted" /\ leaving'[e] = leaving[e]
    BY <1>12 DEF DisconnectDeletes
  <2>b. UNCHANGED <<connect, hasClient, reporter>>
    BY <1>12 DEF DisconnectDeletes, connectVars
  <2>c. \A k \in connections \ connections' :
           disconnect'[d] = "deleted" /\ leaving'[d] = k
    BY <1>12 DEF DisconnectDeletes
  <2>2. GoneHasCloser'
    <3> SUFFICES ASSUME NEW k \in Conns, connect'[k] \in {"registered", "up"},
                        k \notin connections', hasClient'[k]
                 PROVE  \/ \E r \in Reporters : reporter'[k][r] = "forgotten"
                        \/ \E e \in Disconnects :
                              disconnect'[e] = "deleted" /\ leaving'[e] = k
      BY DEF GoneHasCloser
    <3>1. CASE k \in connections
      BY <2>c, <3>1
    <3>2. CASE \E r \in Reporters : reporter[k][r] = "forgotten"
      BY <2>b, <3>2
    <3>3. CASE \E e \in Disconnects : disconnect[e] = "deleted" /\ leaving[e] = k
      BY <2>a, <3>3
    <3> QED
      BY <2>b, <3>1, <3>2, <3>3 DEF GoneHasCloser
  <2>3. GoneIsMarked'
    BY <1>12 DEF DisconnectDeletes, connectVars
  <2> QED
    BY <2>1, <2>2, <2>3
<1>13. ASSUME NEW d \in Disconnects, DisconnectTakes(d) PROVE Closers'
  <2>1. TakenIsClosed'
    BY <1>13 DEF DisconnectTakes, connectVars, LeaverOwns
  <2>2. GoneHasCloser'
    BY <1>13 DEF DisconnectTakes, connectVars, LeaverOwns
  <2>3. GoneIsMarked'
    BY <1>13 DEF DisconnectTakes, connectVars, LeaverOwns
  <2> QED
    BY <2>1, <2>2, <2>3
<1>14. ASSUME NEW d \in Disconnects, DisconnectCloses(d) PROVE Closers'
  BY <1>14 DEF DisconnectCloses, connectVars, managerVars
<1>15. ASSUME NEW d \in Disconnects, DisconnectTells(d) PROVE Closers'
  BY <1>15 DEF DisconnectTells, connectVars, managerVars
<1>16. ASSUME NEW q \in Requests, NEW c \in Conns, SftpLooksUp(q, c) PROVE Closers'
  BY <1>16 DEF SftpLooksUp, connectVars, managerVars, disconnectVars
<1>17. ASSUME NEW q \in Requests, SftpGets(q) \/ SftpOpened(q) PROVE Closers'
  BY <1>17 DEF SftpGets, SftpOpened, connectVars, managerVars, disconnectVars
<1>18. CASE UNCHANGED vars
  BY <1>18 DEF vars, connectVars, managerVars, disconnectVars
<1> QED
  BY <1>1, <1>2, <1>3, <1>4, <1>5, <1>6, <1>7, <1>8, <1>9, <1>10, <1>11, <1>12,
     <1>13, <1>14, <1>15, <1>16, <1>17, <1>18 DEF Next, LostStep, DisconnectStep

--------------------------------------------------------------------------------
(* The theorems *)

\* The inductive invariant of the manager, the handlers and the SFTP cache.
THEOREM Invariant == Spec => [](Inv /\ Closers)
<1> QED
  BY InvInit, InvNext, ClosersInit, ClosersNext, PTL DEF Spec

\* Every variable has its type; in particular no connection gets a second
\* connection_down event of a loss or of a disconnect, however many probes, the
\* monitor and requests report its end at once.
THEOREM TypeCorrect == Spec => []TypeOK
<1>1. Inv => TypeOK
  BY DEF Inv
<1> QED
  BY Invariant, <1>1, PTL

\* The SFTP cache keeps nothing of a connection whose loss was announced,
\* although GetOrCreate and the lost-connection callback share no lock with the
\* lookup that precedes them.
THEOREM NoSftpClientAfterLoss == Spec => []LossLeavesNoSftpClient
<1>1. Inv => LossLeavesNoSftpClient
  <2> SUFFICES ASSUME Inv, NEW c \in Conns, lossDowns[c] > 0 PROVE c \notin sftpClients
    BY DEF LossLeavesNoSftpClient
  <2>1. lossDowns[c] = 1
    BY DEF Inv, TypeOK
  <2>2. PICK r \in Reporters : reporter[c][r] \in Told
    BY <2>1 DEF Inv, LossCounted
  <2> QED
    BY <2>2 DEF Inv, CleanedStaysClean
<1> QED
  BY Invariant, <1>1, PTL

\* Whatever goroutine ends a connection, nothing of it stays open.
THEOREM EndsAreClosed == Spec => []EndedConnectionsAreClosed
<1>1. Inv /\ Closers => EndedConnectionsAreClosed
  BY DEF Inv, TypeOK, Closers, TakenIsClosed, GoneHasCloser, GoneIsMarked,
         EndedConnectionsAreClosed, Reporting, Disconnecting
<1> QED
  BY Invariant, <1>1, PTL

\* The initial states are initial states of the abstract lifecycle.
LEMMA LifecycleInit == Init => Lifecycle!LifeInit
BY DEF Init, Lifecycle!LifeInit, Live

\* Every step is a step of the abstract lifecycle or leaves it alone.
LEMMA LifecycleNext == Inv /\ [Next]_vars => [Lifecycle!LifeNext]_(Lifecycle!lifeVars)
<1> SUFFICES ASSUME Inv, [Next]_vars
             PROVE  [Lifecycle!LifeNext]_(Lifecycle!lifeVars)
  OBVIOUS
<1> DEFINE visible == {c \in Conns : Live(c)}
           ended == {c \in Conns : connect[c] \in {"registered", "up"} /\ ~Live(c)}
           lossTold == {c \in Conns : lossDowns[c] = 1}
           userTold == {c \in Conns : userDowns[c] = 1}
<1> USE DEF Inv, TypeOK, Live
<1>1. ASSUME NEW c \in Conns, Register(c) PROVE Lifecycle!Open(c)
  <2>1. visible' = visible \cup {c} /\ c \notin visible
    BY <1>1 DEF Register, NewIsUntouched
  <2>2. ended' = ended /\ c \notin ended
    BY <1>1 DEF Register, NewIsUntouched
  <2>3. UNCHANGED <<lossTold, userTold>>
    BY <1>1 DEF Register, eventVars
  <2> QED
    BY <2>1, <2>2, <2>3 DEF Lifecycle!Open
<1>2. ASSUME NEW c \in Conns,
             c \in visible, visible' = visible \ {c}, ended' = ended \cup {c},
             UNCHANGED <<lossTold, userTold>>
      PROVE  Lifecycle!End(c)
  BY <1>2 DEF Lifecycle!End
<1>3. ASSUME NEW c \in Conns, NEW r \in Reporters, LostMark(c, r), Live(c)
      PROVE  Lifecycle!End(c)
  <2>1. visible' = visible \ {c} /\ c \in visible
    BY <1>3 DEF LostMark
  <2>2. ended' = ended \cup {c}
    BY <1>3 DEF LostMark, NewIsUntouched
  <2>3. UNCHANGED <<lossTold, userTold>>
    BY <1>3 DEF LostMark, eventVars
  <2> QED
    BY <1>2, <2>1, <2>2, <2>3
<1>4. ASSUME NEW c \in Conns, NEW r \in Reporters, LostMark(c, r), ~Live(c)
      PROVE  UNCHANGED Lifecycle!lifeVars
  BY <1>4 DEF LostMark, eventVars, Lifecycle!lifeVars
<1>5. ASSUME NEW c \in Conns, NEW r \in Reporters, LostTell(c, r)
      PROVE  Lifecycle!TellLoss(c)
  <2>1. reporter[c][r] = "cleaned"
    BY <1>5 DEF LostTell, Moves
  <2>2. c \in ended \ lossTold
    <3>1. \A s \in Reporters : reporter[c][s] \notin Told
      BY <2>1 DEF OneWinner
    <3> QED
      BY <2>1, <3>1 DEF OneWinner, LossCounted, NewIsUntouched
  <2>3. lossTold' = lossTold \cup {c}
    BY <1>5, <2>2 DEF LostTell
  <2>4. UNCHANGED <<visible, ended, userTold>>
    BY <1>5 DEF LostTell, managerVars
  <2> QED
    BY <2>2, <2>3, <2>4 DEF Lifecycle!TellLoss
<1>6. ASSUME NEW d \in Disconnects, DisconnectDeletes(d), Live(leaving[d])
      PROVE  \E c \in Conns : Lifecycle!End(c)
  <2> DEFINE c == leaving[d]
  <2>1. c \in Conns /\ connect[c] \in {"registered", "up"}
    BY <1>6 DEF DisconnectDeletes, LeaverOwns
  <2>2. visible' = visible \ {c} /\ c \in visible
    BY <1>6, <2>1 DEF DisconnectDeletes
  <2>3. ended' = ended \cup {c}
    BY <1>6, <2>1 DEF DisconnectDeletes, connectVars
  <2>4. UNCHANGED <<lossTold, userTold>>
    BY <1>6 DEF DisconnectDeletes, eventVars
  <2> QED
    BY <1>2, <2>1, <2>2, <2>3, <2>4
<1>7. ASSUME NEW d \in Disconnects, DisconnectDeletes(d), ~Live(leaving[d])
      PROVE  UNCHANGED Lifecycle!lifeVars
  BY <1>7 DEF DisconnectDeletes, connectVars, eventVars, Lifecycle!lifeVars
<1>8. ASSUME NEW d \in Disconnects, DisconnectTakes(d) PROVE UNCHANGED Lifecycle!lifeVars
  <2>1. leaving[d] \notin connections
    BY <1>8 DEF DisconnectTakes, LeaverOwns
  <2> QED
    BY <1>8, <2>1 DEF DisconnectTakes, connectVars, eventVars, Lifecycle!lifeVars
<1>9. ASSUME NEW d \in Disconnects, DisconnectTells(d)
      PROVE  \E c \in Conns : Lifecycle!TellUser(c)
  <2> DEFINE c == leaving[d]
  <2>1. /\ c \in Conns /\ connect[c] \in {"registered", "up"}
        /\ c \notin connections /\ userDowns[c] = 0
    BY <1>9 DEF DisconnectTells, LeaverOwns
  <2>2. userTold' = userTold \cup {c}
    BY <1>9, <2>1 DEF DisconnectTells
  <2>3. UNCHANGED <<visible, ended, lossTold>>
    BY <1>9 DEF DisconnectTells, managerVars, connectVars
  <2> QED
    BY <2>1, <2>2, <2>3 DEF Lifecycle!TellUser
<1>10. ASSUME NEW c \in Conns, NEW r \in Reporters, LostForget(c, r)
       PROVE  UNCHANGED Lifecycle!lifeVars
  <2>1. state[c] = "disconnected"
    BY <1>10 DEF LostForget, Moves, OneWinner
  <2> QED
    BY <1>10, <2>1 DEF LostForget, Lifecycle!lifeVars, eventVars
<1>11. ASSUME NEW c \in Conns, NEW a \in Accounts, Dial(c, a)
       PROVE  UNCHANGED Lifecycle!lifeVars
  BY <1>11 DEF Dial, NewIsUntouched, Lifecycle!lifeVars, eventVars
<1>12. ASSUME NEW c \in Conns, AnnounceUp(c) PROVE UNCHANGED Lifecycle!lifeVars
  BY <1>12 DEF AnnounceUp, managerVars, eventVars, Lifecycle!lifeVars
<1>13. ASSUME UNCHANGED <<connections, state, connect, eventVars>>
       PROVE  UNCHANGED Lifecycle!lifeVars
  BY <1>13 DEF eventVars, Lifecycle!lifeVars
<1>14. ASSUME NEW c \in Conns, TransportDies(c) \/ MonitorWaits(c)
       PROVE  UNCHANGED Lifecycle!lifeVars
  BY <1>13, <1>14 DEF TransportDies, MonitorWaits, managerVars, connectVars
<1>15. ASSUME NEW c \in Conns, NEW p \in Probes,
              ProbePicks(c, p) \/ ProbeSends(c, p) \/ ProbeAnswered(c, p)
       PROVE  UNCHANGED Lifecycle!lifeVars
  BY <1>13, <1>15 DEF ProbePicks, ProbeSends, ProbeAnswered, managerVars
<1>16. ASSUME NEW c \in Conns, NEW r \in Reporters,
              TransportEnds(c, r) \/ LostClean(c, r) \/ LostClose(c, r)
       PROVE  UNCHANGED Lifecycle!lifeVars
  BY <1>13, <1>16 DEF TransportEnds, LostClean, LostClose, managerVars
<1>17. ASSUME NEW d \in Disconnects, NEW a \in Accounts, NEW c \in Conns,
              DisconnectFinds(d, a, c)
       PROVE  UNCHANGED Lifecycle!lifeVars
  BY <1>13, <1>17 DEF DisconnectFinds, managerVars, connectVars
<1>18. ASSUME NEW d \in Disconnects, DisconnectCleans(d) \/ DisconnectCloses(d)
       PROVE  UNCHANGED Lifecycle!lifeVars
  BY <1>13, <1>18 DEF DisconnectCleans, DisconnectCloses, managerVars, connectVars
<1>19. ASSUME NEW q \in Requests, NEW c \in Conns, SftpLooksUp(q, c)
       PROVE  UNCHANGED Lifecycle!lifeVars
  BY <1>13, <1>19 DEF SftpLooksUp, managerVars, connectVars
<1>20. ASSUME NEW q \in Requests, SftpGets(q) \/ SftpOpened(q)
       PROVE  UNCHANGED Lifecycle!lifeVars
  BY <1>13, <1>20 DEF SftpGets, SftpOpened, managerVars, connectVars
<1>21. CASE UNCHANGED vars
  BY <1>13, <1>21 DEF vars, managerVars, connectVars
<1> QED
  BY <1>1, <1>3, <1>4, <1>5, <1>6, <1>7, <1>8, <1>9, <1>10, <1>11, <1>12, <1>14,
     <1>15, <1>16, <1>17, <1>18, <1>19, <1>20, <1>21
     DEF Next, LostStep, DisconnectStep, Lifecycle!LifeNext

\* The manager implements ConnectionLifecycle: a connection is found by lookups
\* from its registration to its first end and never again, and no event of its
\* end is sent while it can still be found.
THEOREM ManagerImplementsLifecycle == Spec => LifecycleKept
<1> QED
  BY Invariant, LifecycleInit, LifecycleNext, PTL
     DEF Spec, LifecycleKept, Lifecycle!LifeSpec

================================================================================
