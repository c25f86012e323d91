--------------------------- MODULE ListPages_proofs ----------------------------
(*****************************************************************************)
(* What is proved of the three lists that the page keeps of what the daemon  *)
(* has: the connections, the tunnels and the groups.  Each part states the   *)
(* inductive invariant of its component and draws the properties from it, for *)
(* any sets of connections, tunnels and groups, and any numbers of requests  *)
(* and events.                                                               *)
(*****************************************************************************)
EXTENDS ConnectionPage, TunnelPage, GroupPage, FiniteSetTheorems, TLAPS

--------------------------------------------------------------------------------
(*****************************************************************************)
(* The connections: ConnInv.                                                 *)
(*****************************************************************************)

\* A connection the daemon has, had and told of, or whose end the page missed.
Traceable(c) == c \in alive \cup overtaken \/ \E e \in ending \cup downEvents : e.conn = c

Waiting(a) == \E r \in ConnectCalls : connects[r].account = a /\ connects[r].at = "daemon"
EventOf(a) == \E e \in ending \cup downEvents : e.account = a
LivesFor(a) == {c \in alive \ byTunnel : owner[c] = a}
TunnelHolds(a) == \E c \in byTunnel : c \in alive \cup tunnelDials /\ owner[c] = a

\* Whose a connection is, and that it can be traced.
ConnTraced ==
    /\ \A a \in Accounts : IsActive(a) => owner[activeConnIds[a]] = a /\ Traceable(activeConnIds[a])
    /\ \A r \in ConnectCalls : connects[r].conn # NoLive =>
        owner[connects[r].conn] = connects[r].account /\ Traceable(connects[r].conn)
    /\ \A e \in ending \cup downEvents : owner[e.conn] = e.account

CallsTell ==
    \A r \in ConnectCalls :
        /\ connects[r].at = "idle" => connects[r].account = NoAccount
        /\ connects[r].at # "idle" => connects[r].account \in Accounts
        /\ connects[r].at = "ok" <=> connects[r].conn # NoLive
        /\ connects[r].from = "gone" => raced = Accounts

\* An account that was never raced is dealt with in one place at a time: it has one
\* connection that the page asked for, one request, and no connection while a request of
\* it is with the daemon, while an end of it is under way or while a disconnect has been
\* answered.
OneLife(a) == \A c, d \in LivesFor(a) : c = d
OneRequest(a) ==
    \A r, s \in ConnectCalls : connects[r].account = a /\ connects[s].account = a => r = s
NoneMeanwhile(a) == Waiting(a) \/ EventOf(a) \/ disconnects[a] = "ok" => LivesFor(a) = {}
AsksLater(a) == Waiting(a) => ~EventOf(a) /\ disconnects[a] # "ok"
ReplyNamesIt(a) ==
    \A r \in ConnectCalls : connects[r].account = a /\ connects[r].conn # NoLive =>
        LivesFor(a) \subseteq {connects[r].conn}
InSight(a) ==
    \A c \in LivesFor(a) : activeConnIds[a] = c \/ \E r \in ConnectCalls : connects[r].conn = c
\* While a tunnel has a connection of the account, or dials one, the page has none.
Apart(a) ==
    TunnelHolds(a) => LivesFor(a) = {} /\ \A r \in ConnectCalls : connects[r].account # a
Orderly(a) ==
    /\ OneLife(a) /\ OneRequest(a) /\ NoneMeanwhile(a)
    /\ AsksLater(a) /\ ReplyNamesIt(a) /\ InSight(a) /\ Apart(a)

ConnInv ==
    /\ ConnPageTypeOK /\ ConnTraced /\ CallsTell
    /\ \A a \in Accounts \ raced : Orderly(a)

\* What the invariant looks at, besides the types.
LEMMA ConnFrame ==
    ASSUME ConnInv, ConnPageTypeOK',
           UNCHANGED <<activeConnIds, connects, disconnects, owner, alive, ending, downEvents,
                       overtaken, raced, tunnelDials, byTunnel>>
    PROVE  ConnInv'
BY DEF ConnInv, ConnTraced, Traceable, IsActive, CallsTell, Orderly, OneLife, OneRequest,
       NoneMeanwhile, AsksLater, ReplyNamesIt, InSight, Apart, Waiting, EventOf, LivesFor,
       TunnelHolds

LEMMA ConnectFromCardKeepsConn ==
    ASSUME ConnInv, NEW a \in Accounts, ConnectFromCard(a)
    PROVE  ConnInv'
<1> USE ConnPageAssumption
       DEF ConnectFromCard, ConnectBegins, MayConnectFromCard, daemonConnVars, pushVars,
           historyVars
<1>1. ConnPageTypeOK' BY DEF ConnInv, ConnPageTypeOK, CallStates, NoCall, CallsTell
<1>2. ConnTraced'
  BY DEF ConnInv, ConnPageTypeOK, CallStates, NoCall, ConnTraced, CallsTell, Traceable,
         IsActive
<1>3. CallsTell' BY DEF ConnInv, ConnPageTypeOK, CallStates, NoCall, CallsTell
<1>4. ASSUME NEW b \in Accounts \ raced' PROVE Orderly(b)'
  <2>1. b \in Accounts \ raced /\ Orderly(b) BY DEF ConnInv, ConnPageTypeOK
  <2>2. OneLife(b)'
    BY <2>1 DEF ConnInv, ConnPageTypeOK, CallsTell, Orderly, OneLife, NoneMeanwhile,
            LivesFor, Quiet, Waiting, NoCall
  <2>3. OneRequest(b)'
    BY <2>1 DEF ConnInv, ConnPageTypeOK, CallsTell, Orderly, OneRequest, Quiet, NoCall
  <2>4. NoneMeanwhile(b)'
    BY <2>1 DEF ConnInv, ConnPageTypeOK, CallsTell, Orderly, OneLife, OneRequest,
           NoneMeanwhile, AsksLater, Apart, TunnelHolds, LivesFor, Quiet, Waiting, EventOf,
           NoCall
  <2>5. AsksLater(b)'
    BY <2>1 DEF ConnInv, ConnPageTypeOK, CallsTell, Orderly, OneRequest, NoneMeanwhile,
           AsksLater, Apart, TunnelHolds, LivesFor, Quiet, Waiting, EventOf, NoCall
  <2>6. ReplyNamesIt(b)'
    BY <2>1 DEF ConnInv, ConnPageTypeOK, CallsTell, Orderly, OneRequest, NoneMeanwhile,
           ReplyNamesIt, LivesFor, Quiet, Waiting, NoCall
  <2>7. InSight(b)'
    BY <2>1 DEF ConnInv, ConnPageTypeOK, CallsTell, ConnTraced, Orderly, InSight,
           NoneMeanwhile, ReplyNamesIt, LivesFor, EventOf, Quiet, NoCall
  <2>8. Apart(b)'
    BY <2>1 DEF ConnInv, ConnPageTypeOK, CallsTell, Orderly, Apart, TunnelHolds, LivesFor,
           Quiet, NoCall
  <2> QED BY <2>2, <2>3, <2>4, <2>5, <2>6, <2>7, <2>8 DEF Orderly
<1> QED BY <1>1, <1>2, <1>3, <1>4 DEF ConnInv

LEMMA ConnectFromDashboardKeepsConn ==
    ASSUME ConnInv, NEW a \in Accounts, ConnectFromDashboard(a)
    PROVE  ConnInv'
<1> USE ConnPageAssumption
       DEF ConnectFromDashboard, ConnectBegins, daemonConnVars, pushVars, historyVars
<1>1. ConnPageTypeOK' BY DEF ConnInv, ConnPageTypeOK, CallStates, NoCall, CallsTell
<1>2. ConnTraced'
  BY DEF ConnInv, ConnPageTypeOK, CallStates, NoCall, ConnTraced, CallsTell, Traceable,
         IsActive
<1>3. CallsTell' BY DEF ConnInv, ConnPageTypeOK, CallStates, NoCall, CallsTell
<1>4. ASSUME NEW b \in Accounts \ raced' PROVE Orderly(b)'
  <2>1. b \in Accounts \ raced /\ Orderly(b) BY DEF ConnInv, ConnPageTypeOK
  <2>2. OneLife(b)'
    BY <2>1 DEF ConnInv, ConnPageTypeOK, CallsTell, Orderly, OneLife, NoneMeanwhile,
            LivesFor, Quiet, Waiting, NoCall
  <2>3. OneRequest(b)'
    BY <2>1 DEF ConnInv, ConnPageTypeOK, CallsTell, Orderly, OneRequest, Quiet, NoCall
  <2>4. NoneMeanwhile(b)'
    BY <2>1 DEF ConnInv, ConnPageTypeOK, CallsTell, Orderly, OneLife, OneRequest,
           NoneMeanwhile, AsksLater, Apart, TunnelHolds, LivesFor, Quiet, Waiting, EventOf,
           NoCall
  <2>5. AsksLater(b)'
    BY <2>1 DEF ConnInv, ConnPageTypeOK, CallsTell, Orderly, OneRequest, NoneMeanwhile,
           AsksLater, Apart, TunnelHolds, LivesFor, Quiet, Waiting, EventOf, NoCall
  <2>6. ReplyNamesIt(b)'
    BY <2>1 DEF ConnInv, ConnPageTypeOK, CallsTell, Orderly, OneRequest, NoneMeanwhile,
           ReplyNamesIt, LivesFor, Quiet, Waiting, NoCall
  <2>7. InSight(b)'
    BY <2>1 DEF ConnInv, ConnPageTypeOK, CallsTell, ConnTraced, Orderly, InSight,
           NoneMeanwhile, ReplyNamesIt, LivesFor, EventOf, Quiet, NoCall
  <2>8. Apart(b)'
    BY <2>1 DEF ConnInv, ConnPageTypeOK, CallsTell, Orderly, Apart, TunnelHolds, LivesFor,
           Quiet, NoCall
  <2> QED BY <2>2, <2>3, <2>4, <2>5, <2>6, <2>7, <2>8 DEF Orderly
<1> QED BY <1>1, <1>2, <1>3, <1>4 DEF ConnInv

LEMMA ConnectFromTerminalKeepsConn ==
    ASSUME ConnInv, NEW a \in Accounts, ConnectFromTerminal(a)
    PROVE  ConnInv'
<1> USE ConnPageAssumption
       DEF ConnectFromTerminal, ConnectBegins, daemonConnVars, pushVars, historyVars
<1>1. ConnPageTypeOK' BY DEF ConnInv, ConnPageTypeOK, CallStates, NoCall, CallsTell
<1>2. ConnTraced'
  BY DEF ConnInv, ConnPageTypeOK, CallStates, NoCall, ConnTraced, CallsTell, Traceable,
         IsActive
<1>3. CallsTell' BY DEF ConnInv, ConnPageTypeOK, CallStates, NoCall, CallsTell
<1>4. ASSUME NEW b \in Accounts \ raced' PROVE Orderly(b)'
  <2>1. b \in Accounts \ raced /\ Orderly(b) BY DEF ConnInv, ConnPageTypeOK
  <2>2. OneLife(b)'
    BY <2>1 DEF ConnInv, ConnPageTypeOK, CallsTell, Orderly, OneLife, NoneMeanwhile,
            LivesFor, Quiet, Waiting, NoCall
  <2>3. OneRequest(b)'
    BY <2>1 DEF ConnInv, ConnPageTypeOK, CallsTell, Orderly, OneRequest, Quiet, NoCall
  <2>4. NoneMeanwhile(b)'
    BY <2>1 DEF ConnInv, ConnPageTypeOK, CallsTell, Orderly, OneLife, OneRequest,
           NoneMeanwhile, AsksLater, Apart, TunnelHolds, LivesFor, Quiet, Waiting, EventOf,
           NoCall
  <2>5. AsksLater(b)'
    BY <2>1 DEF ConnInv, ConnPageTypeOK, CallsTell, Orderly, OneRequest, NoneMeanwhile,
           AsksLater, Apart, TunnelHolds, LivesFor, Quiet, Waiting, EventOf, NoCall
  <2>6. ReplyNamesIt(b)'
    BY <2>1 DEF ConnInv, ConnPageTypeOK, CallsTell, Orderly, OneRequest, NoneMeanwhile,
           ReplyNamesIt, LivesFor, Quiet, Waiting, NoCall
  <2>7. InSight(b)'
    BY <2>1 DEF ConnInv, ConnPageTypeOK, CallsTell, ConnTraced, Orderly, InSight,
           NoneMeanwhile, ReplyNamesIt, LivesFor, EventOf, Quiet, NoCall
  <2>8. Apart(b)'
    BY <2>1 DEF ConnInv, ConnPageTypeOK, CallsTell, Orderly, Apart, TunnelHolds, LivesFor,
           Quiet, NoCall
  <2> QED BY <2>2, <2>3, <2>4, <2>5, <2>6, <2>7, <2>8 DEF Orderly
<1> QED BY <1>1, <1>2, <1>3, <1>4 DEF ConnInv

LEMMA TrustReplyOkKeepsConn ==
    ASSUME ConnInv, NEW a \in Accounts, TrustReplyOk(a)
    PROVE  ConnInv'
<1> USE ConnPageAssumption DEF TrustReplyOk, ConnectBegins, daemonConnVars, pushVars, historyVars
<1>1. ConnPageTypeOK' BY DEF ConnInv, ConnPageTypeOK, CallStates, NoCall, CallsTell
<1>2. ConnTraced'
  BY DEF ConnInv, ConnPageTypeOK, CallStates, NoCall, ConnTraced, CallsTell, Traceable,
         IsActive
<1>3. CallsTell' BY DEF ConnInv, ConnPageTypeOK, CallStates, NoCall, CallsTell
<1>4. ASSUME NEW b \in Accounts \ raced' PROVE Orderly(b)'
  <2>1. b \in Accounts \ raced /\ Orderly(b) BY DEF ConnInv, ConnPageTypeOK
  <2>2. OneLife(b)'
    BY <2>1 DEF ConnInv, ConnPageTypeOK, CallsTell, Orderly, OneLife, NoneMeanwhile,
            LivesFor, Quiet, Waiting, NoCall
  <2>3. OneRequest(b)'
    BY <2>1 DEF ConnInv, ConnPageTypeOK, CallsTell, Orderly, OneRequest, Quiet, NoCall
  <2>4. NoneMeanwhile(b)'
    BY <2>1 DEF ConnInv, ConnPageTypeOK, CallsTell, Orderly, OneLife, OneRequest,
           NoneMeanwhile, AsksLater, Apart, TunnelHolds, LivesFor, Quiet, Waiting, EventOf,
           NoCall
  <2>5. AsksLater(b)'
    BY <2>1 DEF ConnInv, ConnPageTypeOK, CallsTell, Orderly, OneRequest, NoneMeanwhile,
           AsksLater, Apart, TunnelHolds, LivesFor, Quiet, Waiting, EventOf, NoCall
  <2>6. ReplyNamesIt(b)'
    BY <2>1 DEF ConnInv, ConnPageTypeOK, CallsTell, Orderly, OneRequest, NoneMeanwhile,
           ReplyNamesIt, LivesFor, Quiet, Waiting, NoCall
  <2>7. InSight(b)'
    BY <2>1 DEF ConnInv, ConnPageTypeOK, CallsTell, ConnTraced, Orderly, InSight,
           NoneMeanwhile, ReplyNamesIt, LivesFor, EventOf, Quiet, NoCall
  <2>8. Apart(b)'
    BY <2>1 DEF ConnInv, ConnPageTypeOK, CallsTell, Orderly, Apart, TunnelHolds, LivesFor,
           Quiet, NoCall
  <2> QED BY <2>2, <2>3, <2>4, <2>5, <2>6, <2>7, <2>8 DEF Orderly
<1> QED BY <1>1, <1>2, <1>3, <1>4 DEF ConnInv

LEMMA DisconnectBeginsKeepsConn ==
    ASSUME ConnInv, NEW a \in Accounts, DisconnectBegins(a)
    PROVE  ConnInv'
<1> USE ConnPageAssumption DEF DisconnectBegins, daemonConnVars, pushVars, historyVars
<1>1. ConnPageTypeOK' BY DEF ConnInv, ConnPageTypeOK, CallStates, NoCall, CallsTell
<1>2. ConnTraced'
  BY DEF ConnInv, ConnPageTypeOK, CallStates, NoCall, ConnTraced, CallsTell, Traceable,
         IsActive
<1>3. CallsTell' BY DEF ConnInv, ConnPageTypeOK, CallStates, NoCall, CallsTell
<1>4. ASSUME NEW b \in Accounts \ raced' PROVE Orderly(b)'
  <2>1. b \in Accounts \ raced /\ Orderly(b) BY DEF ConnInv, ConnPageTypeOK
  <2>2. OneLife(b)'
    BY <2>1 DEF ConnInv, ConnPageTypeOK, CallsTell, Orderly, OneLife, NoneMeanwhile,
            LivesFor, Quiet, Waiting, NoCall
  <2>3. OneRequest(b)'
    BY <2>1 DEF ConnInv, ConnPageTypeOK, CallsTell, Orderly, OneRequest, Quiet, NoCall
  <2>4. NoneMeanwhile(b)'
    BY <2>1 DEF ConnInv, ConnPageTypeOK, CallsTell, Orderly, OneLife, OneRequest,
           NoneMeanwhile, AsksLater, Apart, TunnelHolds, LivesFor, Quiet, Waiting, EventOf,
           NoCall
  <2>5. AsksLater(b)'
    BY <2>1 DEF ConnInv, ConnPageTypeOK, CallsTell, Orderly, OneRequest, NoneMeanwhile,
           AsksLater, Apart, TunnelHolds, LivesFor, Quiet, Waiting, EventOf, NoCall
  <2>6. ReplyNamesIt(b)'
    BY <2>1 DEF ConnInv, ConnPageTypeOK, CallsTell, Orderly, OneRequest, NoneMeanwhile,
           ReplyNamesIt, LivesFor, Quiet, Waiting, NoCall
  <2>7. InSight(b)'
    BY <2>1 DEF ConnInv, ConnPageTypeOK, CallsTell, ConnTraced, Orderly, InSight,
           NoneMeanwhile, ReplyNamesIt, LivesFor, EventOf, Quiet, NoCall
  <2>8. Apart(b)'
    BY <2>1 DEF ConnInv, ConnPageTypeOK, CallsTell, Orderly, Apart, TunnelHolds, LivesFor,
           Quiet, NoCall
  <2> QED BY <2>2, <2>3, <2>4, <2>5, <2>6, <2>7, <2>8 DEF Orderly
<1> QED BY <1>1, <1>2, <1>3, <1>4 DEF ConnInv

LEMMA DaemonDisconnectsKeepsConn ==
    ASSUME ConnInv, NEW a \in Accounts, DaemonDisconnects(a)
    PROVE  ConnInv'
<1> USE ConnPageAssumption DEF DaemonDisconnects, DownEvent, daemonConnVars, pushVars, historyVars
<1> DEFINE end(c) == [account |-> a, conn |-> c, user |-> TRUE]
<1>0. ASSUME NEW c \in alive PROVE end(c) \in DownEvent BY <1>0 DEF ConnInv, ConnPageTypeOK
<1>a. ASSUME UNCHANGED <<alive, ending>>
      PROVE  ConnPageTypeOK' /\ ConnTraced'
  <2>1. ConnPageTypeOK' BY <1>a DEF ConnInv, ConnPageTypeOK
  <2>2. ConnTraced' BY <1>a DEF ConnInv, ConnTraced, Traceable, IsActive
  <2> QED BY <2>1, <2>2
<1>b. ASSUME NEW c \in alive, owner[c] = a, alive' = alive \ {c},
             ending' = ending \cup {end(c)}
      PROVE  ConnPageTypeOK' /\ ConnTraced'
  <2>1. ending' \subseteq DownEvent BY <1>0, <1>b DEF ConnInv, ConnPageTypeOK
  <2>2. alive' \subseteq {x \in LiveIds : owner'[x] # NoAccount} BY <1>b DEF ConnInv, ConnPageTypeOK
  <2>3. ConnPageTypeOK'
    <3> HIDE DEF DownEvent
    <3> QED BY <2>1, <2>2 DEF ConnInv, ConnPageTypeOK
  <2>4. end(c).conn = c /\ end(c).account = a OBVIOUS
  <2> HIDE DEF end
  <2>5. \A x : Traceable(x) => Traceable(x)' BY <1>b, <2>4 DEF Traceable
  <2>6. \A e \in (ending \cup downEvents)' : owner[e.conn] = e.account
    BY <1>b, <2>4 DEF ConnInv, ConnTraced
  <2>7. ConnTraced' BY <2>5, <2>6 DEF ConnInv, ConnTraced, IsActive
  <2> QED BY <2>3, <2>7
<1>1. ConnPageTypeOK' /\ ConnTraced' BY <1>a, <1>b
<1>2. ConnTraced' BY <1>1
<1>3. CallsTell' BY DEF ConnInv, ConnPageTypeOK, CallStates, NoCall, CallsTell
<1>4. ASSUME NEW b \in Accounts \ raced' PROVE Orderly(b)'
  <2>1. b \in Accounts \ raced /\ Orderly(b) BY DEF ConnInv, ConnPageTypeOK
  <2>2. OneLife(b)'
    BY <2>1 DEF ConnInv, ConnPageTypeOK, CallsTell, Orderly, OneLife, NoneMeanwhile,
            LivesFor, Quiet, Waiting, NoCall
  <2>3. OneRequest(b)'
    BY <2>1 DEF ConnInv, ConnPageTypeOK, CallsTell, Orderly, OneRequest, Quiet, NoCall
  <2>4. NoneMeanwhile(b)'
    BY <2>1 DEF ConnInv, ConnPageTypeOK, CallsTell, Orderly, OneLife, OneRequest,
           NoneMeanwhile, AsksLater, Apart, TunnelHolds, LivesFor, Quiet, Waiting, EventOf,
           NoCall
  <2>5. AsksLater(b)'
    BY <2>1 DEF ConnInv, ConnPageTypeOK, CallsTell, Orderly, OneRequest, NoneMeanwhile,
           AsksLater, Apart, TunnelHolds, LivesFor, Quiet, Waiting, EventOf, NoCall
  <2>6. ReplyNamesIt(b)'
    BY <2>1 DEF ConnInv, ConnPageTypeOK, CallsTell, Orderly, OneRequest, NoneMeanwhile,
           ReplyNamesIt, LivesFor, Quiet, Waiting, NoCall
  <2>7. InSight(b)'
    BY <2>1 DEF ConnInv, ConnPageTypeOK, CallsTell, ConnTraced, Orderly, InSight,
           NoneMeanwhile, ReplyNamesIt, LivesFor, EventOf, Quiet, NoCall
  <2>8. Apart(b)'
    BY <2>1 DEF ConnInv, ConnPageTypeOK, CallsTell, Orderly, Apart, TunnelHolds, LivesFor,
           Quiet, NoCall
  <2> QED BY <2>2, <2>3, <2>4, <2>5, <2>6, <2>7, <2>8 DEF Orderly
<1> QED BY <1>1, <1>2, <1>3, <1>4 DEF ConnInv

LEMMA DisconnectReplyKeepsConn ==
    ASSUME ConnInv, NEW a \in Accounts, DisconnectReply(a)
    PROVE  ConnInv'
<1> USE ConnPageAssumption DEF DisconnectReply, daemonConnVars, pushVars, historyVars
<1>1. ConnPageTypeOK' BY DEF ConnInv, ConnPageTypeOK, CallStates, NoCall, CallsTell
<1>2. ConnTraced'
  BY DEF ConnInv, ConnPageTypeOK, CallStates, NoCall, ConnTraced, CallsTell, Traceable,
         IsActive
<1>3. CallsTell' BY DEF ConnInv, ConnPageTypeOK, CallStates, NoCall, CallsTell
<1>4. ASSUME NEW b \in Accounts \ raced' PROVE Orderly(b)'
  <2>1. b \in Accounts \ raced /\ Orderly(b) BY DEF ConnInv, ConnPageTypeOK
  <2>2. OneLife(b)'
    BY <2>1 DEF ConnInv, ConnPageTypeOK, CallsTell, Orderly, OneLife, NoneMeanwhile,
            LivesFor, Quiet, Waiting, NoCall
  <2>3. OneRequest(b)'
    BY <2>1 DEF ConnInv, ConnPageTypeOK, CallsTell, Orderly, OneRequest, Quiet, NoCall
  <2>4. NoneMeanwhile(b)'
    BY <2>1 DEF ConnInv, ConnPageTypeOK, CallsTell, Orderly, OneLife, OneRequest,
           NoneMeanwhile, AsksLater, Apart, TunnelHolds, LivesFor, Quiet, Waiting, EventOf,
           NoCall
  <2>5. AsksLater(b)'
    BY <2>1 DEF ConnInv, ConnPageTypeOK, CallsTell, Orderly, OneRequest, NoneMeanwhile,
           AsksLater, Apart, TunnelHolds, LivesFor, Quiet, Waiting, EventOf, NoCall
  <2>6. ReplyNamesIt(b)'
    BY <2>1 DEF ConnInv, ConnPageTypeOK, CallsTell, Orderly, OneRequest, NoneMeanwhile,
           ReplyNamesIt, LivesFor, Quiet, Waiting, NoCall
  <2>7. InSight(b)'
    BY <2>1 DEF ConnInv, ConnPageTypeOK, CallsTell, ConnTraced, Orderly, InSight,
           NoneMeanwhile, ReplyNamesIt, LivesFor, EventOf, Quiet, NoCall
  <2>8. Apart(b)'
    BY <2>1 DEF ConnInv, ConnPageTypeOK, CallsTell, Orderly, Apart, TunnelHolds, LivesFor,
           Quiet, NoCall
  <2> QED BY <2>2, <2>3, <2>4, <2>5, <2>6, <2>7, <2>8 DEF Orderly
<1> QED BY <1>1, <1>2, <1>3, <1>4 DEF ConnInv

LEMMA CardAlertClearedKeepsConn ==
    ASSUME ConnInv, NEW a \in Accounts, CardAlertCleared(a)
    PROVE  ConnInv'
<1> USE ConnPageAssumption DEF CardAlertCleared, daemonConnVars, pushVars, historyVars
<1>1. ConnPageTypeOK' BY DEF ConnInv, ConnPageTypeOK, CallStates
<1> QED BY <1>1, ConnFrame

LEMMA DaemonTrustsKeepsConn ==
    ASSUME ConnInv, NEW a \in Accounts, DaemonTrusts(a)
    PROVE  ConnInv'
<1> USE ConnPageAssumption DEF DaemonTrusts, daemonConnVars, pushVars, historyVars
<1>1. ConnPageTypeOK' BY DEF ConnInv, ConnPageTypeOK, CallStates
<1> QED BY <1>1, ConnFrame

LEMMA DaemonConnectsKeepsConn ==
    ASSUME ConnInv, NEW r \in ConnectCalls, DaemonConnects(r)
    PROVE  ConnInv'
<1> USE ConnPageAssumption DEF DaemonConnects, daemonConnVars, pushVars, historyVars
<1>1. ConnPageTypeOK' BY DEF ConnInv, ConnPageTypeOK, CallStates, NoCall, CallsTell
<1>2. ConnTraced'
  BY DEF ConnInv, ConnPageTypeOK, CallStates, NoCall, ConnTraced, CallsTell, Traceable,
         IsActive
<1>3. CallsTell' BY DEF ConnInv, ConnPageTypeOK, CallStates, NoCall, CallsTell
<1>4. ASSUME NEW b \in Accounts \ raced' PROVE Orderly(b)'
  <2>1. b \in Accounts \ raced /\ Orderly(b) BY DEF ConnInv, ConnPageTypeOK
  <2>2. OneLife(b)'
    BY <2>1 DEF ConnInv, ConnPageTypeOK, CallsTell, Orderly, OneLife, NoneMeanwhile,
            LivesFor, Quiet, Waiting, NoCall
  <2>3. OneRequest(b)'
    BY <2>1 DEF ConnInv, ConnPageTypeOK, CallsTell, Orderly, OneRequest, Quiet, NoCall
  <2>4. NoneMeanwhile(b)'
    BY <2>1 DEF ConnInv, ConnPageTypeOK, CallsTell, Orderly, OneLife, OneRequest,
           NoneMeanwhile, AsksLater, Apart, TunnelHolds, LivesFor, Quiet, Waiting, EventOf,
           NoCall
  <2>5. AsksLater(b)'
    BY <2>1 DEF ConnInv, ConnPageTypeOK, CallsTell, Orderly, OneRequest, NoneMeanwhile,
           AsksLater, Apart, TunnelHolds, LivesFor, Quiet, Waiting, EventOf, NoCall
  <2>6. ReplyNamesIt(b)'
    BY <2>1 DEF ConnInv, ConnPageTypeOK, CallsTell, Orderly, OneRequest, NoneMeanwhile,
           ReplyNamesIt, LivesFor, Quiet, Waiting, NoCall
  <2>7. InSight(b)'
    BY <2>1 DEF ConnInv, ConnPageTypeOK, CallsTell, ConnTraced, Orderly, InSight,
           NoneMeanwhile, ReplyNamesIt, LivesFor, EventOf, Quiet, NoCall
  <2>8. Apart(b)'
    BY <2>1 DEF ConnInv, ConnPageTypeOK, CallsTell, Orderly, Apart, TunnelHolds, LivesFor,
           Quiet, NoCall
  <2> QED BY <2>2, <2>3, <2>4, <2>5, <2>6, <2>7, <2>8 DEF Orderly
<1> QED BY <1>1, <1>2, <1>3, <1>4 DEF ConnInv

LEMMA DaemonRefusesKeepsConn ==
    ASSUME ConnInv, NEW r \in ConnectCalls, DaemonRefuses(r)
    PROVE  ConnInv'
<1> USE ConnPageAssumption DEF DaemonRefuses, daemonConnVars, pushVars, historyVars
<1>1. ConnPageTypeOK' BY DEF ConnInv, ConnPageTypeOK, CallStates, NoCall, CallsTell
<1>2. ConnTraced'
  BY DEF ConnInv, ConnPageTypeOK, CallStates, NoCall, ConnTraced, CallsTell, Traceable,
         IsActive
<1>3. CallsTell' BY DEF ConnInv, ConnPageTypeOK, CallStates, NoCall, CallsTell
<1>4. ASSUME NEW b \in Accounts \ raced' PROVE Orderly(b)'
  <2>1. b \in Accounts \ raced /\ Orderly(b) BY DEF ConnInv, ConnPageTypeOK
  <2>2. OneLife(b)'
    BY <2>1 DEF ConnInv, ConnPageTypeOK, CallsTell, Orderly, OneLife, NoneMeanwhile,
            LivesFor, Quiet, Waiting, NoCall
  <2>3. OneRequest(b)'
    BY <2>1 DEF ConnInv, ConnPageTypeOK, CallsTell, Orderly, OneRequest, Quiet, NoCall
  <2>4. NoneMeanwhile(b)'
    BY <2>1 DEF ConnInv, ConnPageTypeOK, CallsTell, Orderly, OneLife, OneRequest,
           NoneMeanwhile, AsksLater, Apart, TunnelHolds, LivesFor, Quiet, Waiting, EventOf,
           NoCall
  <2>5. AsksLater(b)'
    BY <2>1 DEF ConnInv, ConnPageTypeOK, CallsTell, Orderly, OneRequest, NoneMeanwhile,
           AsksLater, Apart, TunnelHolds, LivesFor, Quiet, Waiting, EventOf, NoCall
  <2>6. ReplyNamesIt(b)'
    BY <2>1 DEF ConnInv, ConnPageTypeOK, CallsTell, Orderly, OneRequest, NoneMeanwhile,
           ReplyNamesIt, LivesFor, Quiet, Waiting, NoCall
  <2>7. InSight(b)'
    BY <2>1 DEF ConnInv, ConnPageTypeOK, CallsTell, ConnTraced, Orderly, InSight,
           NoneMeanwhile, ReplyNamesIt, LivesFor, EventOf, Quiet, NoCall
  <2>8. Apart(b)'
    BY <2>1 DEF ConnInv, ConnPageTypeOK, CallsTell, Orderly, Apart, TunnelHolds, LivesFor,
           Quiet, NoCall
  <2> QED BY <2>2, <2>3, <2>4, <2>5, <2>6, <2>7, <2>8 DEF Orderly
<1> QED BY <1>1, <1>2, <1>3, <1>4 DEF ConnInv

LEMMA ConnectReplyOkKeepsConn ==
    ASSUME ConnInv, NEW r \in ConnectCalls, ConnectReplyOk(r)
    PROVE  ConnInv'
<1> USE ConnPageAssumption DEF ConnectReplyOk, daemonConnVars, pushVars, historyVars
<1>1. ConnPageTypeOK' BY DEF ConnInv, ConnPageTypeOK, CallStates, NoCall, CallsTell
<1>2. ConnTraced'
  BY DEF ConnInv, ConnPageTypeOK, CallStates, NoCall, ConnTraced, CallsTell, Traceable,
         IsActive
<1>3. CallsTell' BY DEF ConnInv, ConnPageTypeOK, CallStates, NoCall, CallsTell
<1>4. ASSUME NEW b \in Accounts \ raced' PROVE Orderly(b)'
  <2>1. b \in Accounts \ raced /\ Orderly(b) BY DEF ConnInv, ConnPageTypeOK
  <2>2. OneLife(b)'
    BY <2>1 DEF ConnInv, ConnPageTypeOK, CallsTell, Orderly, OneLife, NoneMeanwhile,
            LivesFor, Quiet, Waiting, NoCall
  <2>3. OneRequest(b)'
    BY <2>1 DEF ConnInv, ConnPageTypeOK, CallsTell, Orderly, OneRequest, Quiet, NoCall
  <2>4. NoneMeanwhile(b)'
    BY <2>1 DEF ConnInv, ConnPageTypeOK, CallsTell, Orderly, OneLife, OneRequest,
           NoneMeanwhile, AsksLater, Apart, TunnelHolds, LivesFor, Quiet, Waiting, EventOf,
           NoCall
  <2>5. AsksLater(b)'
    BY <2>1 DEF ConnInv, ConnPageTypeOK, CallsTell, Orderly, OneRequest, NoneMeanwhile,
           AsksLater, Apart, TunnelHolds, LivesFor, Quiet, Waiting, EventOf, NoCall
  <2>6. ReplyNamesIt(b)'
    BY <2>1 DEF ConnInv, ConnPageTypeOK, CallsTell, Orderly, OneRequest, NoneMeanwhile,
           ReplyNamesIt, LivesFor, Quiet, Waiting, NoCall
  <2>7. InSight(b)'
    BY <2>1 DEF ConnInv, ConnPageTypeOK, CallsTell, ConnTraced, Orderly, InSight,
           NoneMeanwhile, ReplyNamesIt, LivesFor, EventOf, Quiet, NoCall
  <2>8. Apart(b)'
    BY <2>1 DEF ConnInv, ConnPageTypeOK, CallsTell, Orderly, Apart, TunnelHolds, LivesFor,
           Quiet, NoCall
  <2> QED BY <2>2, <2>3, <2>4, <2>5, <2>6, <2>7, <2>8 DEF Orderly
<1> QED BY <1>1, <1>2, <1>3, <1>4 DEF ConnInv

LEMMA ConnectReplyErrorKeepsConn ==
    ASSUME ConnInv, NEW r \in ConnectCalls, ConnectReplyError(r)
    PROVE  ConnInv'
<1> USE ConnPageAssumption DEF ConnectReplyError, daemonConnVars, pushVars, historyVars
<1>1. ConnPageTypeOK' BY DEF ConnInv, ConnPageTypeOK, CallStates, NoCall, CallsTell
<1>2. ConnTraced'
  BY DEF ConnInv, ConnPageTypeOK, CallStates, NoCall, ConnTraced, CallsTell, Traceable,
         IsActive
<1>3. CallsTell' BY DEF ConnInv, ConnPageTypeOK, CallStates, NoCall, CallsTell
<1>4. ASSUME NEW b \in Accounts \ raced' PROVE Orderly(b)'
  <2>1. b \in Accounts \ raced /\ Orderly(b) BY DEF ConnInv, ConnPageTypeOK
  <2>2. OneLife(b)'
    BY <2>1 DEF ConnInv, ConnPageTypeOK, CallsTell, Orderly, OneLife, NoneMeanwhile,
            LivesFor, Quiet, Waiting, NoCall
  <2>3. OneRequest(b)'
    BY <2>1 DEF ConnInv, ConnPageTypeOK, CallsTell, Orderly, OneRequest, Quiet, NoCall
  <2>4. NoneMeanwhile(b)'
    BY <2>1 DEF ConnInv, ConnPageTypeOK, CallsTell, Orderly, OneLife, OneRequest,
           NoneMeanwhile, AsksLater, Apart, TunnelHolds, LivesFor, Quiet, Waiting, EventOf,
           NoCall
  <2>5. AsksLater(b)'
    BY <2>1 DEF ConnInv, ConnPageTypeOK, CallsTell, Orderly, OneRequest, NoneMeanwhile,
           AsksLater, Apart, TunnelHolds, LivesFor, Quiet, Waiting, EventOf, NoCall
  <2>6. ReplyNamesIt(b)'
    BY <2>1 DEF ConnInv, ConnPageTypeOK, CallsTell, Orderly, OneRequest, NoneMeanwhile,
           ReplyNamesIt, LivesFor, Quiet, Waiting, NoCall
  <2>7. InSight(b)'
    BY <2>1 DEF ConnInv, ConnPageTypeOK, CallsTell, ConnTraced, Orderly, InSight,
           NoneMeanwhile, ReplyNamesIt, LivesFor, EventOf, Quiet, NoCall
  <2>8. Apart(b)'
    BY <2>1 DEF ConnInv, ConnPageTypeOK, CallsTell, Orderly, Apart, TunnelHolds, LivesFor,
           Quiet, NoCall
  <2> QED BY <2>2, <2>3, <2>4, <2>5, <2>6, <2>7, <2>8 DEF Orderly
<1> QED BY <1>1, <1>2, <1>3, <1>4 DEF ConnInv

LEMMA ReplyToNobodyKeepsConn ==
    ASSUME ConnInv, NEW r \in ConnectCalls, ReplyToNobody(r)
    PROVE  ConnInv'
<1> USE ConnPageAssumption DEF ReplyToNobody, daemonConnVars, pushVars, historyVars
<1>1. ConnPageTypeOK' BY DEF ConnInv, ConnPageTypeOK, CallStates, NoCall, CallsTell
<1>2. ConnTraced'
  BY DEF ConnInv, ConnPageTypeOK, CallStates, NoCall, ConnTraced, CallsTell, Traceable,
         IsActive
<1>3. CallsTell' BY DEF ConnInv, ConnPageTypeOK, CallStates, NoCall, CallsTell
<1>4. ASSUME NEW b \in Accounts \ raced' PROVE Orderly(b)'
  <2>1. b \in Accounts \ raced /\ Orderly(b) BY DEF ConnInv, ConnPageTypeOK
  <2>2. OneLife(b)'
    BY <2>1 DEF ConnInv, ConnPageTypeOK, CallsTell, Orderly, OneLife, NoneMeanwhile,
            LivesFor, Quiet, Waiting, NoCall
  <2>3. OneRequest(b)'
    BY <2>1 DEF ConnInv, ConnPageTypeOK, CallsTell, Orderly, OneRequest, Quiet, NoCall
  <2>4. NoneMeanwhile(b)'
    BY <2>1 DEF ConnInv, ConnPageTypeOK, CallsTell, Orderly, OneLife, OneRequest,
           NoneMeanwhile, AsksLater, Apart, TunnelHolds, LivesFor, Quiet, Waiting, EventOf,
           NoCall
  <2>5. AsksLater(b)'
    BY <2>1 DEF ConnInv, ConnPageTypeOK, CallsTell, Orderly, OneRequest, NoneMeanwhile,
           AsksLater, Apart, TunnelHolds, LivesFor, Quiet, Waiting, EventOf, NoCall
  <2>6. ReplyNamesIt(b)'
    BY <2>1 DEF ConnInv, ConnPageTypeOK, CallsTell, Orderly, OneRequest, NoneMeanwhile,
           ReplyNamesIt, LivesFor, Quiet, Waiting, NoCall
  <2>7. InSight(b)'
    BY <2>1 DEF ConnInv, ConnPageTypeOK, CallsTell, ConnTraced, Orderly, InSight,
           NoneMeanwhile, ReplyNamesIt, LivesFor, EventOf, Quiet, NoCall
  <2>8. Apart(b)'
    BY <2>1 DEF ConnInv, ConnPageTypeOK, CallsTell, Orderly, Apart, TunnelHolds, LivesFor,
           Quiet, NoCall
  <2> QED BY <2>2, <2>3, <2>4, <2>5, <2>6, <2>7, <2>8 DEF Orderly
<1> QED BY <1>1, <1>2, <1>3, <1>4 DEF ConnInv

LEMMA TunnelLooksUpKeepsConn ==
    ASSUME ConnInv, NEW a \in Accounts, TunnelLooksUp(a)
    PROVE  ConnInv'
<1> USE ConnPageAssumption DEF TunnelLooksUp, daemonConnVars, pushVars, historyVars
<1>1. ConnPageTypeOK'
  <2>1. PICK c \in LiveIds :
            /\ owner[c] = NoAccount /\ owner' = [owner EXCEPT ![c] = a]
            /\ tunnelDials' = tunnelDials \cup {c} /\ byTunnel' = byTunnel \cup {c}
    OBVIOUS
  <2>2. owner' \in [LiveIds -> Accounts \cup {NoAccount}]
    BY <2>1 DEF ConnInv, ConnPageTypeOK
  <2>3. {x \in LiveIds : owner[x] # NoAccount} \cup {c} \subseteq
            {x \in LiveIds : owner'[x] # NoAccount}
    BY <2>1 DEF ConnInv, ConnPageTypeOK
  <2>4. tunnelDials' \subseteq byTunnel' BY <2>1 DEF ConnInv, ConnPageTypeOK
  <2>5. byTunnel' \subseteq {x \in LiveIds : owner'[x] # NoAccount}
    BY <2>1, <2>3 DEF ConnInv, ConnPageTypeOK
  <2>6. alive' \subseteq {x \in LiveIds : owner'[x] # NoAccount}
    BY <2>3 DEF ConnInv, ConnPageTypeOK
  <2>7. raced' \subseteq Accounts BY DEF ConnInv, ConnPageTypeOK
  <2> QED BY <2>2, <2>4, <2>5, <2>6, <2>7 DEF ConnInv, ConnPageTypeOK
<1>2. ConnTraced'
  <2>1. PICK c \in LiveIds : owner[c] = NoAccount /\ owner' = [owner EXCEPT ![c] = a]
    OBVIOUS
  <2>2. \A x \in LiveIds : owner[x] \in Accounts => owner'[x] = owner[x]
    BY <2>1 DEF ConnInv, ConnPageTypeOK
  <2>3. \A x : Traceable(x)' = Traceable(x) BY DEF Traceable
  <2>4. \A x \in Accounts : IsActive(x) => activeConnIds[x] \in LiveIds
    BY DEF ConnInv, ConnPageTypeOK, IsActive
  <2>5. \A r \in ConnectCalls : connects[r].conn # NoLive =>
            connects[r].conn \in LiveIds /\ connects[r].account \in Accounts
    BY DEF ConnInv, ConnPageTypeOK, CallsTell
  <2>6. \A e \in ending \cup downEvents : e.conn \in LiveIds /\ e.account \in Accounts
    BY DEF ConnInv, ConnPageTypeOK, DownEvent
  <2> QED BY <2>2, <2>3, <2>4, <2>5, <2>6 DEF ConnInv, ConnTraced, IsActive
<1>3. CallsTell' BY DEF ConnInv, ConnPageTypeOK, CallsTell
<1>4. ASSUME NEW b \in Accounts \ raced' PROVE Orderly(b)'
  <2>1. b \in Accounts \ raced /\ Orderly(b) BY DEF ConnInv, ConnPageTypeOK
  <2>2. OneLife(b)' BY <2>1 DEF ConnInv, ConnPageTypeOK, Orderly, OneLife, LivesFor
  <2>3. OneRequest(b)' BY <2>1 DEF Orderly, OneRequest
  <2>4. NoneMeanwhile(b)'
    BY <2>1 DEF ConnInv, ConnPageTypeOK, Orderly, NoneMeanwhile, LivesFor, Waiting, EventOf
  <2>5. AsksLater(b)' BY <2>1 DEF Orderly, AsksLater, Waiting, EventOf
  <2>6. ReplyNamesIt(b)'
    BY <2>1 DEF ConnInv, ConnPageTypeOK, Orderly, ReplyNamesIt, LivesFor
  <2>7. InSight(b)' BY <2>1 DEF ConnInv, ConnPageTypeOK, Orderly, InSight, LivesFor
  <2>8. Apart(b)'
    BY <2>1 DEF ConnInv, ConnPageTypeOK, Orderly, Apart, TunnelHolds, LivesFor, Quiet
  <2> QED BY <2>2, <2>3, <2>4, <2>5, <2>6, <2>7, <2>8 DEF Orderly
<1> QED BY <1>1, <1>2, <1>3, <1>4 DEF ConnInv

LEMMA TunnelConnectsKeepsConn ==
    ASSUME ConnInv, NEW c \in LiveIds, TunnelConnects(c)
    PROVE  ConnInv'
<1> USE ConnPageAssumption DEF TunnelConnects, daemonConnVars, pushVars, historyVars
<1>1. ConnPageTypeOK' BY DEF ConnInv, ConnPageTypeOK
<1>2. ConnTraced' BY DEF ConnInv, ConnPageTypeOK, ConnTraced, Traceable, IsActive
<1>3. CallsTell' BY DEF ConnInv, ConnPageTypeOK, CallsTell
<1>4. ASSUME NEW b \in Accounts \ raced' PROVE Orderly(b)'
  <2>1. b \in Accounts \ raced /\ Orderly(b) BY DEF ConnInv, ConnPageTypeOK
  <2>2. OneLife(b)' BY <2>1 DEF ConnInv, ConnPageTypeOK, Orderly, OneLife, LivesFor
  <2>3. OneRequest(b)' BY <2>1 DEF Orderly, OneRequest
  <2>4. NoneMeanwhile(b)'
    BY <2>1 DEF ConnInv, ConnPageTypeOK, Orderly, NoneMeanwhile, LivesFor, Waiting, EventOf
  <2>5. AsksLater(b)' BY <2>1 DEF Orderly, AsksLater, Waiting, EventOf
  <2>6. ReplyNamesIt(b)'
    BY <2>1 DEF ConnInv, ConnPageTypeOK, Orderly, ReplyNamesIt, LivesFor
  <2>7. InSight(b)' BY <2>1 DEF ConnInv, ConnPageTypeOK, Orderly, InSight, LivesFor
  <2>8. Apart(b)'
    BY <2>1 DEF ConnInv, ConnPageTypeOK, Orderly, Apart, TunnelHolds, LivesFor, Quiet
  <2> QED BY <2>2, <2>3, <2>4, <2>5, <2>6, <2>7, <2>8 DEF Orderly
<1> QED BY <1>1, <1>2, <1>3, <1>4 DEF ConnInv

LEMMA TunnelDialFailsKeepsConn ==
    ASSUME ConnInv, NEW c \in LiveIds, TunnelDialFails(c)
    PROVE  ConnInv'
<1> USE ConnPageAssumption DEF TunnelDialFails, daemonConnVars, pushVars, historyVars
<1>1. ConnPageTypeOK' BY DEF ConnInv, ConnPageTypeOK
<1>2. ConnTraced' BY DEF ConnInv, ConnPageTypeOK, ConnTraced, Traceable, IsActive
<1>3. CallsTell' BY DEF ConnInv, ConnPageTypeOK, CallsTell
<1>4. ASSUME NEW b \in Accounts \ raced' PROVE Orderly(b)'
  <2>1. b \in Accounts \ raced /\ Orderly(b) BY DEF ConnInv, ConnPageTypeOK
  <2>2. OneLife(b)' BY <2>1 DEF ConnInv, ConnPageTypeOK, Orderly, OneLife, LivesFor
  <2>3. OneRequest(b)' BY <2>1 DEF Orderly, OneRequest
  <2>4. NoneMeanwhile(b)'
    BY <2>1 DEF ConnInv, ConnPageTypeOK, Orderly, NoneMeanwhile, LivesFor, Waiting, EventOf
  <2>5. AsksLater(b)' BY <2>1 DEF Orderly, AsksLater, Waiting, EventOf
  <2>6. ReplyNamesIt(b)'
    BY <2>1 DEF ConnInv, ConnPageTypeOK, Orderly, ReplyNamesIt, LivesFor
  <2>7. InSight(b)' BY <2>1 DEF ConnInv, ConnPageTypeOK, Orderly, InSight, LivesFor
  <2>8. Apart(b)'
    BY <2>1 DEF ConnInv, ConnPageTypeOK, Orderly, Apart, TunnelHolds, LivesFor, Quiet
  <2> QED BY <2>2, <2>3, <2>4, <2>5, <2>6, <2>7, <2>8 DEF Orderly
<1> QED BY <1>1, <1>2, <1>3, <1>4 DEF ConnInv

LEMMA ConnectionLostKeepsConn ==
    ASSUME ConnInv, NEW c \in LiveIds, ConnectionLost(c)
    PROVE  ConnInv'
<1> USE ConnPageAssumption DEF ConnectionLost, DownEvent, daemonConnVars, pushVars, historyVars
<1> DEFINE end == [account |-> owner[c], conn |-> c, user |-> FALSE]
<1>0. end \in DownEvent BY DEF ConnInv, ConnPageTypeOK
<1>1. ConnPageTypeOK'
  <2>1. ending' \subseteq DownEvent BY <1>0 DEF ConnInv, ConnPageTypeOK
  <2>2. alive' \subseteq {x \in LiveIds : owner'[x] # NoAccount} BY DEF ConnInv, ConnPageTypeOK
  <2> HIDE DEF DownEvent
  <2> QED BY <2>1, <2>2 DEF ConnInv, ConnPageTypeOK
<1>2. ConnTraced'
  <2>1. owner' = owner /\ alive' = alive \ {c} /\ ending' = ending \cup {end} /\ end.conn = c
    OBVIOUS
  <2> HIDE DEF end
  <2>2. \A x : Traceable(x) => Traceable(x)' BY <2>1 DEF Traceable
  <2>3. end.account = owner[c] BY DEF end
  <2>4. \A e \in (ending \cup downEvents)' : owner[e.conn] = e.account
    BY <2>1, <2>3 DEF ConnInv, ConnTraced
  <2> QED BY <2>1, <2>2, <2>4 DEF ConnInv, ConnTraced, IsActive
<1>3. CallsTell' BY DEF ConnInv, ConnPageTypeOK, CallStates, NoCall, CallsTell
<1>4. ASSUME NEW b \in Accounts \ raced' PROVE Orderly(b)'
  <2>1. b \in Accounts \ raced /\ Orderly(b) BY DEF ConnInv, ConnPageTypeOK
  <2>2. OneLife(b)'
    BY <2>1 DEF ConnInv, ConnPageTypeOK, CallsTell, Orderly, OneLife, NoneMeanwhile,
            LivesFor, Quiet, Waiting, NoCall
  <2>3. OneRequest(b)'
    BY <2>1 DEF ConnInv, ConnPageTypeOK, CallsTell, Orderly, OneRequest, Quiet, NoCall
  <2>4. NoneMeanwhile(b)'
    BY <2>1 DEF ConnInv, ConnPageTypeOK, CallsTell, Orderly, OneLife, OneRequest,
           NoneMeanwhile, AsksLater, Apart, TunnelHolds, LivesFor, Quiet, Waiting, EventOf,
           NoCall
  <2>5. AsksLater(b)'
    BY <2>1 DEF ConnInv, ConnPageTypeOK, CallsTell, Orderly, OneRequest, NoneMeanwhile,
           AsksLater, Apart, TunnelHolds, LivesFor, Quiet, Waiting, EventOf, NoCall
  <2>6. ReplyNamesIt(b)'
    BY <2>1 DEF ConnInv, ConnPageTypeOK, CallsTell, Orderly, OneRequest, NoneMeanwhile,
           ReplyNamesIt, LivesFor, Quiet, Waiting, NoCall
  <2>7. InSight(b)'
    BY <2>1 DEF ConnInv, ConnPageTypeOK, CallsTell, ConnTraced, Orderly, InSight,
           NoneMeanwhile, ReplyNamesIt, LivesFor, EventOf, Quiet, NoCall
  <2>8. Apart(b)'
    BY <2>1 DEF ConnInv, ConnPageTypeOK, CallsTell, Orderly, Apart, TunnelHolds, LivesFor,
           Quiet, NoCall
  <2> QED BY <2>2, <2>3, <2>4, <2>5, <2>6, <2>7, <2>8 DEF Orderly
<1> QED BY <1>1, <1>2, <1>3, <1>4 DEF ConnInv

LEMMA EmitDownKeepsConn ==
    ASSUME ConnInv, NEW e \in ending, EmitDown(e)
    PROVE  ConnInv'
<1> USE ConnPageAssumption DEF EmitDown, DownEvent, daemonConnVars, pushVars, historyVars
<1>1. ConnPageTypeOK' BY DEF ConnInv, ConnPageTypeOK, CallStates, NoCall, CallsTell
<1>2. ConnTraced'
  BY DEF ConnInv, ConnPageTypeOK, CallStates, NoCall, ConnTraced, CallsTell, Traceable,
         IsActive
<1>3. CallsTell' BY DEF ConnInv, ConnPageTypeOK, CallStates, NoCall, CallsTell
<1>4. ASSUME NEW b \in Accounts \ raced' PROVE Orderly(b)'
  <2>1. b \in Accounts \ raced /\ Orderly(b) BY DEF ConnInv, ConnPageTypeOK
  <2>2. OneLife(b)'
    BY <2>1 DEF ConnInv, ConnPageTypeOK, CallsTell, Orderly, OneLife, NoneMeanwhile,
            LivesFor, Quiet, Waiting, NoCall
  <2>3. OneRequest(b)'
    BY <2>1 DEF ConnInv, ConnPageTypeOK, CallsTell, Orderly, OneRequest, Quiet, NoCall
  <2>4. NoneMeanwhile(b)'
    BY <2>1 DEF ConnInv, ConnPageTypeOK, CallsTell, Orderly, OneLife, OneRequest,
           NoneMeanwhile, AsksLater, Apart, TunnelHolds, LivesFor, Quiet, Waiting, EventOf,
           NoCall
  <2>5. AsksLater(b)'
    BY <2>1 DEF ConnInv, ConnPageTypeOK, CallsTell, Orderly, OneRequest, NoneMeanwhile,
           AsksLater, Apart, TunnelHolds, LivesFor, Quiet, Waiting, EventOf, NoCall
  <2>6. ReplyNamesIt(b)'
    BY <2>1 DEF ConnInv, ConnPageTypeOK, CallsTell, Orderly, OneRequest, NoneMeanwhile,
           ReplyNamesIt, LivesFor, Quiet, Waiting, NoCall
  <2>7. InSight(b)'
    BY <2>1 DEF ConnInv, ConnPageTypeOK, CallsTell, ConnTraced, Orderly, InSight,
           NoneMeanwhile, ReplyNamesIt, LivesFor, EventOf, Quiet, NoCall
  <2>8. Apart(b)'
    BY <2>1 DEF ConnInv, ConnPageTypeOK, CallsTell, Orderly, Apart, TunnelHolds, LivesFor,
           Quiet, NoCall
  <2> QED BY <2>2, <2>3, <2>4, <2>5, <2>6, <2>7, <2>8 DEF Orderly
<1> QED BY <1>1, <1>2, <1>3, <1>4 DEF ConnInv

LEMMA ConnectionDownArrivesKeepsConn ==
    ASSUME ConnInv, NEW e \in downEvents, ConnectionDownArrives(e)
    PROVE  ConnInv'
<1> USE ConnPageAssumption
       DEF ConnectionDownArrives, DownEvent, MarkConnectionLost, daemonConnVars, pushVars,
           historyVars
<1>1. ConnPageTypeOK' BY DEF ConnInv, ConnPageTypeOK, CallStates, NoCall, CallsTell
<1>2. ConnTraced'
  BY DEF ConnInv, ConnPageTypeOK, CallStates, NoCall, ConnTraced, CallsTell, Traceable,
         IsActive
<1>3. CallsTell' BY DEF ConnInv, ConnPageTypeOK, CallStates, NoCall, CallsTell
<1>4. ASSUME NEW b \in Accounts \ raced' PROVE Orderly(b)'
  <2>1. b \in Accounts \ raced /\ Orderly(b) BY DEF ConnInv, ConnPageTypeOK
  <2>2. OneLife(b)'
    BY <2>1 DEF ConnInv, ConnPageTypeOK, CallsTell, Orderly, OneLife, NoneMeanwhile,
            LivesFor, Quiet, Waiting, NoCall
  <2>3. OneRequest(b)'
    BY <2>1 DEF ConnInv, ConnPageTypeOK, CallsTell, Orderly, OneRequest, Quiet, NoCall
  <2>4. NoneMeanwhile(b)'
    BY <2>1 DEF ConnInv, ConnPageTypeOK, CallsTell, Orderly, OneLife, OneRequest,
           NoneMeanwhile, AsksLater, Apart, TunnelHolds, LivesFor, Quiet, Waiting, EventOf,
           NoCall
  <2>5. AsksLater(b)'
    BY <2>1 DEF ConnInv, ConnPageTypeOK, CallsTell, Orderly, OneRequest, NoneMeanwhile,
           AsksLater, Apart, TunnelHolds, LivesFor, Quiet, Waiting, EventOf, NoCall
  <2>6. ReplyNamesIt(b)'
    BY <2>1 DEF ConnInv, ConnPageTypeOK, CallsTell, Orderly, OneRequest, NoneMeanwhile,
           ReplyNamesIt, LivesFor, Quiet, Waiting, NoCall
  <2>7. InSight(b)'
    BY <2>1 DEF ConnInv, ConnPageTypeOK, CallsTell, ConnTraced, Orderly, InSight,
           NoneMeanwhile, ReplyNamesIt, LivesFor, EventOf, Quiet, NoCall
  <2>8. Apart(b)'
    BY <2>1 DEF ConnInv, ConnPageTypeOK, CallsTell, Orderly, Apart, TunnelHolds, LivesFor,
           Quiet, NoCall
  <2> QED BY <2>2, <2>3, <2>4, <2>5, <2>6, <2>7, <2>8 DEF Orderly
<1> QED BY <1>1, <1>2, <1>3, <1>4 DEF ConnInv

LEMMA SystemSocketDropsKeepsConn ==
    ASSUME ConnInv, SystemSocketDrops
    PROVE  ConnInv'
<1> USE ConnPageAssumption DEF SystemSocketDrops, DownEvent, daemonConnVars, pushVars, historyVars
<1>1. ConnPageTypeOK'
  <2>1. \A e \in downEvents : e.conn \in LiveIds BY DEF ConnInv, ConnPageTypeOK
  <2>2. overtaken' \subseteq LiveIds BY <2>1 DEF ConnInv, ConnPageTypeOK
  <2>3. {}' \subseteq DownEvent OBVIOUS
  <2> HIDE DEF DownEvent
  <2> QED BY <2>2 DEF ConnInv, ConnPageTypeOK
<1>2. ConnTraced'
  BY DEF ConnInv, ConnPageTypeOK, CallStates, NoCall, ConnTraced, CallsTell, Traceable,
         IsActive
<1>3. CallsTell' BY DEF ConnInv, ConnPageTypeOK, CallStates, NoCall, CallsTell
<1>4. ASSUME NEW b \in Accounts \ raced' PROVE Orderly(b)'
  <2>1. b \in Accounts \ raced /\ Orderly(b) BY DEF ConnInv, ConnPageTypeOK
  <2>2. OneLife(b)'
    BY <2>1 DEF ConnInv, ConnPageTypeOK, CallsTell, Orderly, OneLife, NoneMeanwhile,
            LivesFor, Quiet, Waiting, NoCall
  <2>3. OneRequest(b)'
    BY <2>1 DEF ConnInv, ConnPageTypeOK, CallsTell, Orderly, OneRequest, Quiet, NoCall
  <2>4. NoneMeanwhile(b)'
    BY <2>1 DEF ConnInv, ConnPageTypeOK, CallsTell, Orderly, OneLife, OneRequest,
           NoneMeanwhile, AsksLater, Apart, TunnelHolds, LivesFor, Quiet, Waiting, EventOf,
           NoCall
  <2>5. AsksLater(b)'
    BY <2>1 DEF ConnInv, ConnPageTypeOK, CallsTell, Orderly, OneRequest, NoneMeanwhile,
           AsksLater, Apart, TunnelHolds, LivesFor, Quiet, Waiting, EventOf, NoCall
  <2>6. ReplyNamesIt(b)'
    BY <2>1 DEF ConnInv, ConnPageTypeOK, CallsTell, Orderly, OneRequest, NoneMeanwhile,
           ReplyNamesIt, LivesFor, Quiet, Waiting, NoCall
  <2>7. InSight(b)'
    BY <2>1 DEF ConnInv, ConnPageTypeOK, CallsTell, ConnTraced, Orderly, InSight,
           NoneMeanwhile, ReplyNamesIt, LivesFor, EventOf, Quiet, NoCall
  <2>8. Apart(b)'
    BY <2>1 DEF ConnInv, ConnPageTypeOK, CallsTell, Orderly, Apart, TunnelHolds, LivesFor,
           Quiet, NoCall
  <2> QED BY <2>2, <2>3, <2>4, <2>5, <2>6, <2>7, <2>8 DEF Orderly
<1> QED BY <1>1, <1>2, <1>3, <1>4 DEF ConnInv

LEMMA TrustBeginsKeepsConn ==
    ASSUME ConnInv, TrustBegins
    PROVE  ConnInv'
<1> USE ConnPageAssumption DEF TrustBegins, daemonConnVars, pushVars, historyVars
<1>1. ConnPageTypeOK' BY DEF ConnInv, ConnPageTypeOK, CallStates
<1> QED BY <1>1, ConnFrame

LEMMA TrustCancelledKeepsConn ==
    ASSUME ConnInv, TrustCancelled
    PROVE  ConnInv'
<1> USE ConnPageAssumption DEF TrustCancelled, daemonConnVars, pushVars, historyVars
<1>1. ConnPageTypeOK' BY DEF ConnInv, ConnPageTypeOK, CallStates
<1> QED BY <1>1, ConnFrame

LEMMA TrustReplyErrorKeepsConn ==
    ASSUME ConnInv, TrustReplyError
    PROVE  ConnInv'
<1> USE ConnPageAssumption DEF TrustReplyError, daemonConnVars, pushVars, historyVars
<1>1. ConnPageTypeOK' BY DEF ConnInv, ConnPageTypeOK, CallStates
<1> QED BY <1>1, ConnFrame

LEMMA PageReloadsKeepsConn ==
    ASSUME ConnInv, PageReloads
    PROVE  ConnInv'
<1> USE ConnPageAssumption DEF PageReloads, DownEvent, daemonConnVars, pushVars, historyVars
<1>1. ConnPageTypeOK' BY DEF ConnInv, ConnPageTypeOK, CallStates, NoCall, CallsTell
<1>2. ConnTraced'
  BY DEF ConnInv, ConnPageTypeOK, CallStates, NoCall, ConnTraced, CallsTell, Traceable,
         IsActive
<1>3. CallsTell' BY DEF ConnInv, ConnPageTypeOK, CallStates, NoCall, CallsTell
<1>4. ASSUME NEW b \in Accounts \ raced' PROVE Orderly(b)'
  <2>1. b \in Accounts \ raced /\ Orderly(b) BY DEF ConnInv, ConnPageTypeOK
  <2>2. OneLife(b)'
    BY <2>1 DEF ConnInv, ConnPageTypeOK, CallsTell, Orderly, OneLife, NoneMeanwhile,
            LivesFor, Quiet, Waiting, NoCall
  <2>3. OneRequest(b)'
    BY <2>1 DEF ConnInv, ConnPageTypeOK, CallsTell, Orderly, OneRequest, Quiet, NoCall
  <2>4. NoneMeanwhile(b)'
    BY <2>1 DEF ConnInv, ConnPageTypeOK, CallsTell, Orderly, OneLife, OneRequest,
           NoneMeanwhile, AsksLater, Apart, TunnelHolds, LivesFor, Quiet, Waiting, EventOf,
           NoCall
  <2>5. AsksLater(b)'
    BY <2>1 DEF ConnInv, ConnPageTypeOK, CallsTell, Orderly, OneRequest, NoneMeanwhile,
           AsksLater, Apart, TunnelHolds, LivesFor, Quiet, Waiting, EventOf, NoCall
  <2>6. ReplyNamesIt(b)'
    BY <2>1 DEF ConnInv, ConnPageTypeOK, CallsTell, Orderly, OneRequest, NoneMeanwhile,
           ReplyNamesIt, LivesFor, Quiet, Waiting, NoCall
  <2>7. InSight(b)'
    BY <2>1 DEF ConnInv, ConnPageTypeOK, CallsTell, ConnTraced, Orderly, InSight,
           NoneMeanwhile, ReplyNamesIt, LivesFor, EventOf, Quiet, NoCall
  <2>8. Apart(b)'
    BY <2>1 DEF ConnInv, ConnPageTypeOK, CallsTell, Orderly, Apart, TunnelHolds, LivesFor,
           Quiet, NoCall
  <2> QED BY <2>2, <2>3, <2>4, <2>5, <2>6, <2>7, <2>8 DEF Orderly
<1> QED BY <1>1, <1>2, <1>3, <1>4 DEF ConnInv

LEMMA ConnInitially == ConnPageInit => ConnInv
<1> SUFFICES ASSUME ConnPageInit PROVE ConnInv OBVIOUS
<1> USE ConnPageAssumption DEF ConnPageInit, NoCall
<1>1. ConnPageTypeOK BY DEF ConnPageTypeOK, CallStates
<1>2. ConnTraced BY DEF ConnTraced, IsActive
<1>3. CallsTell BY DEF CallsTell
<1>4. ASSUME NEW a \in Accounts PROVE Orderly(a)
  BY DEF Orderly, OneLife, OneRequest, NoneMeanwhile, AsksLater, ReplyNamesIt, InSight,
         Apart, Waiting, EventOf, LivesFor, TunnelHolds
<1> QED BY <1>1, <1>2, <1>3, <1>4 DEF ConnInv

LEMMA ConnStep == ConnInv /\ [ConnPageNext]_connPageVars => ConnInv'
<1> SUFFICES ASSUME ConnInv, [ConnPageNext]_connPageVars PROVE ConnInv'
  OBVIOUS
<1>1. CASE UNCHANGED connPageVars
  <2>1. ConnPageTypeOK' BY <1>1 DEF ConnInv, ConnPageTypeOK, connPageVars
  <2> QED BY <1>1, <2>1, ConnFrame DEF connPageVars
<1>2. ASSUME NEW a \in Accounts,
             \/ ConnectFromCard(a) \/ ConnectFromDashboard(a) \/ ConnectFromTerminal(a)
             \/ DisconnectBegins(a) \/ DaemonDisconnects(a) \/ DisconnectReply(a)
             \/ CardAlertCleared(a) \/ DaemonTrusts(a) \/ TrustReplyOk(a)
             \/ TunnelLooksUp(a)
      PROVE  ConnInv'
  BY <1>2, ConnectFromCardKeepsConn, ConnectFromDashboardKeepsConn,
     ConnectFromTerminalKeepsConn, DisconnectBeginsKeepsConn, DaemonDisconnectsKeepsConn,
     DisconnectReplyKeepsConn, CardAlertClearedKeepsConn, DaemonTrustsKeepsConn,
     TrustReplyOkKeepsConn, TunnelLooksUpKeepsConn
<1>3. ASSUME NEW r \in ConnectCalls,
             \/ DaemonConnects(r) \/ DaemonRefuses(r)
             \/ ConnectReplyOk(r) \/ ConnectReplyError(r) \/ ReplyToNobody(r)
      PROVE  ConnInv'
  BY <1>3, DaemonConnectsKeepsConn, DaemonRefusesKeepsConn, ConnectReplyOkKeepsConn,
     ConnectReplyErrorKeepsConn, ReplyToNobodyKeepsConn
<1> QED
  BY <1>1, <1>2, <1>3, ConnectionLostKeepsConn, TunnelConnectsKeepsConn,
     TunnelDialFailsKeepsConn, EmitDownKeepsConn,
     ConnectionDownArrivesKeepsConn, SystemSocketDropsKeepsConn, TrustBeginsKeepsConn,
     TrustCancelledKeepsConn, TrustReplyErrorKeepsConn, PageReloadsKeepsConn
  DEF ConnPageNext

LEMMA ConnInvariant == ConnPageSpec => []ConnInv
BY ConnInitially, ConnStep, PTL DEF ConnPageSpec

\* Every variable of connectionStore, of its requests and events, and of the
\* daemon's map of connections keeps its type.
THEOREM ConnectionTypes == ConnPageSpec => []ConnPageTypeOK
<1>1. ConnInv => ConnPageTypeOK BY DEF ConnInv
<1> QED BY <1>1, ConnInvariant, PTL

\* However connects, disconnects, losses, reloads and events cross: a card that
\* says "live" names a connection of the daemon's map, or one whose end is still
\* being told, was told to no socket, or overtook the connect's reply.
THEOREM CardsAreLive == ConnPageSpec => []LiveCardsAreLive
<1>1. ConnInv => LiveCardsAreLive BY DEF ConnInv, ConnTraced, Traceable, LiveCardsAreLive
<1> QED BY <1>1, ConnInvariant, PTL

\* For any number of accounts, requests and connections, those of tunnels' starts among
\* them: the page shows every live connection that it asked for, or its reply is under
\* way, unless the page was reloaded or the account was connected, by the page or by a
\* tunnel's start, while something else of it was under way.
THEOREM NoneGoesAstray == ConnPageSpec => []NoConnectionGoesAstray
<1>1. ConnInv => NoConnectionGoesAstray
  <2> SUFFICES ASSUME ConnInv, NEW c \in alive \ byTunnel, owner[c] \notin raced
               PROVE  \/ activeConnIds[owner[c]] = c
                      \/ \E r \in ConnectCalls : connects[r].conn = c
    BY DEF NoConnectionGoesAstray
  <2>1. owner[c] \in Accounts \ raced BY DEF ConnInv, ConnPageTypeOK
  <2> QED BY <2>1 DEF ConnInv, Orderly, InSight, LivesFor
<1> QED BY <1>1, ConnInvariant, PTL

--------------------------------------------------------------------------------
(*****************************************************************************)
(* The tunnels: TunnelInv.                                                   *)
(*****************************************************************************)

Row == RowStatus \cup {"deleted"}
EventsOn(t) == {i \in 1..Len(tunnelEvents) : t \in DOMAIN tunnelEvents[i]}

\* What the requests, the events and a list on its way can be.
MessagesFit ==
    /\ tunnelEvents \in Seq(AnyRows)
    /\ ~tunnelSocket => tunnelEvents = <<>>
    /\ listing = NoRows \/ listing \in [Tunnels -> RowStatus]
    /\ \A r \in TunnelCalls :
        LET call == tunnelCalls[r]
        IN  /\ call.at = "idle" <=> call.op = "none"
            /\ call.op = "none" <=> call.tunnel = NoTunnel
            /\ call.at = "ok" => DOMAIN call.rows = {call.tunnel}
            /\ call.at = "failed" => call.rows = NoRows
            /\ call.op \in {"start", "stop"} /\ call.at = "ok" =>
                call.rows[call.tunnel] \notin {"absent", "deleted"}

\* Nothing is known of a row that is not created yet.
NotYet(t) ==
    /\ shownStatus[t] = "absent" /\ EventsOn(t) = {}
    /\ listing = NoRows \/ listing[t] = "absent"
    /\ \A r \in TunnelCalls : tunnelCalls[r].tunnel = t =>
        tunnelCalls[r].op = "create" /\ tunnelCalls[r].at \in {"sent", "failed"}
CreatedLater == \A t \in Tunnels : daemonStatus[t] = "absent" => NotYet(t)

\* A request to create a row finds it missing, and is the only one on it until then;
\* once deleted, it stays so.
CallsKnow ==
    \A r \in TunnelCalls :
        /\ tunnelCalls[r].op = "create" /\ tunnelCalls[r].at \in {"sent", "failed"} =>
            /\ daemonStatus[tunnelCalls[r].tunnel] = "absent"
            /\ \A s \in TunnelCalls \ {r} : tunnelCalls[s].tunnel # tunnelCalls[r].tunnel
        /\ tunnelCalls[r].op = "delete" /\ tunnelCalls[r].at = "ok" =>
            daemonStatus[tunnelCalls[r].tunnel] = "deleted"

\* The last event on a row has the row's status, or the row was deleted after it.
NewsOf(t) ==
    \A i \in EventsOn(t) :
        /\ tunnelEvents[i][t] \notin {"absent", "deleted"}
        /\ (\A j \in EventsOn(t) : j <= i) =>
            daemonStatus[t] \in {tunnelEvents[i][t], "deleted"}
News == \A t \in Tunnels : NewsOf(t)

CallOn(t, op, at) ==
    \E r \in TunnelCalls :
        tunnelCalls[r].tunnel = t /\ tunnelCalls[r].op = op /\ tunnelCalls[r].at = at

\* The page shows the row as it is, or what will make it right is on its way.
RowSettles(t) ==
    /\ daemonStatus[t] = "deleted" => shownStatus[t] = "absent" \/ CallOn(t, "delete", "ok")
    /\ daemonStatus[t] \notin {"absent", "deleted"} =>
        IF shownStatus[t] = "absent" THEN CallOn(t, "create", "ok")
        ELSE EventsOn(t) # {} \/ shownStatus[t] = daemonStatus[t]
Settling == tunnelSocket /\ ~outdated => \A t \in Tunnels \ doubled : RowSettles(t)

\* A flag of a list that no other row took stands for the one request of its row that
\* the list has sent.
Sender(r) == tunnelCalls[r].op \in RowOps /\ ~tunnelCalls[r].left
FlagsStand ==
    ~clobbered => \A r \in TunnelCalls : Sender(r) =>
        /\ busy[ListOf(tunnelCalls[r].tunnel)] = tunnelCalls[r].tunnel
        /\ \A s \in TunnelCalls : Sender(s) /\ r # s =>
                tunnelCalls[s].tunnel # tunnelCalls[r].tunnel

TunnelTypes == TunnelPageTypeOK /\ MessagesFit
TunnelInv == TunnelTypes /\ CreatedLater /\ CallsKnow /\ News /\ Settling /\ FlagsStand

-----------------------------------------------------------------------------
LEMMA OneRowFits ==
    ASSUME NEW t \in Tunnels, NEW status \in Row
    PROVE  /\ OneRow(t, status) \in AnyRows /\ DOMAIN OneRow(t, status) = {t}
           /\ OneRow(t, status)[t] = status
BY DEF OneRow, AnyRows, RowsOf, Row

LEMMA RowsFit ==
    /\ NoRows \in AnyRows /\ DOMAIN NoRows = {} /\ AllRows \subseteq AnyRows
    /\ \A rows \in AnyRows : \A t \in DOMAIN rows : t \in Tunnels /\ rows[t] \in Row
    /\ \A rows \in AllRows : DOMAIN rows = Tunnels
    /\ NoTunnelCall.rows = NoRows
<1>1. NoRows \in RowsOf({}) /\ DOMAIN NoRows = {} BY DEF NoRows, RowsOf
<1>2. NoTunnelCall.rows = NoRows BY DEF NoTunnelCall
<1>3. AllRows \subseteq AnyRows BY DEF AnyRows
<1>4. \A rows \in AllRows : DOMAIN rows = Tunnels BY DEF AllRows, RowsOf
<1>5. ASSUME NEW rows \in AnyRows, NEW t \in DOMAIN rows
      PROVE  t \in Tunnels /\ rows[t] \in Row
  <2>1. PICK some \in SUBSET Tunnels : rows \in RowsOf(some)
    BY DEF AnyRows, AllRows
  <2> QED BY <2>1 DEF RowsOf, Row
<1>6. NoRows \in AnyRows BY <1>1 DEF AnyRows
<1> QED BY <1>1, <1>2, <1>3, <1>4, <1>5, <1>6

\* Reading the calls: what a request names, and what it may carry.
LEMMA CallFits ==
    ASSUME TunnelTypes, NEW r \in TunnelCalls, tunnelCalls[r].at # "idle"
    PROVE  /\ tunnelCalls[r].tunnel \in Tunnels /\ tunnelCalls[r].tunnel # NoTunnel
           /\ tunnelCalls[r].op \in RowOps \cup {"create"}
           /\ tunnelCalls[r].at \in {"sent", "ok", "failed"}
           /\ tunnelCalls[r].rows \in AnyRows
BY TunnelPageAssumption DEF TunnelTypes, TunnelPageTypeOK, MessagesFit, RowOps

TunnelCall ==
    [op : RowOps \cup {"none", "create"}, tunnel : Tunnels \cup {NoTunnel},
     at : {"idle", "sent", "ok", "failed"}, rows : AnyRows, left : BOOLEAN]

LEMMA CallsMade ==
    /\ NoTunnelCall \in TunnelCall
    /\ \A t \in Tunnels, op \in RowOps \cup {"create"} :
        [op |-> op, tunnel |-> t, at |-> "sent", rows |-> NoRows, left |-> FALSE] \in TunnelCall
BY RowsFit DEF NoTunnelCall, TunnelCall

\* The frame of the events: Append and Tail.
LEMMA EventAppended ==
    ASSUME tunnelEvents \in Seq(AnyRows), NEW e \in AnyRows,
           tunnelEvents' = Append(tunnelEvents, e)
    PROVE  /\ tunnelEvents' \in Seq(AnyRows) /\ Len(tunnelEvents') = Len(tunnelEvents) + 1
           /\ Len(tunnelEvents) \in Nat
           /\ \A t : EventsOn(t)' = EventsOn(t) \cup
                        (IF t \in DOMAIN e THEN {Len(tunnelEvents) + 1} ELSE {})
           /\ \A i \in 1..Len(tunnelEvents) : tunnelEvents'[i] = tunnelEvents[i]
           /\ tunnelEvents'[Len(tunnelEvents) + 1] = e
<1>1. /\ tunnelEvents' \in Seq(AnyRows) /\ Len(tunnelEvents') = Len(tunnelEvents) + 1
      /\ Len(tunnelEvents) \in Nat
      /\ \A i \in 1..Len(tunnelEvents) : tunnelEvents'[i] = tunnelEvents[i]
      /\ tunnelEvents'[Len(tunnelEvents) + 1] = e
  OBVIOUS
<1>2. ASSUME NEW t
      PROVE  EventsOn(t)' = EventsOn(t) \cup
                (IF t \in DOMAIN e THEN {Len(tunnelEvents) + 1} ELSE {})
  BY <1>1 DEF EventsOn
<1> QED BY <1>1, <1>2

LEMMA EventTaken ==
    ASSUME tunnelEvents \in Seq(AnyRows), tunnelEvents # <<>>,
           tunnelEvents' = Tail(tunnelEvents)
    PROVE  /\ tunnelEvents' \in Seq(AnyRows) /\ Len(tunnelEvents') = Len(tunnelEvents) - 1
           /\ Len(tunnelEvents) \in Nat \ {0} /\ tunnelEvents[1] = Head(tunnelEvents)
           /\ Head(tunnelEvents) \in AnyRows
           /\ \A i \in 1..Len(tunnelEvents') : tunnelEvents'[i] = tunnelEvents[i + 1]
           /\ \A t : EventsOn(t)' = {i \in 1..Len(tunnelEvents') : i + 1 \in EventsOn(t)}
<1>1. /\ tunnelEvents' \in Seq(AnyRows) /\ Len(tunnelEvents') = Len(tunnelEvents) - 1
      /\ Len(tunnelEvents) \in Nat \ {0} /\ tunnelEvents[1] = Head(tunnelEvents)
      /\ Head(tunnelEvents) \in AnyRows
      /\ \A i \in 1..Len(tunnelEvents') : tunnelEvents'[i] = tunnelEvents[i + 1]
  OBVIOUS
<1>2. ASSUME NEW t
      PROVE  EventsOn(t)' = {i \in 1..Len(tunnelEvents') : i + 1 \in EventsOn(t)}
  BY <1>1 DEF EventsOn
<1> QED BY <1>1, <1>2

\* What a handler makes of a row, in each case.
LEMMA OutcomesFit ==
    ASSUME NEW op \in RowOps \cup {"create"}, NEW status \in Row,
           op = "create" => status = "absent", op \in RowOps => status # "absent",
           NEW t, NEW out \in Outcomes(op, t, status)
    PROVE  /\ out[1] \in Row /\ out[2] \in {"ok", "failed"}
           /\ op = "create" => out[1] = IF out[2] = "ok" THEN "stopped" ELSE "absent"
           /\ op # "create" => out[1] # "absent"
           /\ op = "delete" => out[1] = "deleted" /\ out[2] = "ok"
           /\ op \in {"start", "stop"} =>
                IF status = "deleted" THEN out[1] = "deleted" /\ out[2] = "failed"
                ELSE out[1] # "deleted"
BY DEF Outcomes, RowOps, Row, RowStatus

LEMMA TypesKept ==
    ASSUME TunnelPageTypeOK,
           tunnelCalls' \in [TunnelCalls -> TunnelCall],
           daemonStatus' \in AllRows, shownStatus' \in [Tunnels -> RowStatus],
           doubled' \subseteq Tunnels, busy' \in [Lists -> Tunnels \cup {NoTunnel}],
           \/ UNCHANGED tunnelEvents
           \/ tunnelEvents' \in Seq(AnyRows) /\ Len(tunnelEvents') <= EventCap,
           listing' \in AnyRows,
           tunnelSocket' \in BOOLEAN, clobbered' \in BOOLEAN, outdated' \in BOOLEAN
    PROVE  TunnelPageTypeOK'
BY DEF TunnelPageTypeOK, TunnelCall

LEMMA CreateTunnelKeepsTunnels ==
    ASSUME TunnelInv, NEW u \in Tunnels, CreateTunnel(u)
    PROVE  TunnelInv'
<1> USE TunnelPageAssumption, RowsFit DEF CreateTunnel, TunnelSends
<1>0. TunnelTypes BY DEF TunnelInv
<1> USE <1>0 DEF TunnelTypes
<1>1. TunnelPageTypeOK'
  <2>1. tunnelCalls' \in [TunnelCalls -> TunnelCall]
    BY CallsMade DEF TunnelPageTypeOK, TunnelCall
  <2>2. /\ daemonStatus' \in AllRows /\ shownStatus' \in [Tunnels -> RowStatus]
        /\ doubled' \subseteq Tunnels /\ busy' \in [Lists -> Tunnels \cup {NoTunnel}]
        /\ listing' \in AnyRows
    BY DEF TunnelPageTypeOK
  <2>3. tunnelSocket' \in BOOLEAN /\ clobbered' \in BOOLEAN /\ outdated' \in BOOLEAN
    BY DEF TunnelPageTypeOK
  <2> QED BY <2>1, <2>2, <2>3, TypesKept
<1>2. MessagesFit'
  BY DEF TunnelTypes, MessagesFit
<1>3. CreatedLater'
  BY DEF TunnelInv, TunnelTypes, TunnelPageTypeOK, CreatedLater, NotYet, EventsOn
<1>4. CallsKnow'
  BY DEF TunnelInv, TunnelTypes, TunnelPageTypeOK, CallsKnow
<1>5. News'
  BY DEF TunnelInv, News, NewsOf, EventsOn
<1>6. Settling'
  BY DEF TunnelInv, TunnelTypes, TunnelPageTypeOK, MessagesFit, Settling, RowSettles, CallOn,
         EventsOn
<1>7. FlagsStand'
  BY DEF TunnelInv, TunnelPageTypeOK, FlagsStand, Sender, RowOps
<1> QED BY <1>1, <1>2, <1>3, <1>4, <1>5, <1>6, <1>7 DEF TunnelInv, TunnelTypes


LEMMA RunKeepsTunnels ==
    ASSUME TunnelInv, NEW u \in Tunnels, NEW o \in RowOps, Run(u, o)
    PROVE  TunnelInv'
<1> USE TunnelPageAssumption, RowsFit DEF Run, TunnelSends, RowOffers, RowOps
<1>0. TunnelTypes BY DEF TunnelInv
<1> USE <1>0 DEF TunnelTypes
<1>1. TunnelPageTypeOK'
  <2>1. tunnelCalls' \in [TunnelCalls -> TunnelCall]
    BY CallsMade DEF TunnelPageTypeOK, TunnelCall
  <2>2. /\ daemonStatus' \in AllRows /\ shownStatus' \in [Tunnels -> RowStatus]
        /\ doubled' \subseteq Tunnels /\ busy' \in [Lists -> Tunnels \cup {NoTunnel}]
        /\ listing' \in AnyRows
    BY DEF TunnelPageTypeOK
  <2>3. tunnelSocket' \in BOOLEAN /\ clobbered' \in BOOLEAN /\ outdated' \in BOOLEAN
    BY DEF TunnelPageTypeOK
  <2> QED BY <2>1, <2>2, <2>3, TypesKept
<1>2. MessagesFit'
  BY DEF TunnelTypes, MessagesFit
<1>3. CreatedLater'
  BY DEF TunnelInv, TunnelTypes, TunnelPageTypeOK, CreatedLater, NotYet, EventsOn
<1>4. CallsKnow'
  BY DEF TunnelInv, TunnelPageTypeOK, CallsKnow, CreatedLater, NotYet
<1>5. News'
  BY DEF TunnelInv, News, NewsOf, EventsOn
<1>6. Settling'
  BY DEF TunnelInv, TunnelTypes, TunnelPageTypeOK, MessagesFit, Settling, RowSettles, CallOn,
         EventsOn
<1>7. FlagsStand'
  <2> SUFFICES ASSUME ~clobbered' PROVE FlagsStand' BY DEF FlagsStand
  <2>1. PICK q \in TunnelCalls :
            /\ tunnelCalls[q].at = "idle"
            /\ tunnelCalls' = [tunnelCalls EXCEPT ![q] =
                    [op |-> o, tunnel |-> u, at |-> "sent", rows |-> NoRows, left |-> FALSE]]
    OBVIOUS
  <2>2. ~clobbered /\ busy[ListOf(u)] = NoTunnel /\ ListOf(u) \in Lists
    BY DEF TunnelPageTypeOK, ListOf, Lists
  <2>3. /\ busy'[ListOf(u)] = u
        /\ \A l \in Lists : l # ListOf(u) => busy'[l] = busy[l]
    BY <2>2 DEF TunnelPageTypeOK
  <2>4. \A r \in TunnelCalls : tunnelCalls[r].op \in RowOps =>
            /\ tunnelCalls[r].tunnel \in Tunnels /\ tunnelCalls[r].tunnel # NoTunnel
            /\ ListOf(tunnelCalls[r].tunnel) \in Lists
    BY CallFits DEF MessagesFit, ListOf, Lists
  <2>5. \A r \in TunnelCalls : Sender(r) =>
            /\ ListOf(tunnelCalls[r].tunnel) # ListOf(u)
            /\ busy'[ListOf(tunnelCalls[r].tunnel)] = tunnelCalls[r].tunnel
    BY <2>2, <2>3, <2>4 DEF TunnelInv, FlagsStand, Sender
  <2>6. \A r \in TunnelCalls : tunnelCalls'[r] =
            IF r = q THEN [op |-> o, tunnel |-> u, at |-> "sent", rows |-> NoRows, left |-> FALSE]
            ELSE tunnelCalls[r]
    BY <2>1 DEF TunnelPageTypeOK
  <2> HIDE DEF RowOps
  <2> QED BY <2>2, <2>3, <2>5, <2>6 DEF TunnelInv, FlagsStand, Sender
<1> QED BY <1>1, <1>2, <1>3, <1>4, <1>5, <1>6, <1>7 DEF TunnelInv, TunnelTypes


LEMMA ProxyPageReopenedKeepsTunnels ==
    ASSUME TunnelInv, ProxyPageReopened
    PROVE  TunnelInv'
<1> USE TunnelPageAssumption, RowsFit
<1>0. TunnelTypes BY DEF TunnelInv
<1> USE <1>0 DEF TunnelTypes
<1>a. UNCHANGED <<daemonStatus, shownStatus, doubled, tunnelEvents, listing, tunnelSocket,
                  outdated>>
  BY DEF ProxyPageReopened
<1>b. tunnelCalls \in [TunnelCalls -> TunnelCall] BY DEF TunnelPageTypeOK, TunnelCall
<1>c. tunnelCalls' \in [TunnelCalls -> TunnelCall]
  <2>1. \A left \in BOOLEAN, r \in TunnelCalls :
            [tunnelCalls[r] EXCEPT !.left = left] \in TunnelCall
    BY <1>b DEF TunnelCall
  <2>2. \A r \in TunnelCalls : (tunnelCalls[r].op \in RowOps) \in BOOLEAN OBVIOUS
  <2>3. \A r \in TunnelCalls :
            [tunnelCalls[r] EXCEPT !.left = (tunnelCalls[r].op \in RowOps)] \in TunnelCall
    BY <2>1, <2>2, Zenon
  <2> QED BY <2>3 DEF ProxyPageReopened
<1>d. \A r \in TunnelCalls :
        /\ tunnelCalls'[r].op = tunnelCalls[r].op
        /\ tunnelCalls'[r].tunnel = tunnelCalls[r].tunnel
        /\ tunnelCalls'[r].at = tunnelCalls[r].at
        /\ tunnelCalls'[r].rows = tunnelCalls[r].rows
        /\ tunnelCalls'[r].op \in RowOps => tunnelCalls'[r].left
  <2> SUFFICES ASSUME NEW r \in TunnelCalls
               PROVE  /\ tunnelCalls'[r].op = tunnelCalls[r].op
                      /\ tunnelCalls'[r].tunnel = tunnelCalls[r].tunnel
                      /\ tunnelCalls'[r].at = tunnelCalls[r].at
                      /\ tunnelCalls'[r].rows = tunnelCalls[r].rows
                      /\ tunnelCalls'[r].op \in RowOps => tunnelCalls'[r].left
    OBVIOUS
  <2> DEFINE left(b) == [tunnelCalls[r] EXCEPT !.left = b]
  <2>1. \A b \in BOOLEAN :
            /\ left(b).op = tunnelCalls[r].op /\ left(b).tunnel = tunnelCalls[r].tunnel
            /\ left(b).at = tunnelCalls[r].at /\ left(b).rows = tunnelCalls[r].rows
            /\ left(b).left = b
    BY <1>b DEF TunnelCall
  <2>2. tunnelCalls'[r] = left(tunnelCalls[r].op \in RowOps) BY DEF ProxyPageReopened
  <2>3. (tunnelCalls[r].op \in RowOps) \in BOOLEAN OBVIOUS
  <2> HIDE DEF left
  <2> QED BY <2>1, <2>2, <2>3, Zenon
<1>1. TunnelPageTypeOK'
  <2>1. /\ busy' \in [Lists -> Tunnels \cup {NoTunnel}]
        /\ clobbered' \in BOOLEAN
    BY DEF ProxyPageReopened
  <2> QED BY <2>1, <1>a, <1>c, TypesKept DEF TunnelPageTypeOK
<1>2. MessagesFit' BY <1>a, <1>d DEF MessagesFit
<1>3. CreatedLater' BY <1>a, <1>d DEF TunnelInv, CreatedLater, NotYet, EventsOn
<1>4. CallsKnow' BY <1>a, <1>d DEF TunnelInv, CallsKnow
<1>5. News' BY <1>a DEF TunnelInv, News, NewsOf, EventsOn
<1>6. Settling' BY <1>a, <1>d DEF TunnelInv, Settling, RowSettles, CallOn, EventsOn
<1>7. FlagsStand' BY <1>d DEF FlagsStand, Sender
<1> QED BY <1>1, <1>2, <1>3, <1>4, <1>5, <1>6, <1>7 DEF TunnelInv, TunnelTypes


LEMMA ListTakenKeepsTunnels ==
    ASSUME TunnelInv, ListTaken
    PROVE  TunnelInv'
<1> USE TunnelPageAssumption, RowsFit DEF ListTaken
<1>a. listing' \in [Tunnels -> RowStatus] /\ listing' \in AllRows
  <2>1. daemonStatus \in [Tunnels -> Row]
    BY DEF TunnelInv, TunnelTypes, TunnelPageTypeOK, AllRows, RowsOf, Row
  <2>2. \A t \in Tunnels : AsListed(daemonStatus)[t] \in RowStatus
    BY <2>1 DEF AsListed, Row, RowStatus
  <2>3. AsListed(daemonStatus) \in [Tunnels -> RowStatus] BY <2>2 DEF AsListed
  <2>4. [Tunnels -> RowStatus] \subseteq AllRows BY DEF AllRows, RowsOf
  <2> QED BY <2>3, <2>4
<1>0. TunnelTypes BY DEF TunnelInv
<1> USE <1>0 DEF TunnelTypes
<1>1. TunnelPageTypeOK'
  <2>1. tunnelCalls' \in [TunnelCalls -> TunnelCall]
    BY CallsMade DEF TunnelPageTypeOK, TunnelCall
  <2>2. /\ daemonStatus' \in AllRows /\ shownStatus' \in [Tunnels -> RowStatus]
        /\ doubled' \subseteq Tunnels /\ busy' \in [Lists -> Tunnels \cup {NoTunnel}]
        /\ listing' \in AnyRows
    BY <1>a DEF TunnelPageTypeOK
  <2>3. tunnelSocket' \in BOOLEAN /\ clobbered' \in BOOLEAN /\ outdated' \in BOOLEAN
    BY DEF TunnelPageTypeOK
  <2> QED BY <2>1, <2>2, <2>3, TypesKept
<1>2. MessagesFit'
  BY <1>a DEF MessagesFit
<1>3. CreatedLater'
  BY DEF TunnelInv, TunnelTypes, TunnelPageTypeOK, CreatedLater, NotYet, EventsOn, AsListed
<1>4. CallsKnow'
  BY DEF TunnelInv, TunnelTypes, TunnelPageTypeOK, CallsKnow
<1>5. News'
  BY DEF TunnelInv, News, NewsOf, EventsOn
<1>6. Settling'
  BY DEF TunnelInv, TunnelTypes, TunnelPageTypeOK, MessagesFit, Settling, RowSettles, CallOn,
         EventsOn
<1>7. FlagsStand'
  BY DEF TunnelInv, TunnelTypes, TunnelPageTypeOK, FlagsStand, Sender
<1> QED BY <1>1, <1>2, <1>3, <1>4, <1>5, <1>6, <1>7 DEF TunnelInv, TunnelTypes


LEMMA ListArrivesKeepsTunnels ==
    ASSUME TunnelInv, ListArrives
    PROVE  TunnelInv'
<1> USE TunnelPageAssumption, RowsFit DEF ListArrives
<1>0. TunnelTypes BY DEF TunnelInv
<1> USE <1>0 DEF TunnelTypes
<1>1. TunnelPageTypeOK'
  <2>0. shownStatus' \in [Tunnels -> RowStatus]
    BY DEF MessagesFit
  <2>1. tunnelCalls' \in [TunnelCalls -> TunnelCall]
    BY CallsMade DEF TunnelPageTypeOK, TunnelCall
  <2>2. /\ daemonStatus' \in AllRows /\ shownStatus' \in [Tunnels -> RowStatus]
        /\ doubled' \subseteq Tunnels /\ busy' \in [Lists -> Tunnels \cup {NoTunnel}]
        /\ listing' \in AnyRows
    BY <2>0 DEF TunnelPageTypeOK
  <2>3. tunnelSocket' \in BOOLEAN /\ clobbered' \in BOOLEAN /\ outdated' \in BOOLEAN
    BY DEF TunnelPageTypeOK
  <2> QED BY <2>1, <2>2, <2>3, TypesKept
<1>2. MessagesFit'
  BY DEF TunnelTypes, MessagesFit
<1>3. CreatedLater'
  BY DEF TunnelInv, TunnelTypes, TunnelPageTypeOK, CreatedLater, NotYet, EventsOn
<1>4. CallsKnow'
  BY DEF TunnelInv, TunnelTypes, TunnelPageTypeOK, CallsKnow
<1>5. News'
  BY DEF TunnelInv, News, NewsOf, EventsOn
<1>6. Settling'
  <2>1. ~outdated' => \A t \in Tunnels :
            shownStatus'[t] = IF daemonStatus[t] = "deleted" THEN "absent" ELSE daemonStatus[t]
    BY DEF AsListed
  <2>2. daemonStatus' = daemonStatus OBVIOUS
  <2> QED BY <2>1, <2>2 DEF Settling, RowSettles
<1>7. FlagsStand'
  BY DEF TunnelInv, TunnelTypes, TunnelPageTypeOK, FlagsStand, Sender
<1> QED BY <1>1, <1>2, <1>3, <1>4, <1>5, <1>6, <1>7 DEF TunnelInv, TunnelTypes


LEMMA TunnelSocketDropsKeepsTunnels ==
    ASSUME TunnelInv, TunnelSocketDrops
    PROVE  TunnelInv'
<1> USE TunnelPageAssumption, RowsFit DEF TunnelSocketDrops
<1>0. TunnelTypes BY DEF TunnelInv
<1> USE <1>0 DEF TunnelTypes
<1>1. TunnelPageTypeOK'
  <2>1. tunnelCalls' \in [TunnelCalls -> TunnelCall]
    BY CallsMade DEF TunnelPageTypeOK, TunnelCall
  <2>2. /\ daemonStatus' \in AllRows /\ shownStatus' \in [Tunnels -> RowStatus]
        /\ doubled' \subseteq Tunnels /\ busy' \in [Lists -> Tunnels \cup {NoTunnel}]
        /\ listing' \in AnyRows
    BY DEF TunnelPageTypeOK
  <2>3. tunnelSocket' \in BOOLEAN /\ clobbered' \in BOOLEAN /\ outdated' \in BOOLEAN
    BY DEF TunnelPageTypeOK
  <2>4. tunnelEvents' \in Seq(AnyRows) /\ Len(tunnelEvents') <= EventCap OBVIOUS
  <2> QED BY <2>1, <2>2, <2>3, TypesKept, <2>4
<1>2. MessagesFit'
  BY DEF TunnelTypes, MessagesFit
<1>3. CreatedLater'
  BY DEF TunnelInv, TunnelTypes, TunnelPageTypeOK, CreatedLater, NotYet, EventsOn
<1>4. CallsKnow'
  BY DEF TunnelInv, TunnelTypes, TunnelPageTypeOK, CallsKnow
<1>5. News'
  BY DEF TunnelInv, News, NewsOf, EventsOn
<1>6. Settling'
  BY DEF TunnelInv, TunnelTypes, TunnelPageTypeOK, MessagesFit, Settling, RowSettles, CallOn,
         EventsOn
<1>7. FlagsStand'
  BY DEF TunnelInv, TunnelTypes, TunnelPageTypeOK, FlagsStand, Sender
<1> QED BY <1>1, <1>2, <1>3, <1>4, <1>5, <1>6, <1>7 DEF TunnelInv, TunnelTypes


LEMMA HandleWsEventKeepsTunnels ==
    ASSUME TunnelInv, HandleWsEvent
    PROVE  TunnelInv'
<1> USE TunnelPageAssumption, RowsFit DEF HandleWsEvent, ShowRow
<1>0. TunnelTypes BY DEF TunnelInv
<1> USE <1>0 DEF TunnelTypes
<1> DEFINE e == Head(tunnelEvents)
<1>e. tunnelEvents \in Seq(AnyRows) BY DEF MessagesFit
<1>f. /\ tunnelEvents' \in Seq(AnyRows) /\ Len(tunnelEvents') = Len(tunnelEvents) - 1
      /\ Len(tunnelEvents) \in Nat \ {0} /\ tunnelEvents[1] = e /\ e \in AnyRows
      /\ \A i \in 1..Len(tunnelEvents') : tunnelEvents'[i] = tunnelEvents[i + 1]
      /\ \A t : EventsOn(t)' = {i \in 1..Len(tunnelEvents') : i + 1 \in EventsOn(t)}
  BY <1>e, EventTaken
<1>g. \A t : t \in DOMAIN e <=> 1 \in EventsOn(t) BY <1>f DEF EventsOn
<1>h. shownStatus' = [t \in Tunnels |->
            IF t \in DOMAIN e /\ shownStatus[t] # "absent" THEN e[t] ELSE shownStatus[t]]
  OBVIOUS
<1>i. \A t \in Tunnels : \A i \in EventsOn(t) : i \in Nat \ {0} /\ i <= Len(tunnelEvents)
  BY <1>f DEF EventsOn
<1> HIDE DEF e
<1>1. TunnelPageTypeOK'
  <2>0. shownStatus' \in [Tunnels -> RowStatus]
    <3>1. \A t \in DOMAIN e : e[t] \in Row BY <1>f
    <3>2. \A t \in Tunnels : t \in DOMAIN e => e[t] # "deleted"
      BY <1>f, <1>g DEF TunnelInv, News, NewsOf
    <3> QED BY <1>h, <3>1, <3>2 DEF Row, TunnelPageTypeOK
  <2>1. tunnelCalls' \in [TunnelCalls -> TunnelCall]
    BY CallsMade DEF TunnelPageTypeOK, TunnelCall
  <2>2. /\ daemonStatus' \in AllRows /\ shownStatus' \in [Tunnels -> RowStatus]
        /\ doubled' \subseteq Tunnels /\ busy' \in [Lists -> Tunnels \cup {NoTunnel}]
        /\ listing' \in AnyRows
    BY <2>0 DEF TunnelPageTypeOK
  <2>3. tunnelSocket' \in BOOLEAN /\ clobbered' \in BOOLEAN /\ outdated' \in BOOLEAN
    BY DEF TunnelPageTypeOK
  <2>4. tunnelEvents' \in Seq(AnyRows) /\ Len(tunnelEvents') <= EventCap
    BY <1>f DEF TunnelPageTypeOK
  <2> QED BY <2>1, <2>2, <2>3, TypesKept, <2>4
<1>2. MessagesFit'
  BY <1>f DEF MessagesFit, Answered
<1>3. CreatedLater'
  BY <1>f, <1>g, <1>h DEF TunnelInv, CreatedLater, NotYet
<1>4. CallsKnow'
  BY DEF TunnelInv, TunnelTypes, TunnelPageTypeOK, CallsKnow
<1>5. News'
  <2> SUFFICES ASSUME NEW t \in Tunnels, NEW i \in EventsOn(t)'
               PROVE  /\ tunnelEvents'[i][t] \notin {"absent", "deleted"}
                      /\ (\A j \in EventsOn(t)' : j <= i) =>
                            daemonStatus[t] \in {tunnelEvents'[i][t], "deleted"}
    BY DEF News, NewsOf
  <2>1. i \in Nat /\ i + 1 \in EventsOn(t) /\ tunnelEvents'[i] = tunnelEvents[i + 1] BY <1>f
  <2>2. ASSUME \A j \in EventsOn(t)' : j <= i, NEW j \in EventsOn(t) PROVE j <= i + 1
    <3>1. j \in 1..Len(tunnelEvents) BY <1>i
    <3>2. CASE j = 1 BY <2>1, <3>2
    <3>3. CASE j # 1
      <4>1. j - 1 \in 1..Len(tunnelEvents') /\ (j - 1) + 1 = j BY <3>1, <3>3, <1>f
      <4>2. j - 1 \in EventsOn(t)' BY <4>1, <1>f
      <4> QED BY <4>1, <4>2, <2>1, <2>2, <3>1
    <3> QED BY <3>2, <3>3
  <2> QED BY <2>1, <2>2 DEF TunnelInv, News, NewsOf
<1>6. Settling'
  <2> SUFFICES ASSUME tunnelSocket, ~outdated, NEW t \in Tunnels \ doubled
               PROVE  RowSettles(t)'
    BY DEF Settling
  <2>1. RowSettles(t) /\ NewsOf(t) BY DEF TunnelInv, Settling, News
  <2>2. CASE t \notin DOMAIN e
    <3>1. EventsOn(t) # {} => EventsOn(t)' # {}
      <4> SUFFICES ASSUME NEW j \in EventsOn(t) PROVE EventsOn(t)' # {} OBVIOUS
      <4>1. j # 1 /\ j \in 1..Len(tunnelEvents) BY <2>2, <1>g, <1>i
      <4>2. j - 1 \in 1..Len(tunnelEvents') /\ (j - 1) + 1 = j BY <4>1, <1>f
      <4>3. j - 1 \in EventsOn(t)' BY <4>2, <1>f
      <4> QED BY <4>3
    <3>2. shownStatus'[t] = shownStatus[t] BY <2>2, <1>h
    <3> QED BY <2>1, <3>1, <3>2 DEF RowSettles, CallOn
  <2>3. CASE t \in DOMAIN e
    <3>1. 1 \in EventsOn(t) BY <2>3, <1>g
    <3>2. tunnelEvents[1][t] = e[t] /\ e[t] \notin {"absent", "deleted"}
      BY <1>f, <2>1, <3>1 DEF NewsOf
    <3>3. shownStatus'[t] = IF shownStatus[t] # "absent" THEN e[t] ELSE "absent"
      BY <2>3, <1>h
    <3>4. CASE \E j \in EventsOn(t) : j # 1
      <4>1. PICK j \in EventsOn(t) : j # 1 BY <3>4
      <4>2. j - 1 \in 1..Len(tunnelEvents') /\ (j - 1) + 1 = j BY <4>1, <1>f, <1>i
      <4>3. j - 1 \in EventsOn(t)' BY <4>2, <1>f
      <4>4. daemonStatus[t] = "deleted" \/ daemonStatus[t] # "deleted" OBVIOUS
      <4> QED BY <2>1, <4>3, <3>2, <3>3, <2>3, <3>1 DEF RowSettles, CallOn
    <3>5. CASE \A j \in EventsOn(t) : j = 1
      <4>1. daemonStatus[t] \in {e[t], "deleted"} BY <3>1, <3>2, <3>5, <2>1 DEF NewsOf
      <4> QED BY <2>1, <4>1, <3>2, <3>3, <3>1 DEF RowSettles, CallOn
    <3> QED BY <3>4, <3>5
  <2> QED BY <2>2, <2>3
<1>7. FlagsStand'
  BY DEF TunnelInv, TunnelTypes, TunnelPageTypeOK, FlagsStand, Sender
<1> QED BY <1>1, <1>2, <1>3, <1>4, <1>5, <1>6, <1>7 DEF TunnelInv, TunnelTypes


LEMMA ServedKeepsTunnels ==
    ASSUME TunnelInv, NEW r \in TunnelCalls, Served(r)
    PROVE  TunnelInv'
<1> USE TunnelPageAssumption
<1>0. TunnelTypes BY DEF TunnelInv
<1> USE <1>0 DEF TunnelTypes
<1> DEFINE t == tunnelCalls[r].tunnel
           op == tunnelCalls[r].op
<1>a. PICK out \in Outcomes(op, t, daemonStatus[t]) :
        /\ daemonStatus' = [daemonStatus EXCEPT ![t] = out[1]]
        /\ tunnelCalls' = [tunnelCalls EXCEPT ![r].at = out[2], 
                ![r].rows = IF out[2] = "ok" THEN OneRow(t, out[1]) ELSE NoRows]
        /\ IF Tells(op, daemonStatus[t]) /\ tunnelSocket
           THEN /\ Len(tunnelEvents) < EventCap
                /\ tunnelEvents' = Append(tunnelEvents, OneRow(t, out[1]))
           ELSE UNCHANGED tunnelEvents
  BY DEF Served
<1>b. /\ tunnelCalls[r].at = "sent" /\ t \in Tunnels /\ t # NoTunnel
      /\ op \in RowOps \cup {"create"}
  BY CallFits DEF Served
<1>c. daemonStatus[t] \in Row BY <1>b DEF TunnelPageTypeOK, AllRows, RowsOf, Row
<1>d. /\ op = "create" => daemonStatus[t] = "absent"
      /\ op \in RowOps => daemonStatus[t] # "absent"
  BY <1>b DEF TunnelInv, CallsKnow, CreatedLater, NotYet, RowOps
<1>e. /\ out[1] \in Row /\ out[2] \in {"ok", "failed"}
      /\ op = "create" => out[1] = IF out[2] = "ok" THEN "stopped" ELSE "absent"
      /\ op # "create" => out[1] # "absent"
      /\ op = "delete" => out[1] = "deleted" /\ out[2] = "ok"
      /\ op \in {"start", "stop"} =>
            IF daemonStatus[t] = "deleted" THEN out[1] = "deleted" /\ out[2] = "failed"
            ELSE out[1] # "deleted"
  BY <1>a, <1>b, <1>c, <1>d, OutcomesFit
<1>f. /\ OneRow(t, out[1]) \in AnyRows /\ DOMAIN OneRow(t, out[1]) = {t}
      /\ OneRow(t, out[1])[t] = out[1]
  BY <1>b, <1>e, OneRowFits
<1> DEFINE row == OneRow(t, out[1])
           reply == IF out[2] = "ok" THEN row ELSE NoRows
<1> HIDE DEF row, reply
<1>f2. row \in AnyRows /\ DOMAIN row = {t} /\ row[t] = out[1] BY <1>f DEF row
<1>g. \A x \in Tunnels : daemonStatus'[x] = IF x = t THEN out[1] ELSE daemonStatus[x]
  BY <1>a, <1>b DEF TunnelPageTypeOK, AllRows, RowsOf
<1>h. /\ tunnelCalls[r].tunnel = t /\ tunnelCalls[r].op = op
      /\ \A s \in TunnelCalls :
        /\ tunnelCalls'[s].op = tunnelCalls[s].op /\ tunnelCalls'[s].tunnel = tunnelCalls[s].tunnel
        /\ tunnelCalls'[s].at = IF s = r THEN out[2] ELSE tunnelCalls[s].at
        /\ tunnelCalls'[s].rows = IF s = r THEN reply ELSE tunnelCalls[s].rows
        /\ tunnelCalls'[s].left = tunnelCalls[s].left
  BY <1>a DEF TunnelPageTypeOK, row, reply
<1>h2. tunnelCalls'[r].tunnel = t /\ tunnelCalls'[r].op = op /\ tunnelCalls'[r].at = out[2]
  BY <1>h
<1>i. tunnelCalls' \in [TunnelCalls -> TunnelCall]
  <2>1. tunnelCalls' = [tunnelCalls EXCEPT ![r].at = out[2], ![r].rows = reply]
    BY <1>a DEF row, reply
  <2>2. tunnelCalls \in [TunnelCalls -> TunnelCall] BY DEF TunnelPageTypeOK, TunnelCall
  <2>r. reply \in AnyRows BY <1>f2, RowsFit DEF reply
  <2>3. [tunnelCalls[r] EXCEPT !.at = out[2], !.rows = reply] \in TunnelCall
    BY <2>2, <2>r, <1>e DEF TunnelCall
  <2>4. tunnelCalls' =
          [tunnelCalls EXCEPT ![r] = [tunnelCalls[r] EXCEPT !.at = out[2], !.rows = reply]]
    BY <2>1, <2>2
  <2> QED BY <2>2, <2>3, <2>4
<1> HIDE DEF t, op
<1>h3. tunnelCalls'[r].rows = IF out[2] = "ok" THEN row ELSE NoRows
  BY <1>h DEF reply
<1>j. UNCHANGED <<shownStatus, doubled, busy, listing, tunnelSocket, clobbered, outdated>>
  BY DEF Served
<1>k. Tells(op, daemonStatus[t]) <=> op \in {"start", "stop"} /\ daemonStatus[t] # "deleted"
  BY DEF Tells
<1>l. tunnelEvents \in Seq(AnyRows) BY DEF MessagesFit
<1>m. ASSUME op \in {"start", "stop"} /\ daemonStatus[t] # "deleted" /\ tunnelSocket
      PROVE  /\ News' /\ Settling' /\ CreatedLater'
             /\ \/ UNCHANGED tunnelEvents
                \/ tunnelEvents' \in Seq(AnyRows) /\ Len(tunnelEvents') <= EventCap
  <2>1. Len(tunnelEvents) < EventCap /\ tunnelEvents' = Append(tunnelEvents, row)
    BY <1>a, <1>k, <1>m DEF row
  <2>2. /\ tunnelEvents' \in Seq(AnyRows) /\ Len(tunnelEvents') = Len(tunnelEvents) + 1
        /\ Len(tunnelEvents) \in Nat
        /\ \A x : EventsOn(x)' = EventsOn(x) \cup
                    (IF x \in DOMAIN row THEN {Len(tunnelEvents) + 1} ELSE {})
        /\ \A i \in 1..Len(tunnelEvents) : tunnelEvents'[i] = tunnelEvents[i]
        /\ tunnelEvents'[Len(tunnelEvents) + 1] = row
    BY <1>l, <1>f2, <2>1, EventAppended
  <2>3. \A x : EventsOn(x) \subseteq 1..Len(tunnelEvents) BY DEF EventsOn
  <2>4. daemonStatus[t] # "absent" /\ out[1] \notin {"absent", "deleted"}
    BY <1>d, <1>e, <1>m DEF RowOps
  <2>5. News'
    <3> SUFFICES ASSUME NEW x \in Tunnels, NEW i \in EventsOn(x)'
                 PROVE  /\ tunnelEvents'[i][x] \notin {"absent", "deleted"}
                        /\ (\A j \in EventsOn(x)' : j <= i) =>
                            daemonStatus'[x] \in {tunnelEvents'[i][x], "deleted"}
      BY DEF News, NewsOf
    <3>1. CASE i = Len(tunnelEvents) + 1
      <4>1. x = t BY <3>1, <2>2, <2>3, <1>f2
      <4> QED BY <4>1, <3>1, <2>2, <2>4, <1>f2, <1>g
    <3>2. CASE i # Len(tunnelEvents) + 1
      <4>1. i \in EventsOn(x) /\ tunnelEvents'[i] = tunnelEvents[i] BY <3>2, <2>2, <2>3
      <4>2. x = t => Len(tunnelEvents) + 1 \in EventsOn(x)' BY <2>2, <1>f2
      <4>3. x = t => ~(\A j \in EventsOn(x)' : j <= i) BY <4>1, <4>2, <2>2, <2>3
      <4>4. EventsOn(x) \subseteq EventsOn(x)' BY <2>2
      <4> QED BY <4>1, <4>3, <4>4, <1>g DEF TunnelInv, News, NewsOf
    <3> QED BY <3>1, <3>2
  <2>6. Settling'
    <3> SUFFICES ASSUME tunnelSocket, ~outdated, NEW x \in Tunnels \ doubled
                 PROVE  RowSettles(x)'
      BY <1>j DEF Settling
    <3>1. RowSettles(x) BY DEF TunnelInv, Settling
    <3>2. \A o, at : at # "sent" /\ CallOn(x, o, at) => CallOn(x, o, at)'
      BY <1>b, <1>h DEF CallOn
    <3>3. CASE x # t
      <4>1. EventsOn(x) \subseteq EventsOn(x)' BY <2>2
      <4> QED BY <3>1, <3>2, <3>3, <4>1, <1>g, <1>j DEF RowSettles
    <3>4. CASE x = t
      <4>1. Len(tunnelEvents) + 1 \in EventsOn(x)' BY <3>4, <2>2, <1>f2
      <4>2. daemonStatus'[x] = out[1] BY <3>4, <1>g
      <4> QED BY <3>1, <3>2, <3>4, <4>1, <4>2, <2>4, <1>j, <1>m DEF RowSettles
    <3> QED BY <3>3, <3>4
  <2>7. CreatedLater'
    <3> SUFFICES ASSUME NEW x \in Tunnels, daemonStatus'[x] = "absent" PROVE NotYet(x)'
      BY DEF CreatedLater
    <3>1. x # t /\ NotYet(x) BY <2>4, <1>g DEF TunnelInv, CreatedLater
    <3>2. EventsOn(x)' = EventsOn(x) BY <3>1, <2>2, <1>f2
    <3>3. \A s \in TunnelCalls : tunnelCalls[s].tunnel = x => s # r BY <3>1, <1>h
    <3> QED BY <3>1, <3>2, <3>3, <1>h, <1>j DEF NotYet
  <2>8. tunnelEvents' \in Seq(AnyRows) /\ Len(tunnelEvents') <= EventCap
    BY <2>1, <2>2
  <2> QED BY <2>5, <2>6, <2>7, <2>8
<1>n. ASSUME ~(op \in {"start", "stop"} /\ daemonStatus[t] # "deleted" /\ tunnelSocket)
      PROVE  /\ News' /\ Settling' /\ CreatedLater'
             /\ \/ UNCHANGED tunnelEvents
                \/ tunnelEvents' \in Seq(AnyRows) /\ Len(tunnelEvents') <= EventCap
  <2>1. UNCHANGED tunnelEvents BY <1>a, <1>k, <1>n
  <2>2. \A x : EventsOn(x)' = EventsOn(x) BY <2>1 DEF EventsOn
  <2>3. daemonStatus[t] # "absent" => op # "create"
    BY <1>d
  <2>4. op \in {"start", "stop"} /\ tunnelSocket => daemonStatus'[t] = daemonStatus[t]
    BY <1>b, <1>e, <1>g, <1>n
  <2>5. op # "create" => daemonStatus[t] # "absent" /\ out[1] # "absent" BY <1>b, <1>d, <1>e
  <2>6. News'
    <3> SUFFICES ASSUME NEW x \in Tunnels PROVE NewsOf(x)' BY DEF News
    <3>1. NewsOf(x) BY DEF TunnelInv, News
    <3>2. CASE x # t BY <3>1, <3>2, <2>1, <2>2, <1>g DEF NewsOf
    <3>3. CASE x = t /\ op = "create"
      <4>1. EventsOn(x) = {} BY <3>3, <1>b, <1>d DEF TunnelInv, CreatedLater, NotYet
      <4> QED BY <4>1, <2>2 DEF NewsOf
    <3>4. CASE x = t /\ op = "delete" BY <3>1, <3>4, <2>1, <2>2, <1>e, <1>g DEF NewsOf
    <3>5. CASE x = t /\ op \in {"start", "stop"}
      <4>1. CASE tunnelSocket BY <3>1, <3>5, <4>1, <2>1, <2>2, <2>4 DEF NewsOf
      <4>2. CASE ~tunnelSocket
        <5>1. EventsOn(x) = {} BY <4>2 DEF MessagesFit, EventsOn
        <5> QED BY <5>1, <2>2 DEF NewsOf
      <4> QED BY <4>1, <4>2
    <3> QED BY <3>2, <3>3, <3>4, <3>5, <1>b DEF RowOps
  <2>7. Settling'
    <3> SUFFICES ASSUME tunnelSocket, ~outdated, NEW x \in Tunnels \ doubled
                 PROVE  RowSettles(x)'
      BY <1>j DEF Settling
    <3>1. RowSettles(x) BY DEF TunnelInv, Settling
    <3>2. \A o, at : at # "sent" /\ CallOn(x, o, at) => CallOn(x, o, at)'
      BY <1>b, <1>h DEF CallOn
    <3>3. CASE x # t BY <3>1, <3>2, <3>3, <2>2, <1>g, <1>j DEF RowSettles
    <3>5. CASE x = t /\ op = "create"
      <4>1. shownStatus[x] = "absent" BY <3>5, <1>b, <1>d DEF TunnelInv, CreatedLater, NotYet
      <4>2. CallOn(x, "create", out[2])' BY <3>5, <1>h2 DEF CallOn
      <4> QED BY <3>5, <4>1, <4>2, <1>e, <1>g, <1>j DEF RowSettles
    <3>6. CASE x = t /\ op = "delete"
      <4>1. CallOn(x, "delete", "ok")' BY <3>6, <1>e, <1>h2 DEF CallOn
      <4> QED BY <3>6, <4>1, <1>e, <1>g DEF RowSettles
    <3>7. CASE x = t /\ op \in {"start", "stop"}
      BY <3>1, <3>2, <3>7, <2>2, <2>4, <1>j DEF RowSettles
    <3> QED BY <3>3, <3>5, <3>6, <3>7, <1>b DEF RowOps
  <2>8. CreatedLater'
    <3> SUFFICES ASSUME NEW x \in Tunnels, daemonStatus'[x] = "absent" PROVE NotYet(x)'
      BY DEF CreatedLater
    <3>1. CASE x # t
      <4>1. NotYet(x) BY <3>1, <1>g DEF TunnelInv, CreatedLater
      <4>2. \A s \in TunnelCalls : tunnelCalls[s].tunnel = x => s # r BY <3>1, <1>h
      <4> QED BY <4>1, <4>2, <2>2, <1>h, <1>j DEF NotYet
    <3>2. CASE x = t
      <4>1. out[1] = "absent" /\ op = "create" /\ daemonStatus[t] = "absent" /\ out[2] = "failed"
        BY <3>2, <2>5, <1>b, <1>d, <1>e, <1>g
      <4>2. NotYet(x) BY <3>2, <4>1 DEF TunnelInv, CreatedLater
      <4> QED BY <4>1, <4>2, <2>2, <1>h, <1>j DEF NotYet
    <3> QED BY <3>1, <3>2
  <2> QED BY <2>1, <2>6, <2>7, <2>8
<1>o. /\ News' /\ Settling' /\ CreatedLater'
      /\ \/ UNCHANGED tunnelEvents
         \/ tunnelEvents' \in Seq(AnyRows) /\ Len(tunnelEvents') <= EventCap
  BY <1>m, <1>n
<1>1. TunnelPageTypeOK'
  <2>1. daemonStatus' \in AllRows BY <1>a, <1>e DEF TunnelPageTypeOK, AllRows, RowsOf, Row
  <2> QED BY <2>1, <1>i, <1>j, <1>o, TypesKept DEF TunnelPageTypeOK
<1>2. MessagesFit'
  <2>1. ASSUME NEW s \in TunnelCalls
        PROVE  LET call == tunnelCalls'[s]
               IN  /\ call.at = "idle" <=> call.op = "none"
                   /\ call.op = "none" <=> call.tunnel = NoTunnel
                   /\ call.at = "ok" => DOMAIN call.rows = {call.tunnel}
                   /\ call.at = "failed" => call.rows = NoRows
                   /\ call.op \in {"start", "stop"} /\ call.at = "ok" =>
                        call.rows[call.tunnel] \notin {"absent", "deleted"}
    <3>1. CASE s # r BY <3>1, <1>h DEF MessagesFit, Answered
    <3>2. CASE s = r
      <4>1. /\ tunnelCalls'[s].rows = IF out[2] = "ok" THEN row ELSE NoRows
            /\ DOMAIN row = {t} /\ row[t] = out[1]
        BY <3>2, <1>h3, <1>f2
      <4>2. op \in {"start", "stop"} /\ out[2] = "ok" => out[1] \notin {"absent", "deleted"}
        BY <1>e
      <4> QED BY <3>2, <4>1, <4>2, <1>b, <1>e, <1>h2 DEF RowOps
    <3> QED BY <3>1, <3>2
  <2>2. tunnelEvents' \in Seq(AnyRows) BY <1>l, <1>o
  <2>3. ~tunnelSocket => tunnelEvents' = <<>> BY <1>a, <1>k DEF MessagesFit
  <2> QED BY <2>1, <2>2, <2>3, <1>j DEF MessagesFit, Answered
<1>3. CreatedLater' BY <1>o
<1>4. CallsKnow'
  <2>1. ASSUME NEW s \in TunnelCalls,
               tunnelCalls'[s].op = "create" /\ tunnelCalls'[s].at \in {"sent", "failed"}
        PROVE  /\ daemonStatus'[tunnelCalls'[s].tunnel] = "absent"
               /\ \A q \in TunnelCalls \ {s} : tunnelCalls'[q].tunnel # tunnelCalls'[s].tunnel
    <3>1. CASE s = r
      <4>1. op = "create" /\ out[1] = "absent" BY <3>1, <2>1, <1>e, <1>h
      <4> QED BY <3>1, <4>1, <1>b, <1>g, <1>h DEF TunnelInv, CallsKnow
    <3>2. CASE s # r
      <4>1. /\ tunnelCalls[s].op = "create" /\ tunnelCalls[s].at \in {"sent", "failed"}
            /\ daemonStatus[tunnelCalls[s].tunnel] = "absent" /\ tunnelCalls[s].tunnel \in Tunnels
        BY <2>1, <3>2, <1>h, CallFits DEF TunnelInv, CallsKnow
      <4>2. tunnelCalls[s].tunnel # t
        BY <4>1, <3>2, <1>h DEF TunnelInv, CallsKnow
      <4> QED BY <4>1, <4>2, <3>2, <2>1, <1>g, <1>h DEF TunnelInv, CallsKnow
    <3> QED BY <3>1, <3>2
  <2>2. ASSUME NEW s \in TunnelCalls, tunnelCalls'[s].op = "delete" /\ tunnelCalls'[s].at = "ok"
        PROVE  daemonStatus'[tunnelCalls'[s].tunnel] = "deleted"
    <3>1. CASE s = r BY <3>1, <2>2, <1>b, <1>e, <1>g, <1>h
    <3>2. CASE s # r
      <4>1. daemonStatus[tunnelCalls[s].tunnel] = "deleted" /\ tunnelCalls[s].tunnel \in Tunnels
        BY <2>2, <3>2, <1>h, CallFits DEF TunnelInv, CallsKnow
      <4>2. daemonStatus[t] = "deleted" => out[1] = "deleted"
        BY <1>b, <1>d, <1>e DEF RowOps
      <4> QED BY <4>1, <4>2, <1>g, <1>h
    <3> QED BY <3>1, <3>2
  <2> QED BY <2>1, <2>2 DEF CallsKnow
<1>5. News' BY <1>o
<1>6. Settling' BY <1>o
<1>7. FlagsStand' BY <1>h, <1>j DEF TunnelInv, FlagsStand, Sender
<1> QED BY <1>1, <1>2, <1>3, <1>4, <1>5, <1>6, <1>7 DEF TunnelInv, TunnelTypes


LEMMA CreateReplyKeepsTunnels ==
    ASSUME TunnelInv, NEW r \in TunnelCalls, CreateReply(r)
    PROVE  TunnelInv'
<1> USE TunnelPageAssumption
<1>0. TunnelTypes BY DEF TunnelInv
<1> USE <1>0 DEF TunnelTypes
<1> DEFINE t == tunnelCalls[r].tunnel
<1>b. /\ tunnelCalls[r].at \in {"ok", "failed"} /\ t \in Tunnels /\ t # NoTunnel
      /\ tunnelCalls[r].op = "create"
  BY CallFits DEF CreateReply, Answered
<1>c. /\ tunnelCalls' = [tunnelCalls EXCEPT ![r] = NoTunnelCall]
      /\ \A s \in TunnelCalls :
            tunnelCalls'[s] = IF s = r THEN NoTunnelCall ELSE tunnelCalls[s]
      /\ tunnelCalls' \in [TunnelCalls -> TunnelCall]
  BY CallsMade DEF CreateReply, TunnelPageTypeOK, TunnelCall
<1>d. /\ NoTunnelCall.op = "none" /\ NoTunnelCall.tunnel = NoTunnel
      /\ NoTunnelCall.at = "idle"
  BY DEF NoTunnelCall
<1>e. UNCHANGED <<daemonStatus, busy, tunnelEvents, listing, tunnelSocket, clobbered>>
      BY DEF CreateReply
<1>f. \A x : EventsOn(x)' = EventsOn(x) BY <1>e DEF EventsOn
<1>t. tunnelCalls[r].tunnel = t OBVIOUS
<1> HIDE DEF t
<1>g. \A x \in Tunnels : x # t \/ tunnelCalls[r].at = "failed" => shownStatus'[x] = shownStatus[x]
  BY <1>b, <1>t DEF CreateReply, TunnelPageTypeOK
<1>h. tunnelCalls[r].at = "ok" =>
        /\ shownStatus'[t] = "stopped"
        /\ doubled' = IF shownStatus[t] = "absent" THEN doubled ELSE doubled \cup {t}
        /\ ~outdated' => ~outdated /\ daemonStatus[t] = "stopped"
  BY <1>b, <1>t DEF CreateReply, TunnelPageTypeOK
<1>i. tunnelCalls[r].at = "failed" => UNCHANGED <<doubled, outdated, shownStatus>>
  BY DEF CreateReply
<1>j. tunnelCalls[r].at = "ok" => daemonStatus[t] # "absent"
  BY <1>b, <1>t DEF TunnelInv, CreatedLater, NotYet
<1>1. TunnelPageTypeOK'
  <2>1. shownStatus' \in [Tunnels -> RowStatus]
    BY <1>b, <1>t DEF CreateReply, TunnelPageTypeOK, RowStatus
  <2>2. doubled' \subseteq Tunnels BY <1>b, <1>h, <1>i DEF TunnelPageTypeOK
  <2>3. outdated' \in BOOLEAN BY <1>b DEF CreateReply, TunnelPageTypeOK
  <2> QED BY <2>1, <2>2, <2>3, <1>c, <1>e, TypesKept DEF TunnelPageTypeOK
<1>2. MessagesFit'
  <2>1. ASSUME NEW s \in TunnelCalls
        PROVE  LET call == tunnelCalls'[s]
               IN  /\ call.at = "idle" <=> call.op = "none"
                   /\ call.op = "none" <=> call.tunnel = NoTunnel
                   /\ call.at = "ok" => DOMAIN call.rows = {call.tunnel}
                   /\ call.at = "failed" => call.rows = NoRows
                   /\ call.op \in {"start", "stop"} /\ call.at = "ok" =>
                        call.rows[call.tunnel] \notin {"absent", "deleted"}
    BY <1>c, <1>d DEF MessagesFit, Answered
  <2> QED BY <2>1, <1>e DEF MessagesFit, Answered
<1>3. CreatedLater'
  <2> SUFFICES ASSUME NEW x \in Tunnels, daemonStatus'[x] = "absent" PROVE NotYet(x)'
    BY DEF CreatedLater
  <2>1. NotYet(x) BY <1>e DEF TunnelInv, CreatedLater
  <2>2. x = t => tunnelCalls[r].at = "failed" BY <1>b, <1>e, <1>j
  <2>3. shownStatus'[x] = "absent" BY <2>1, <2>2, <1>g DEF NotYet
  <2>4. \A s \in TunnelCalls : tunnelCalls'[s].tunnel = x => s # r
    BY <1>c, <1>d, TunnelPageAssumption
  <2> QED BY <2>1, <2>3, <2>4, <1>c, <1>e, <1>f DEF NotYet
<1>4. CallsKnow'
  <2> HIDE DEF CallsKnow
  <2>1. CallsKnow BY DEF TunnelInv
  <2>2. \A s \in TunnelCalls : \/ tunnelCalls'[s] = tunnelCalls[s]
                                 \/ /\ tunnelCalls'[s].op = "none"
                                    /\ tunnelCalls'[s].tunnel = NoTunnel
    BY <1>c, <1>d
  <2>3. \A s \in TunnelCalls : tunnelCalls[s].op = "create" => tunnelCalls[s].tunnel # NoTunnel
    BY DEF MessagesFit
  <2> QED BY <2>1, <2>2, <2>3, <1>e DEF CallsKnow
<1>5. News'
  BY <1>e, <1>f DEF TunnelInv, News, NewsOf
<1>6. Settling'
  <2> SUFFICES ASSUME tunnelSocket, ~outdated', NEW x \in Tunnels \ doubled'
               PROVE  RowSettles(x)'
    BY <1>e DEF Settling
  <2>1. ~outdated /\ x \notin doubled BY <1>b, <1>h, <1>i
  <2>2. RowSettles(x) BY <2>1 DEF TunnelInv, Settling
  <2>3. x # t => (CallOn(x, "delete", "ok") => CallOn(x, "delete", "ok")')
                 /\ (CallOn(x, "create", "ok") => CallOn(x, "create", "ok")')
    BY <1>c, <1>t DEF CallOn
  <2>4. CASE x # t BY <2>2, <2>3, <2>4, <1>e, <1>f, <1>g DEF RowSettles
  <2>5. CASE x = t /\ tunnelCalls[r].at = "failed"
    <3>1. daemonStatus[x] = "absent" BY <2>5, <1>b, <1>t DEF TunnelInv, CallsKnow
    <3> QED BY <3>1, <1>e DEF RowSettles
  <2>6. CASE x = t /\ tunnelCalls[r].at = "ok"
    <3>1. daemonStatus[x] = "stopped" BY <2>6, <1>h
    <3> QED BY <3>1, <2>6, <1>e, <1>h DEF RowSettles
  <2> QED BY <2>4, <2>5, <2>6, <1>b
<1>7. FlagsStand'
  <2>1. \A s \in TunnelCalls : tunnelCalls'[s].op \in RowOps => tunnelCalls'[s] = tunnelCalls[s]
    BY <1>c, <1>d DEF RowOps
  <2> QED BY <2>1, <1>e DEF TunnelInv, FlagsStand, Sender
<1> QED BY <1>1, <1>2, <1>3, <1>4, <1>5, <1>6, <1>7 DEF TunnelInv, TunnelTypes


LEMMA RunReplyKeepsTunnels ==
    ASSUME TunnelInv, NEW r \in TunnelCalls, RunReply(r)
    PROVE  TunnelInv'
<1> USE TunnelPageAssumption
<1>0. TunnelTypes BY DEF TunnelInv
<1> USE <1>0 DEF TunnelTypes
<1> DEFINE t == tunnelCalls[r].tunnel
<1>b. /\ tunnelCalls[r].at \in {"ok", "failed"} /\ t \in Tunnels /\ t # NoTunnel
      /\ tunnelCalls[r].op \in RowOps
  BY CallFits DEF RunReply, Answered
<1>c. /\ tunnelCalls' = [tunnelCalls EXCEPT ![r] = NoTunnelCall]
      /\ \A s \in TunnelCalls :
            tunnelCalls'[s] = IF s = r THEN NoTunnelCall ELSE tunnelCalls[s]
      /\ tunnelCalls' \in [TunnelCalls -> TunnelCall]
  BY CallsMade DEF RunReply, TunnelPageTypeOK, TunnelCall
<1>d. /\ NoTunnelCall.op = "none" /\ NoTunnelCall.tunnel = NoTunnel
      /\ NoTunnelCall.at = "idle"
  BY DEF NoTunnelCall
<1>e. UNCHANGED <<daemonStatus, tunnelEvents, listing, tunnelSocket>> BY DEF RunReply
<1>f. \A x : EventsOn(x)' = EventsOn(x) BY <1>e DEF EventsOn
<1>t. tunnelCalls[r].tunnel = t OBVIOUS
<1> HIDE DEF t
<1> DEFINE op == tunnelCalls[r].op
           row == tunnelCalls[r].rows
<1>r. tunnelCalls[r].at = "ok" => DOMAIN row = {t} /\ row \in AnyRows /\ row[t] \in Row
  <2>1. tunnelCalls[r].at = "ok" => DOMAIN row = {t} /\ row \in AnyRows
    BY <1>b, <1>t, CallFits DEF MessagesFit
  <2> QED BY <2>1, RowsFit
<1>g. \A x \in Tunnels : x # t \/ tunnelCalls[r].at = "failed" => shownStatus'[x] = shownStatus[x]
  BY <1>b, <1>t, <1>r DEF RunReply, ShowRow, TunnelPageTypeOK
<1>h. tunnelCalls[r].at = "ok" /\ op = "delete" =>
        shownStatus'[t] = "absent" /\ doubled' = doubled \ {t} /\ daemonStatus[t] = "deleted"
  BY <1>b, <1>t DEF RunReply, TunnelPageTypeOK, TunnelInv, CallsKnow
<1>i. tunnelCalls[r].at = "ok" /\ op # "delete" =>
        /\ shownStatus'[t] = IF shownStatus[t] # "absent" THEN row[t] ELSE "absent"
        /\ row[t] \notin {"absent", "deleted"} /\ doubled' = doubled
  BY <1>b, <1>t, <1>r DEF RunReply, ShowRow, MessagesFit, RowOps
<1>j. tunnelCalls[r].at = "failed" => doubled' = doubled
  BY DEF RunReply
<1>k. ~outdated' => ~outdated /\ (tunnelCalls[r].at = "ok" => row[t] = daemonStatus[t])
  BY <1>r DEF RunReply, Stale
<1>l. /\ tunnelCalls[r].left => busy' = busy
      /\ ~tunnelCalls[r].left => busy' = [busy EXCEPT ![ListOf(t)] = NoTunnel]
      /\ ~clobbered' => \/ ~clobbered /\ (tunnelCalls[r].left \/ busy[ListOf(t)] = t)
                        \/ \A s \in TunnelCalls \ {r} : ~Sender(s)
      /\ outdated' \in BOOLEAN /\ clobbered' \in BOOLEAN
  BY <1>t DEF RunReply, TunnelPageTypeOK, Sender
<1> HIDE DEF op, row
<1>1. TunnelPageTypeOK'
  <2>1. \A x \in Tunnels : shownStatus'[x] \in RowStatus
    BY <1>b, <1>g, <1>h, <1>i, <1>r DEF TunnelPageTypeOK, RowStatus, Row
  <2>2. shownStatus' \in [Tunnels -> RowStatus]
    <3>1. \E f : shownStatus' = [x \in Tunnels |-> f[x]]
      BY DEF RunReply, ShowRow, TunnelPageTypeOK
    <3> QED BY <2>1, <3>1
  <2>3. doubled' \subseteq Tunnels BY <1>b, <1>h, <1>i, <1>j DEF TunnelPageTypeOK
  <2>4. busy' \in [Lists -> Tunnels \cup {NoTunnel}]
    BY <1>l DEF TunnelPageTypeOK
  <2>5. tunnelEvents' = tunnelEvents /\ daemonStatus' = daemonStatus /\ listing' = listing
        /\ tunnelSocket' = tunnelSocket
    BY <1>e
  <2> QED BY <2>2, <2>3, <2>4, <2>5, <1>c, <1>l, TypesKept DEF TunnelPageTypeOK
<1>2. MessagesFit'
  <2>1. ASSUME NEW s \in TunnelCalls
        PROVE  LET call == tunnelCalls'[s]
               IN  /\ call.at = "idle" <=> call.op = "none"
                   /\ call.op = "none" <=> call.tunnel = NoTunnel
                   /\ call.at = "ok" => DOMAIN call.rows = {call.tunnel}
                   /\ call.at = "failed" => call.rows = NoRows
                   /\ call.op \in {"start", "stop"} /\ call.at = "ok" =>
                        call.rows[call.tunnel] \notin {"absent", "deleted"}
    BY <1>c, <1>d DEF MessagesFit, Answered
  <2> QED BY <2>1, <1>e DEF MessagesFit, Answered
<1>3. CreatedLater'
  <2> SUFFICES ASSUME NEW x \in Tunnels, daemonStatus'[x] = "absent" PROVE NotYet(x)'
    BY DEF CreatedLater
  <2>1. NotYet(x) BY <1>e DEF TunnelInv, CreatedLater
  <2>2. x # t BY <2>1, <1>b, <1>t DEF NotYet, RowOps
  <2>3. shownStatus'[x] = "absent" BY <2>1, <2>2, <1>g DEF NotYet
  <2>4. \A s \in TunnelCalls : tunnelCalls'[s].tunnel = x => s # r
    BY <1>c, <1>d, TunnelPageAssumption
  <2> QED BY <2>1, <2>3, <2>4, <1>c, <1>e, <1>f DEF NotYet
<1>4. CallsKnow'
  <2> HIDE DEF CallsKnow
  <2>1. CallsKnow BY DEF TunnelInv
  <2>2. \A s \in TunnelCalls : \/ tunnelCalls'[s] = tunnelCalls[s]
                                 \/ /\ tunnelCalls'[s].op = "none"
                                    /\ tunnelCalls'[s].tunnel = NoTunnel
    BY <1>c, <1>d
  <2>3. \A s \in TunnelCalls : tunnelCalls[s].op = "create" => tunnelCalls[s].tunnel # NoTunnel
    BY DEF MessagesFit
  <2> QED BY <2>1, <2>2, <2>3, <1>e DEF CallsKnow
<1>5. News'
  BY <1>e, <1>f DEF TunnelInv, News, NewsOf
<1>6. Settling'
  <2> SUFFICES ASSUME tunnelSocket, ~outdated', NEW x \in Tunnels \ doubled'
               PROVE  RowSettles(x)'
    BY <1>e DEF Settling
  <2>0. CASE x # t
    <3>1. ~outdated /\ x \notin doubled BY <2>0, <1>b, <1>h, <1>i, <1>j, <1>k
    <3>2. RowSettles(x) BY <3>1 DEF TunnelInv, Settling
    <3>3. (CallOn(x, "delete", "ok") => CallOn(x, "delete", "ok")')
          /\ (CallOn(x, "create", "ok") => CallOn(x, "create", "ok")')
      BY <2>0, <1>c, <1>t DEF CallOn
    <3> QED BY <2>0, <3>2, <3>3, <1>e, <1>f, <1>g DEF RowSettles
  <2>1. CASE x = t /\ tunnelCalls[r].at = "ok" /\ op = "delete"
    BY <2>1, <1>e, <1>h DEF RowSettles
  <2>2. CASE x = t /\ ~(tunnelCalls[r].at = "ok" /\ op = "delete")
    <3>1. /\ ~outdated /\ x \notin doubled
          /\ tunnelCalls[r].at = "ok" => row[x] = daemonStatus[x]
      BY <2>2, <1>b, <1>i, <1>j, <1>k
    <3>2. RowSettles(x) BY <3>1 DEF TunnelInv, Settling
    <3>3. (CallOn(x, "delete", "ok") => CallOn(x, "delete", "ok")')
          /\ (CallOn(x, "create", "ok") => CallOn(x, "create", "ok")')
      BY <2>2, <1>b, <1>c DEF CallOn, op, RowOps
    <3>4. shownStatus[x] = "absent" => shownStatus'[x] = "absent"
      BY <2>2, <1>b, <1>g, <1>i
    <3>5. shownStatus'[x] \in {shownStatus[x], daemonStatus[x]}
      BY <2>2, <3>1, <1>b, <1>g, <1>i
    <3>6. shownStatus'[x] = "absent" =>
            shownStatus[x] = "absent" \/ daemonStatus[x] = "deleted"
      BY <2>2, <1>b, <1>g, <1>i
    <3> QED BY <3>2, <3>3, <3>4, <3>5, <3>6, <1>e, <1>f DEF RowSettles
  <2> QED BY <2>0, <2>1, <2>2
<1>7. FlagsStand'
  <2> SUFFICES ASSUME ~clobbered' PROVE FlagsStand' BY DEF FlagsStand
  <2>1. \A s \in TunnelCalls : Sender(s)' =>
            s # r /\ tunnelCalls'[s] = tunnelCalls[s] /\ Sender(s)
    BY <1>c, <1>d DEF Sender, RowOps
  <2>2. CASE \A s \in TunnelCalls \ {r} : ~Sender(s)
    BY <2>1, <2>2 DEF FlagsStand
  <2>3. CASE ~clobbered /\ tunnelCalls[r].left
    BY <2>1, <2>3, <1>l DEF TunnelInv, FlagsStand
  <2>4. CASE ~clobbered /\ ~tunnelCalls[r].left /\ busy[ListOf(t)] = t
    <3>1. ASSUME NEW s \in TunnelCalls \ {r}, Sender(s)
          PROVE  busy'[ListOf(tunnelCalls[s].tunnel)] = tunnelCalls[s].tunnel
      <4>1. Sender(r) BY <2>4, <1>b DEF Sender
      <4>2. /\ busy[ListOf(tunnelCalls[s].tunnel)] = tunnelCalls[s].tunnel
            /\ tunnelCalls[s].tunnel # t
        BY <2>4, <3>1, <4>1, <1>t DEF TunnelInv, FlagsStand
      <4>3. ListOf(tunnelCalls[s].tunnel) \in Lists BY DEF ListOf, Lists
      <4> QED BY <4>2, <4>3, <2>4, <1>l DEF TunnelPageTypeOK
    <3> QED BY <2>1, <2>4, <3>1 DEF TunnelInv, FlagsStand
  <2> QED BY <2>2, <2>3, <2>4, <1>l
<1> QED BY <1>1, <1>2, <1>3, <1>4, <1>5, <1>6, <1>7 DEF TunnelInv, TunnelTypes


LEMMA TunnelsInitially == TunnelPageInit => TunnelInv
<1> SUFFICES ASSUME TunnelPageInit PROVE TunnelInv OBVIOUS
<1> USE TunnelPageAssumption, RowsFit DEF TunnelPageInit
<1>1. TunnelPageTypeOK
  <2>1. tunnelCalls \in [TunnelCalls -> TunnelCall] BY CallsMade
  <2>2. daemonStatus \in AllRows BY DEF AllRows, RowsOf, RowStatus
  <2>3. shownStatus \in [Tunnels -> RowStatus] BY DEF RowStatus
  <2>4. Len(tunnelEvents) = 0 OBVIOUS
  <2>5. doubled \subseteq Tunnels /\ busy \in [Lists -> Tunnels \cup {NoTunnel}]
        /\ listing \in AnyRows
    OBVIOUS
  <2>6. tunnelSocket \in BOOLEAN /\ clobbered \in BOOLEAN /\ outdated \in BOOLEAN OBVIOUS
  <2> HIDE DEF TunnelPageInit
  <2> QED BY <2>5, <2>6, <2>1, <2>2, <2>3, <2>4 DEF TunnelPageTypeOK, TunnelCall
<1>2. MessagesFit BY DEF MessagesFit, NoTunnelCall, Answered
<1>3. \A t : EventsOn(t) = {} BY DEF EventsOn
<1>4. CreatedLater BY <1>3 DEF CreatedLater, NotYet, NoTunnelCall
<1>5. CallsKnow BY DEF CallsKnow, NoTunnelCall
<1>6. News BY <1>3 DEF News, NewsOf
<1>7. Settling BY DEF Settling
<1>8. FlagsStand BY DEF FlagsStand, Sender, NoTunnelCall, RowOps
<1> QED BY <1>1, <1>2, <1>4, <1>5, <1>6, <1>7, <1>8 DEF TunnelInv, TunnelTypes

LEMMA TunnelsStep == TunnelInv /\ [TunnelPageNext]_tunnelPageVars => TunnelInv'
<1> SUFFICES ASSUME TunnelInv, [TunnelPageNext]_tunnelPageVars PROVE TunnelInv'
  OBVIOUS
<1>1. CASE UNCHANGED tunnelPageVars
  <2> USE <1>1 DEF tunnelPageVars, TunnelInv, TunnelTypes
  <2>1. TunnelPageTypeOK' BY DEF TunnelPageTypeOK
  <2>2. MessagesFit' BY DEF MessagesFit, Answered
  <2>3. CreatedLater' BY DEF CreatedLater, NotYet, EventsOn
  <2>4. CallsKnow' BY DEF CallsKnow
  <2>5. News' BY DEF News, NewsOf, EventsOn
  <2>6. Settling' BY DEF Settling, RowSettles, CallOn, EventsOn
  <2>7. FlagsStand' BY DEF FlagsStand, Sender
  <2> QED BY <2>1, <2>2, <2>3, <2>4, <2>5, <2>6, <2>7
<1>2. ASSUME NEW t \in Tunnels, CreateTunnel(t) \/ \E op \in RowOps : Run(t, op)
      PROVE  TunnelInv'
  BY <1>2, CreateTunnelKeepsTunnels, RunKeepsTunnels
<1>3. ASSUME NEW r \in TunnelCalls, Served(r) \/ CreateReply(r) \/ RunReply(r)
      PROVE  TunnelInv'
  BY <1>3, ServedKeepsTunnels, CreateReplyKeepsTunnels, RunReplyKeepsTunnels
<1> QED
  BY <1>1, <1>2, <1>3, ProxyPageReopenedKeepsTunnels, ListTakenKeepsTunnels,
     ListArrivesKeepsTunnels, TunnelSocketDropsKeepsTunnels, HandleWsEventKeepsTunnels
  DEF TunnelPageNext

LEMMA TunnelInvariant == TunnelPageSpec => []TunnelInv
BY TunnelsInitially, TunnelsStep, PTL DEF TunnelPageSpec

\* The variables of the Proxy page, its requests, events and lists keep their types,
\* and the socket's buffers their limit.
THEOREM TunnelPageTypes == TunnelPageSpec => []TunnelPageTypeOK
<1>1. TunnelInv => TunnelPageTypeOK BY DEF TunnelInv, TunnelTypes
<1> QED BY <1>1, TunnelInvariant, PTL

\* In whatever order replies, events and lists reach the page: when nothing is under
\* way it shows each row's status, unless the socket dropped, rows applied last had
\* changed by then, or a row is there twice.
THEOREM PageSettles == TunnelPageSpec => []PageShowsDaemon
<1>1. TunnelInv => PageShowsDaemon
  <2> SUFFICES ASSUME TunnelInv,
                      \A r \in TunnelCalls : tunnelCalls[r].at = "idle",
                      tunnelEvents = <<>>, tunnelSocket, ~outdated, doubled = {}
               PROVE  shownStatus = AsListed(daemonStatus)
    BY DEF PageShowsDaemon
  <2>1. shownStatus \in [Tunnels -> RowStatus] BY DEF TunnelInv, TunnelTypes, TunnelPageTypeOK
  <2>2. ASSUME NEW t \in Tunnels
        PROVE  shownStatus[t] =
                    IF daemonStatus[t] = "deleted" THEN "absent" ELSE daemonStatus[t]
    <3>1. RowSettles(t) /\ (daemonStatus[t] = "absent" => shownStatus[t] = "absent")
      BY DEF TunnelInv, Settling, CreatedLater, NotYet
    <3>2. \A op, at : at # "idle" => ~CallOn(t, op, at) BY DEF CallOn
    <3>3. EventsOn(t) = {} BY DEF EventsOn
    <3> QED BY <3>1, <3>2, <3>3 DEF RowSettles
  <2> QED BY <2>1, <2>2 DEF AsListed
<1> QED BY <1>1, TunnelInvariant, PTL

\* For any number of rows and requests: a second request on a row while one is under
\* way needs the one busy flag of its list to have been taken over or down by another
\* row, or one of the two to be of a list that the user has left since.
THEOREM RequestsOfARow == TunnelPageSpec => []OneRequestPerRow
<1>1. TunnelInv => OneRequestPerRow BY DEF TunnelInv, FlagsStand, Sender, OneRequestPerRow
<1> QED BY <1>1, TunnelInvariant, PTL

--------------------------------------------------------------------------------
(*****************************************************************************)
(* The groups: GroupInv.                                                     *)
(*****************************************************************************)

Rows == [Saved -> GroupTargets \cup {NoRow}]
GroupAnswers == {<<>>} \cup {<<x>> : x \in (SUBSET GroupIds) \cup Rows}
GroupCall ==
    [kind : Kinds \cup {"none"}, at : {"idle", "sent", "read", "answered", "refused"},
     on : GroupIds \cup Saved \cup {NoRow}, to : GroupTargets \cup {Ungrouped}, form : BOOLEAN,
     got : GroupAnswers]

\* What a call names is there to be named, and an answer has what it lists.
GroupCallsFit ==
    /\ groupCalls \in [GroupCalls -> GroupCall]
    /\ groups \subseteq created
    /\ \A r \in GroupCalls :
        LET call == groupCalls[r]
        IN  /\ call.at = "idle" => call.kind = "none"
            /\ call.at = "read" => call.kind \in {"update", "assign"}
            /\ call.kind = "update" => call.on \in created
            /\ call.kind = "assign" => call.on \in Saved /\ call.to \in GroupTargets
            /\ call.kind = "listGroups" /\ call.at = "answered" => call.got[1] \subseteq created
            /\ call.kind = "listRows" /\ call.at = "answered" => call.got[1] \in Rows

\* A call that will list the groups as they are now, or fail to.
WillTell(r) ==
    /\ groupCalls[r].kind = "listGroups"
    /\ groupCalls[r].at = "answered" => groupCalls[r].got[1] = dbGroups

GroupsTold ==
    \/ \E r \in GroupCalls : WillTell(r)
    \/ groups = dbGroups \/ groupsUnlisted \/ groupsOvertaken

GroupTypes == GroupPageTypeOK /\ GroupCallsFit
GroupInv == GroupTypes /\ RowsKeepTheirGroups /\ GroupsTold

-----------------------------------------------------------------------------
LEMMA GroupCallsMade ==
    /\ IdleCall \in GroupCall
    /\ \A kind \in Kinds, on \in GroupIds \cup Saved \cup {NoRow},
          to \in GroupTargets \cup {Ungrouped} :
       \A form \in BOOLEAN :
        [kind |-> kind, at |-> "sent", on |-> on, to |-> to, form |-> form, got |-> <<>>]
            \in GroupCall
<1>1. <<>> \in GroupAnswers BY DEF GroupAnswers
<1> QED BY <1>1 DEF IdleCall, GroupCall, GroupTargets, Kinds

\* The call lists next: groups after a change of groups, rows after one of rows.
LEMMA ListsNext ==
    ASSUME groupCalls \in [GroupCalls -> GroupCall], NEW r \in GroupCalls, NextLists(r)
    PROVE  /\ groupCalls' \in [GroupCalls -> GroupCall]
           /\ \A s \in GroupCalls \ {r} : groupCalls'[s] = groupCalls[s]
           /\ groupCalls'[r].at = "sent"
           /\ groupCalls'[r].kind = IF groupCalls[r].kind \in {"assign", "delete"}
                                    THEN "listRows" ELSE "listGroups"
<1> DEFINE kind == groupCalls[r].kind
           rows == kind \in {"assign", "delete"}
           old == groupCalls[r]
           new == [old EXCEPT !.at = "sent",
                    !.kind = IF rows THEN "listRows" ELSE "listGroups",
                    !.on = IF kind = "remove" THEN @ ELSE NoRow, !.to = IF rows THEN NoGroup ELSE @]
<1>1. old \in GroupCall OBVIOUS
<1>2. groupCalls' = [groupCalls EXCEPT ![r] = new] BY <1>1 DEF NextLists
<1>3. new \in GroupCall BY <1>1 DEF GroupCall, GroupTargets, Kinds
<1>4. new.at = "sent" /\ new.kind = IF rows THEN "listRows" ELSE "listGroups"
  BY <1>1 DEF GroupCall
<1> HIDE DEF new
<1> QED BY <1>2, <1>3, <1>4

\* A call that leaves names what is there to be named.
LEMMA GroupCallSent ==
    ASSUME GroupCallsFit, NEW kind \in Kinds \ {"listGroups", "listRows"},
           NEW on \in GroupIds \cup Saved \cup {NoRow}, NEW to \in GroupTargets \cup {Ungrouped},
           NEW form \in BOOLEAN, kind = "update" => on \in created,
           kind = "assign" => on \in Saved /\ to \in GroupTargets,
           GroupSends(kind, on, to, form), UNCHANGED <<created, groups>>
    PROVE  GroupCallsFit'
<1> DEFINE new == [kind |-> kind, at |-> "sent", on |-> on, to |-> to, form |-> form, got |-> <<>>]
<1>1. PICK r \in GroupCalls : groupCalls' = [groupCalls EXCEPT ![r] = new] BY DEF GroupSends
<1>2. new \in GroupCall BY GroupCallsMade
<1>3. /\ new.at = "sent" /\ new.kind = kind /\ new.on = on /\ new.to = to OBVIOUS
<1> HIDE DEF new
<1>4. groupCalls' \in [GroupCalls -> GroupCall] BY <1>1, <1>2 DEF GroupCallsFit
<1>5. \A s \in GroupCalls : groupCalls'[s] = IF s = r THEN new ELSE groupCalls[s]
  BY <1>1 DEF GroupCallsFit
<1> QED BY <1>3, <1>4, <1>5 DEF GroupCallsFit, Rows


LEMMA SubmitGroupFormKeepsGroups ==
    ASSUME GroupInv, SubmitGroupForm
    PROVE  GroupInv'
<1> USE GroupPageAssumption DEF GroupTypes, dbVars, pageVars, groupHistory
<1>0. GroupTypes /\ RowsKeepTheirGroups /\ GroupsTold BY DEF GroupInv
<1> USE <1>0
<1>c. created' = created /\ groups' = groups BY DEF SubmitGroupForm
<1>1. GroupCallsFit'
  <2>1. CASE GroupSends("create", NoRow, NoGroup, TRUE)
    BY <1>c, <2>1, GroupCallSent DEF GroupTargets, Kinds
  <2>2. ASSUME NEW g \in groups, GroupSends("update", g, NoGroup, TRUE) PROVE GroupCallsFit'
    <3>1. g \in created /\ g \in GroupIds BY DEF GroupCallsFit, GroupPageTypeOK
    <3> QED BY <1>c, <2>2, <3>1, GroupCallSent DEF GroupTargets, Kinds
  <2> QED BY <2>1, <2>2 DEF SubmitGroupForm
<1>2. GroupPageTypeOK'
  <2>1. \A s \in GroupCalls : groupCalls'[s] \in GroupCall BY <1>1 DEF GroupCallsFit
  <2>2. UNCHANGED <<dbGroups, dbRows, created, groups, connections, selectedGroupId, groupForm,
                    groupHistory>>
    BY DEF SubmitGroupForm, GroupPageTypeOK
  <2> QED BY <2>1, <2>2 DEF GroupPageTypeOK, GroupCall
<1>3. RowsKeepTheirGroups' BY DEF SubmitGroupForm, RowsKeepTheirGroups
<1>4. GroupsTold'
  BY DEF SubmitGroupForm, GroupSends, GroupCallsFit, GroupsTold, WillTell
<1> QED BY <1>1, <1>2, <1>3, <1>4 DEF GroupInv


LEMMA DeleteGroupClickedKeepsGroups ==
    ASSUME GroupInv, NEW g \in GroupIds, DeleteGroupClicked(g)
    PROVE  GroupInv'
<1> USE GroupPageAssumption DEF GroupTypes, dbVars, pageVars, groupHistory
<1>0. GroupTypes /\ RowsKeepTheirGroups /\ GroupsTold BY DEF GroupInv
<1> USE <1>0
<1>c. created' = created /\ groups' = groups BY DEF DeleteGroupClicked
<1>1. GroupCallsFit'
  <2>1. GroupSends("remove", g, selectedGroupId, FALSE) BY DEF DeleteGroupClicked
  <2>2. selectedGroupId \in GroupTargets \cup {Ungrouped} BY DEF GroupPageTypeOK
  <2> QED BY <1>c, <2>1, <2>2, GroupCallSent DEF Kinds
<1>2. GroupPageTypeOK'
  <2>1. \A s \in GroupCalls : groupCalls'[s] \in GroupCall BY <1>1 DEF GroupCallsFit
  <2>2. UNCHANGED <<dbGroups, dbRows, created, groups, connections, selectedGroupId, groupForm,
                    groupHistory>>
    BY DEF DeleteGroupClicked, GroupPageTypeOK
  <2> QED BY <2>1, <2>2 DEF GroupPageTypeOK, GroupCall
<1>3. RowsKeepTheirGroups' BY DEF DeleteGroupClicked, RowsKeepTheirGroups
<1>4. GroupsTold'
  BY DEF DeleteGroupClicked, GroupSends, GroupCallsFit, GroupsTold, WillTell
<1> QED BY <1>1, <1>2, <1>3, <1>4 DEF GroupInv


LEMMA AssignGroupKeepsGroups ==
    ASSUME GroupInv, NEW c \in Saved, NEW g \in GroupTargets, AssignGroup(c, g)
    PROVE  GroupInv'
<1> USE GroupPageAssumption DEF GroupTypes, dbVars, pageVars, groupHistory
<1>0. GroupTypes /\ RowsKeepTheirGroups /\ GroupsTold BY DEF GroupInv
<1> USE <1>0
<1>c. created' = created /\ groups' = groups BY DEF AssignGroup
<1>1. GroupCallsFit'
  <2>1. GroupSends("assign", c, g, FALSE) BY DEF AssignGroup
  <2> QED BY <1>c, <2>1, GroupCallSent DEF Kinds
<1>2. GroupPageTypeOK'
  <2>1. \A s \in GroupCalls : groupCalls'[s] \in GroupCall BY <1>1 DEF GroupCallsFit
  <2>2. UNCHANGED <<dbGroups, dbRows, created, groups, connections, selectedGroupId, groupForm,
                    groupHistory>>
    BY DEF AssignGroup, GroupPageTypeOK
  <2> QED BY <2>1, <2>2 DEF GroupPageTypeOK, GroupCall
<1>3. RowsKeepTheirGroups' BY DEF AssignGroup, RowsKeepTheirGroups
<1>4. GroupsTold'
  BY DEF AssignGroup, GroupSends, GroupCallsFit, GroupsTold, WillTell
<1> QED BY <1>1, <1>2, <1>3, <1>4 DEF GroupInv


LEMMA RemoveRowKeepsGroups ==
    ASSUME GroupInv, NEW c \in Saved, RemoveRow(c)
    PROVE  GroupInv'
<1> USE GroupPageAssumption DEF GroupTypes, dbVars, pageVars, groupHistory
<1>0. GroupTypes /\ RowsKeepTheirGroups /\ GroupsTold BY DEF GroupInv
<1> USE <1>0
<1>c. created' = created /\ groups' = groups BY DEF RemoveRow
<1>1. GroupCallsFit'
  <2>1. GroupSends("delete", c, NoGroup, FALSE) BY DEF RemoveRow
  <2> QED BY <1>c, <2>1, GroupCallSent DEF Kinds, GroupTargets
<1>2. GroupPageTypeOK'
  <2>1. \A s \in GroupCalls : groupCalls'[s] \in GroupCall BY <1>1 DEF GroupCallsFit
  <2>2. UNCHANGED <<dbGroups, dbRows, created, groups, connections, selectedGroupId, groupForm,
                    groupHistory>>
    BY DEF RemoveRow, GroupPageTypeOK
  <2> QED BY <2>1, <2>2 DEF GroupPageTypeOK, GroupCall
<1>3. RowsKeepTheirGroups' BY DEF RemoveRow, RowsKeepTheirGroups
<1>4. GroupsTold'
  BY DEF RemoveRow, GroupSends, GroupCallsFit, GroupsTold, WillTell
<1> QED BY <1>1, <1>2, <1>3, <1>4 DEF GroupInv


LEMMA SelectGroupKeepsGroups ==
    ASSUME GroupInv, SelectGroup
    PROVE  GroupInv'
<1> USE GroupPageAssumption, GroupCallsMade
       DEF SelectGroup, Selectable, GroupTypes, dbVars, pageVars, groupHistory
<1>0. GroupTypes /\ RowsKeepTheirGroups /\ GroupsTold BY DEF GroupInv
<1> USE <1>0
<1>1. GroupCallsFit'
  BY DEF GroupPageTypeOK, GroupCallsFit, GroupTargets, Rows
<1>2. GroupPageTypeOK'
  BY <1>1 DEF GroupPageTypeOK, GroupCallsFit, GroupCall, GroupTargets, Kinds
<1>3. RowsKeepTheirGroups'
  BY DEF GroupPageTypeOK, RowsKeepTheirGroups
<1>4. GroupsTold'
  BY DEF GroupPageTypeOK, GroupCallsFit, GroupsTold, WillTell
<1> QED BY <1>1, <1>2, <1>3, <1>4 DEF GroupInv


LEMMA GroupFormToggledKeepsGroups ==
    ASSUME GroupInv, GroupFormToggled
    PROVE  GroupInv'
<1> USE GroupPageAssumption, GroupCallsMade
       DEF GroupFormToggled, GroupTypes, dbVars, pageVars, groupHistory
<1>0. GroupTypes /\ RowsKeepTheirGroups /\ GroupsTold BY DEF GroupInv
<1> USE <1>0
<1>1. GroupCallsFit'
  BY DEF GroupPageTypeOK, GroupCallsFit, GroupTargets, Rows
<1>2. GroupPageTypeOK'
  BY <1>1 DEF GroupPageTypeOK, GroupCallsFit, GroupCall, GroupTargets, Kinds
<1>3. RowsKeepTheirGroups'
  BY DEF GroupPageTypeOK, RowsKeepTheirGroups
<1>4. GroupsTold'
  BY DEF GroupPageTypeOK, GroupCallsFit, GroupsTold, WillTell
<1> QED BY <1>1, <1>2, <1>3, <1>4 DEF GroupInv


LEMMA CreateGroupKeepsGroups ==
    ASSUME GroupInv, NEW r \in GroupCalls, CreateGroup(r)
    PROVE  GroupInv'
<1> USE GroupPageAssumption, GroupCallsMade
       DEF CreateGroup, GroupTypes, dbVars, pageVars, groupHistory
<1>0. GroupTypes /\ RowsKeepTheirGroups /\ GroupsTold BY DEF GroupInv
<1> USE <1>0
<1>n. /\ groupCalls' \in [GroupCalls -> GroupCall]
      /\ \A s \in GroupCalls \ {r} : groupCalls'[s] = groupCalls[s]
      /\ groupCalls'[r].at = "sent"
      /\ groupCalls'[r].kind = IF groupCalls[r].kind \in {"assign", "delete"}
                               THEN "listRows" ELSE "listGroups"
  BY ListsNext DEF GroupCallsFit
<1> USE <1>n
<1>1. GroupCallsFit'
  BY DEF GroupPageTypeOK, GroupCallsFit, GroupTargets, Rows
<1>2. GroupPageTypeOK'
  BY <1>1 DEF GroupPageTypeOK, GroupCallsFit, GroupCall, GroupTargets, Kinds
<1>3. RowsKeepTheirGroups'
  BY DEF GroupPageTypeOK, RowsKeepTheirGroups
<1>4. GroupsTold'
  BY DEF GroupPageTypeOK, GroupCallsFit, GroupsTold, WillTell
<1> QED BY <1>1, <1>2, <1>3, <1>4 DEF GroupInv


LEMMA ReadRowKeepsGroups ==
    ASSUME GroupInv, NEW r \in GroupCalls, ReadRow(r)
    PROVE  GroupInv'
<1> USE GroupPageAssumption, GroupCallsMade
       DEF ReadRow, GroupTypes, dbVars, pageVars, groupHistory
<1>0. GroupTypes /\ RowsKeepTheirGroups /\ GroupsTold BY DEF GroupInv
<1> USE <1>0
<1>1. GroupCallsFit'
  <2>1. PICK at \in {"read", "refused"} : groupCalls' = [groupCalls EXCEPT ![r].at = at]
    OBVIOUS
  <2>2. groupCalls[r].kind \in {"update", "assign"} OBVIOUS
  <2>3. \A s \in GroupCalls :
            /\ groupCalls'[s].kind = groupCalls[s].kind /\ groupCalls'[s].on = groupCalls[s].on
            /\ groupCalls'[s].to = groupCalls[s].to /\ groupCalls'[s].got = groupCalls[s].got
            /\ groupCalls'[s].at = IF s = r THEN at ELSE groupCalls[s].at
    BY <2>1 DEF GroupCallsFit, GroupCall
  <2>4. groupCalls' \in [GroupCalls -> GroupCall] BY <2>1 DEF GroupCallsFit, GroupCall
  <2>5. created' = created /\ groups' = groups OBVIOUS
  <2> HIDE DEF ReadRow
  <2> QED BY <2>2, <2>3, <2>4, <2>5 DEF GroupCallsFit, Rows
<1>2. GroupPageTypeOK'
  BY <1>1 DEF GroupPageTypeOK, GroupCallsFit, GroupCall, GroupTargets, Kinds
<1>3. RowsKeepTheirGroups'
  BY DEF GroupPageTypeOK, RowsKeepTheirGroups
<1>4. GroupsTold'
  BY DEF GroupPageTypeOK, GroupCallsFit, GroupsTold, WillTell
<1> QED BY <1>1, <1>2, <1>3, <1>4 DEF GroupInv


LEMMA SaveRowKeepsGroups ==
    ASSUME GroupInv, NEW r \in GroupCalls, SaveRow(r)
    PROVE  GroupInv'
<1> USE GroupPageAssumption, GroupCallsMade DEF SaveRow, GroupTypes, dbVars, pageVars, groupHistory
<1>0. GroupTypes /\ RowsKeepTheirGroups /\ GroupsTold BY DEF GroupInv
<1> USE <1>0
<1>n. /\ groupCalls' \in [GroupCalls -> GroupCall]
      /\ \A s \in GroupCalls \ {r} : groupCalls'[s] = groupCalls[s]
      /\ groupCalls'[r].at = "sent"
      /\ groupCalls'[r].kind = IF groupCalls[r].kind \in {"assign", "delete"}
                               THEN "listRows" ELSE "listGroups"
  BY ListsNext DEF GroupCallsFit
<1> USE <1>n
<1>1. GroupCallsFit'
  BY DEF GroupPageTypeOK, GroupCallsFit, GroupTargets, Rows
<1>2. GroupPageTypeOK'
  BY <1>1 DEF GroupPageTypeOK, GroupCallsFit, GroupCall, GroupTargets, Kinds
<1>3. RowsKeepTheirGroups'
  BY DEF GroupPageTypeOK, RowsKeepTheirGroups
<1>4. GroupsTold'
  BY DEF GroupPageTypeOK, GroupCallsFit, GroupsTold, WillTell
<1> QED BY <1>1, <1>2, <1>3, <1>4 DEF GroupInv


LEMMA DeleteGroupKeepsGroups ==
    ASSUME GroupInv, NEW r \in GroupCalls, DeleteGroup(r)
    PROVE  GroupInv'
<1> USE GroupPageAssumption, GroupCallsMade
       DEF DeleteGroup, GroupTypes, dbVars, pageVars, groupHistory
<1>0. GroupTypes /\ RowsKeepTheirGroups /\ GroupsTold BY DEF GroupInv
<1> USE <1>0
<1>n. /\ groupCalls' \in [GroupCalls -> GroupCall]
      /\ \A s \in GroupCalls \ {r} : groupCalls'[s] = groupCalls[s]
      /\ groupCalls'[r].at = "sent"
      /\ groupCalls'[r].kind = IF groupCalls[r].kind \in {"assign", "delete"}
                               THEN "listRows" ELSE "listGroups"
  BY ListsNext DEF GroupCallsFit
<1> USE <1>n
<1>1. GroupCallsFit'
  BY DEF GroupPageTypeOK, GroupCallsFit, GroupTargets, Rows
<1>2. GroupPageTypeOK'
  <2>1. \A s \in GroupCalls : groupCalls'[s] \in GroupCall BY <1>1 DEF GroupCallsFit
  <2>2. dbRows' \in [Saved -> GroupTargets \cup {NoRow}] /\ dbGroups' \subseteq created
    BY DEF GroupPageTypeOK, GroupTargets
  <2>3. UNCHANGED <<created, groups, connections, selectedGroupId, groupForm,
                    groupHistory>>
    BY DEF GroupPageTypeOK
  <2> HIDE DEF DeleteGroup
  <2> QED BY <2>1, <2>2, <2>3 DEF GroupPageTypeOK, GroupCall
<1>3. RowsKeepTheirGroups'
  BY DEF GroupPageTypeOK, RowsKeepTheirGroups
<1>4. GroupsTold'
  BY DEF GroupPageTypeOK, GroupCallsFit, GroupsTold, WillTell
<1> QED BY <1>1, <1>2, <1>3, <1>4 DEF GroupInv


LEMMA DeleteConnectionKeepsGroups ==
    ASSUME GroupInv, NEW r \in GroupCalls, DeleteConnection(r)
    PROVE  GroupInv'
<1> USE GroupPageAssumption, GroupCallsMade
       DEF DeleteConnection, GroupTypes, dbVars, pageVars, groupHistory
<1>0. GroupTypes /\ RowsKeepTheirGroups /\ GroupsTold BY DEF GroupInv
<1> USE <1>0
<1>n. /\ groupCalls' \in [GroupCalls -> GroupCall]
      /\ \A s \in GroupCalls \ {r} : groupCalls'[s] = groupCalls[s]
      /\ groupCalls'[r].at = "sent"
      /\ groupCalls'[r].kind = IF groupCalls[r].kind \in {"assign", "delete"}
                               THEN "listRows" ELSE "listGroups"
  BY ListsNext DEF GroupCallsFit
<1> USE <1>n
<1>1. GroupCallsFit'
  BY DEF GroupPageTypeOK, GroupCallsFit, GroupTargets, Rows
<1>2. GroupPageTypeOK'
  <2>1. \A s \in GroupCalls : groupCalls'[s] \in GroupCall BY <1>1 DEF GroupCallsFit
  <2>2. dbRows' \in [Saved -> GroupTargets \cup {NoRow}] BY DEF GroupPageTypeOK
  <2>3. UNCHANGED <<dbGroups, created, groups, connections, selectedGroupId, groupForm,
                    groupHistory>>
    BY DEF GroupPageTypeOK
  <2> HIDE DEF DeleteConnection
  <2> QED BY <2>1, <2>2, <2>3 DEF GroupPageTypeOK, GroupCall
<1>3. RowsKeepTheirGroups'
  BY DEF GroupPageTypeOK, RowsKeepTheirGroups
<1>4. GroupsTold'
  BY DEF GroupPageTypeOK, GroupCallsFit, GroupsTold, WillTell
<1> QED BY <1>1, <1>2, <1>3, <1>4 DEF GroupInv


LEMMA ListRowsKeepsGroups ==
    ASSUME GroupInv, NEW r \in GroupCalls, ListRows(r)
    PROVE  GroupInv'
<1> USE GroupPageAssumption, GroupCallsMade DEF ListRows, GroupTypes, dbVars, pageVars, groupHistory
<1>0. GroupTypes /\ RowsKeepTheirGroups /\ GroupsTold BY DEF GroupInv
<1> USE <1>0
<1>1. GroupCallsFit'
  <2>1. PICK at \in {"answered", "refused"} :
            groupCalls' = [groupCalls EXCEPT ![r].at = at, ![r].got = IF at = "refused" THEN <<>>
                ELSE <<IF groupCalls[r].kind = "listGroups" THEN dbGroups ELSE dbRows>>]
    OBVIOUS
  <2> DEFINE got == IF at = "refused" THEN <<>>
                    ELSE <<IF groupCalls[r].kind = "listGroups" THEN dbGroups ELSE dbRows>>
  <2>2. groupCalls[r].kind \in {"listGroups", "listRows"} OBVIOUS
  <2>3. \A s \in GroupCalls :
            /\ groupCalls'[s].kind = groupCalls[s].kind /\ groupCalls'[s].on = groupCalls[s].on
            /\ groupCalls'[s].to = groupCalls[s].to
            /\ groupCalls'[s].got = IF s = r THEN got ELSE groupCalls[s].got
            /\ groupCalls'[s].at = IF s = r THEN at ELSE groupCalls[s].at
    BY <2>1 DEF GroupCallsFit, GroupCall
  <2>4. at = "answered" => got[1] = IF groupCalls[r].kind = "listGroups" THEN dbGroups ELSE dbRows
    OBVIOUS
  <2>5. dbGroups \subseteq created /\ dbRows \in Rows BY DEF GroupPageTypeOK, Rows
  <2>6. got \in GroupAnswers
    <3>1. dbGroups \in (SUBSET GroupIds) \cup Rows /\ dbRows \in (SUBSET GroupIds) \cup Rows
      BY <2>5 DEF GroupPageTypeOK
    <3> QED BY <3>1 DEF GroupAnswers
  <2> HIDE DEF got
  <2> DEFINE old == groupCalls[r]
             new == [old EXCEPT !.at = at, !.got = got]
  <2>7. old \in GroupCall BY DEF GroupCallsFit
  <2>8. new \in GroupCall BY <2>6, <2>7 DEF GroupCall
  <2>9. groupCalls' = [groupCalls EXCEPT ![r] = new] BY <2>1, <2>7 DEF GroupCallsFit, got
  <2>10. groupCalls' \in [GroupCalls -> GroupCall] BY <2>8, <2>9 DEF GroupCallsFit
  <2>11. created' = created /\ groups' = groups OBVIOUS
  <2> HIDE DEF ListRows, got, new
  <2> QED BY <2>2, <2>3, <2>4, <2>5, <2>10, <2>11 DEF GroupCallsFit
<1>2. GroupPageTypeOK'
  BY <1>1 DEF GroupPageTypeOK, GroupCallsFit, GroupCall, GroupTargets, Kinds
<1>3. RowsKeepTheirGroups'
  BY DEF GroupPageTypeOK, RowsKeepTheirGroups
<1>4. GroupsTold'
  BY DEF GroupPageTypeOK, GroupCallsFit, GroupsTold, WillTell
<1> QED BY <1>1, <1>2, <1>3, <1>4 DEF GroupInv


LEMMA ChangeRefusedKeepsGroups ==
    ASSUME GroupInv, NEW r \in GroupCalls, ChangeRefused(r)
    PROVE  GroupInv'
<1> USE GroupPageAssumption, GroupCallsMade
       DEF ChangeRefused, IdleCall, GroupTypes, dbVars, pageVars, groupHistory
<1>0. GroupTypes /\ RowsKeepTheirGroups /\ GroupsTold BY DEF GroupInv
<1> USE <1>0
<1>1. GroupCallsFit'
  <2>1. groupCalls' = [groupCalls EXCEPT ![r] = IdleCall] BY DEF IdleCall
  <2>2. IdleCall.at = "idle" /\ IdleCall.kind = "none" BY DEF IdleCall
  <2>3. created' = created /\ groups' = groups OBVIOUS
  <2> HIDE DEF ChangeRefused, IdleCall
  <2>4. groupCalls' \in [GroupCalls -> GroupCall] BY <2>1 DEF GroupCallsFit
  <2>5. \A s \in GroupCalls : groupCalls'[s] = IF s = r THEN IdleCall ELSE groupCalls[s]
    BY <2>1 DEF GroupCallsFit
  <2> QED BY <2>2, <2>3, <2>4, <2>5 DEF GroupCallsFit, Rows
<1>2. GroupPageTypeOK'
  BY <1>1 DEF GroupPageTypeOK, GroupCallsFit, GroupCall, GroupTargets, Kinds
<1>3. RowsKeepTheirGroups'
  BY DEF GroupPageTypeOK, RowsKeepTheirGroups
<1>4. GroupsTold'
  BY DEF GroupPageTypeOK, GroupCallsFit, GroupsTold, WillTell
<1> QED BY <1>1, <1>2, <1>3, <1>4 DEF GroupInv


LEMMA GroupsListedKeepsGroups ==
    ASSUME GroupInv, NEW r \in GroupCalls, GroupsListed(r)
    PROVE  GroupInv'
<1> USE GroupPageAssumption, GroupCallsMade
       DEF GroupsListed, IdleCall, GroupTypes, dbVars, pageVars, groupHistory
<1>0. GroupTypes /\ RowsKeepTheirGroups /\ GroupsTold BY DEF GroupInv
<1> USE <1>0
<1>1. GroupCallsFit'
  BY DEF GroupPageTypeOK, GroupCallsFit, GroupTargets, Rows
<1>2. GroupPageTypeOK'
  <2>1. \A s \in GroupCalls : groupCalls'[s] \in GroupCall BY <1>1 DEF GroupCallsFit
  <2>2. groups' \subseteq created /\ selectedGroupId' \in GroupTargets \cup {Ungrouped}
    BY DEF GroupPageTypeOK, GroupCallsFit, GroupTargets
  <2>3. /\ UNCHANGED <<dbGroups, dbRows, created, connections, crossed>>
        /\ groupsUnlisted' \in BOOLEAN /\ groupsOvertaken' \in BOOLEAN /\ groupForm' \in BOOLEAN
    BY DEF GroupPageTypeOK
  <2> HIDE DEF GroupsListed
  <2> QED BY <2>1, <2>2, <2>3 DEF GroupPageTypeOK, GroupCall
<1>3. RowsKeepTheirGroups'
  BY DEF GroupPageTypeOK, RowsKeepTheirGroups
<1>4. GroupsTold'
  BY DEF GroupPageTypeOK, GroupCallsFit, GroupsTold, WillTell
<1> QED BY <1>1, <1>2, <1>3, <1>4 DEF GroupInv


LEMMA RowsListedKeepsGroups ==
    ASSUME GroupInv, NEW r \in GroupCalls, RowsListed(r)
    PROVE  GroupInv'
<1> USE GroupPageAssumption, GroupCallsMade
       DEF RowsListed, IdleCall, GroupTypes, dbVars, pageVars, groupHistory
<1>0. GroupTypes /\ RowsKeepTheirGroups /\ GroupsTold BY DEF GroupInv
<1> USE <1>0
<1>1. GroupCallsFit'
  BY DEF GroupPageTypeOK, GroupCallsFit, GroupTargets, Rows
<1>2. GroupPageTypeOK'
  <2>1. \A s \in GroupCalls : groupCalls'[s] \in GroupCall BY <1>1 DEF GroupCallsFit
  <2>2. connections' \in [Saved -> GroupTargets \cup {NoRow}]
    BY DEF GroupPageTypeOK, GroupCallsFit, Rows
  <2>3. UNCHANGED <<dbGroups, dbRows, created, groups, selectedGroupId, groupForm,
                    groupHistory>>
    BY DEF GroupPageTypeOK
  <2> HIDE DEF RowsListed
  <2> QED BY <2>1, <2>2, <2>3 DEF GroupPageTypeOK, GroupCall
<1>3. RowsKeepTheirGroups'
  BY DEF GroupPageTypeOK, RowsKeepTheirGroups
<1>4. GroupsTold'
  BY DEF GroupPageTypeOK, GroupCallsFit, GroupsTold, WillTell
<1> QED BY <1>1, <1>2, <1>3, <1>4 DEF GroupInv


LEMMA GroupsInitially == GroupPageInit => GroupInv
<1> SUFFICES ASSUME GroupPageInit PROVE GroupInv OBVIOUS
<1> USE GroupPageAssumption DEF GroupPageInit
<1>1. GroupCallsFit
  <2>1. groupCalls \in [GroupCalls -> GroupCall] BY GroupCallsMade
  <2> QED BY <2>1 DEF GroupCallsFit, IdleCall
<1>2. GroupPageTypeOK
  <2>1. \A r \in GroupCalls : groupCalls[r] = IdleCall OBVIOUS
  <2>2. dbRows \in [Saved -> GroupTargets \cup {NoRow}] BY DEF GroupTargets
  <2> QED BY <2>1, <2>2 DEF GroupPageTypeOK, IdleCall, GroupTargets
<1>3. RowsKeepTheirGroups BY DEF RowsKeepTheirGroups
<1>4. GroupsTold BY DEF GroupsTold
<1> QED BY <1>1, <1>2, <1>3, <1>4 DEF GroupInv, GroupTypes

LEMMA GroupsStep == GroupInv /\ [GroupPageNext]_groupPageVars => GroupInv'
<1> SUFFICES ASSUME GroupInv, [GroupPageNext]_groupPageVars PROVE GroupInv'
  OBVIOUS
<1>1. CASE UNCHANGED groupPageVars
  BY <1>1 DEF groupPageVars, GroupInv, GroupTypes, GroupPageTypeOK, GroupCallsFit,
              RowsKeepTheirGroups, GroupsTold, WillTell
<1>2. ASSUME NEW c \in Saved, RemoveRow(c) \/ \E g \in GroupTargets : AssignGroup(c, g)
      PROVE  GroupInv'
  BY <1>2, RemoveRowKeepsGroups, AssignGroupKeepsGroups
<1>3. ASSUME NEW r \in GroupCalls,
             \/ CreateGroup(r) \/ ReadRow(r) \/ SaveRow(r) \/ DeleteGroup(r)
             \/ DeleteConnection(r) \/ ListRows(r) \/ ChangeRefused(r) \/ GroupsListed(r)
             \/ RowsListed(r)
      PROVE  GroupInv'
  BY <1>3, CreateGroupKeepsGroups, ReadRowKeepsGroups, SaveRowKeepsGroups,
     DeleteGroupKeepsGroups, DeleteConnectionKeepsGroups, ListRowsKeepsGroups,
     ChangeRefusedKeepsGroups, GroupsListedKeepsGroups, RowsListedKeepsGroups
<1> QED
  BY <1>1, <1>2, <1>3, SelectGroupKeepsGroups, GroupFormToggledKeepsGroups,
     SubmitGroupFormKeepsGroups, DeleteGroupClickedKeepsGroups
  DEF GroupPageNext

LEMMA GroupInvariant == GroupPageSpec => []GroupInv
BY GroupsInitially, GroupsStep, PTL DEF GroupPageSpec

\* The daemon's groups and rows, the stores' copies of them and the calls keep their
\* types.
THEOREM GroupPageTypes == GroupPageSpec => []GroupPageTypeOK
<1>1. GroupInv => GroupPageTypeOK BY DEF GroupInv, GroupTypes
<1> QED BY <1>1, GroupInvariant, PTL

\* For any number of rows, groups and requests that read a row, change it and save it
\* whole: a row names a group that exists, unless it was saved after its group, or
\* itself, was deleted.
THEOREM RowsKeepGroups == GroupPageSpec => []RowsKeepTheirGroups
<1>1. GroupInv => RowsKeepTheirGroups BY DEF GroupInv
<1> QED BY <1>1, GroupInvariant, PTL

\* With no call for groups under way the sidebar lists the daemon's groups, unless a
\* list failed since it had them right or two list replies came in the wrong order.
THEOREM GroupsSettle == GroupPageSpec => []GroupListSettles
<1>1. GroupInv => GroupListSettles
  BY DEF GroupInv, GroupsTold, WillTell, GroupListSettles
<1> QED BY <1>1, GroupInvariant, PTL
================================================================================
