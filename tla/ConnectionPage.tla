---------------------------- MODULE ConnectionPage ----------------------------
(***************************************************************************)
(* What the page believes of the SSH connections, against the daemon's     *)
(* map: connectionStore.ts, fed by the replies of the connect and          *)
(* disconnect requests and by the connection_down events of /ws/system,    *)
(* which travel apart and arrive in any order.  Requests start at a card   *)
(* of the Connections page, at the Dashboard, at a terminal's Reconnect or *)
(* after a changed host key was trusted.  One action of the page is one    *)
(* run of JavaScript between two awaits.  The start of a tunnel connects   *)
(* too, at the daemon, and tells the page nothing of it.                   *)
(***************************************************************************)
EXTENDS FiniteSets

CONSTANTS
    Accounts,      \* saved connections (rows)
    LiveIds,       \* conn_ids the daemon can hand out (bounds the connects)
    ConnectCalls,  \* connect requests that can be under way at a time
    NoAccount, NoLive

ASSUME ConnPageAssumption == NoAccount \notin Accounts /\ NoLive \notin LiveIds

VARIABLES
    (* connectionStore.ts and the components around it *)
    activeConnIds,   \* account -> conn_id the page holds for it
    connectingIds,   \* accounts whose card says "Connecting"
    cardAlerts,      \* accounts whose card shows an alert
    hostKeyPrompt,   \* account whose changed host key is shown
    trusting,        \* accounts whose POST /known-hosts/trust is under way
    (* requests *)
    connects,        \* each connect request
    disconnects,     \* each account's disconnect request
    (* the daemon *)
    owner,           \* conn_id -> the account it was dialled for
    alive,           \* the conn_ids in the manager's map
    ending,          \* ended connections whose event is not emitted yet
    keyChanged,      \* accounts whose host shows another key than known_hosts
    tunnelDials,     \* connections a tunnel's start is dialling, by their conn_id
    (* /ws/system *)
    systemOpen, downEvents,
    (* history *)
    overtaken,       \* ended before the page knew them, or told to no page
    raced,           \* accounts connected while another step of theirs was under way
    byTunnel         \* the conn_ids of tunnels' starts

connPageVars == <<activeConnIds, connectingIds, cardAlerts, hostKeyPrompt, trusting,
                  connects, disconnects, owner, alive, ending, keyChanged,
                  tunnelDials, systemOpen, downEvents, overtaken, raced, byTunnel>>

\* How a request for a connection ended, or where it still is.
CallStates == {"idle", "daemon", "ok", "failed", "mismatch"}
NoCall == [account |-> NoAccount, from |-> "none", at |-> "idle", conn |-> NoLive]

\* A connection_down event; user is its reason user_disconnect, which comes
\* without a conn_id (conn stays known here, to say which one ended).
DownEvent == [account : Accounts, conn : LiveIds, user : BOOLEAN]

ConnPageTypeOK ==
    /\ activeConnIds \in [Accounts -> LiveIds \cup {NoLive}]
    /\ connectingIds \subseteq Accounts
    /\ cardAlerts \subseteq Accounts
    /\ hostKeyPrompt \in Accounts \cup {NoAccount}
    /\ trusting \subseteq Accounts
    /\ connects \in [ConnectCalls -> [account : Accounts \cup {NoAccount},
            from : {"none", "list", "other", "gone"}, at : CallStates,
            conn : LiveIds \cup {NoLive}]]
    /\ disconnects \in [Accounts -> {"idle", "daemon", "ok", "failed", "gone"}]
    /\ owner \in [LiveIds -> Accounts \cup {NoAccount}]
    /\ alive \subseteq {c \in LiveIds : owner[c] # NoAccount}
    /\ ending \subseteq DownEvent
    /\ keyChanged \subseteq Accounts
    /\ systemOpen \in BOOLEAN
    /\ downEvents \subseteq DownEvent
    /\ overtaken \subseteq LiveIds
    /\ raced \subseteq Accounts
    /\ tunnelDials \subseteq byTunnel
    /\ byTunnel \subseteq {c \in LiveIds : owner[c] # NoAccount}

ConnPageInit ==
    /\ activeConnIds = [a \in Accounts |-> NoLive]
    /\ connectingIds = {}
    /\ cardAlerts = {}
    /\ hostKeyPrompt = NoAccount
    /\ trusting = {}
    /\ connects = [r \in ConnectCalls |-> NoCall]
    /\ disconnects = [a \in Accounts |-> "idle"]
    /\ owner = [c \in LiveIds |-> NoAccount]
    /\ alive = {}
    /\ ending = {}
    /\ keyChanged \in SUBSET Accounts
    /\ systemOpen = TRUE
    /\ downEvents = {}
    /\ overtaken = {}
    /\ raced = {}
    /\ tunnelDials = {}
    /\ byTunnel = {}

daemonConnVars == <<owner, alive, ending, keyChanged, tunnelDials>>
pushVars == <<systemOpen, downEvents>>
historyVars == <<overtaken, raced, byTunnel>>

--------------------------------------------------------------------------------
(* What the page lets the user do *)

\* ConnectionCard's Terminal and Disconnect buttons, else its Connect button.
IsActive(a) == activeConnIds[a] # NoLive
MayConnectFromCard(a) == ~IsActive(a) /\ a \notin connectingIds

\* Recent Connections: Connect does not look at connectingIds.
MayConnectFromDashboard(a) == ~IsActive(a)

\* Nothing about the account is under way, and no connection of it lives or is
\* being dialled.
Quiet(a) ==
    /\ disconnects[a] = "idle"
    /\ \A r \in ConnectCalls : connects[r].account # a
    /\ \A c \in alive \cup tunnelDials : owner[c] # a
    /\ \A e \in ending \cup downEvents : e.account # a

\* A connect request leaves: the store's connect up to its await.
ConnectBegins(a, from) ==
    /\ \E r \in ConnectCalls :
        /\ connects[r].at = "idle"
        /\ connects' = [connects EXCEPT ![r] =
                [account |-> a, from |-> from, at |-> "daemon", conn |-> NoLive]]
    /\ connectingIds' = connectingIds \cup {a}
    /\ raced' = IF Quiet(a) THEN raced ELSE raced \cup {a}

\* handleConnect of the Connections page, past its guard on the vault (VaultPage
\* models it; the settings' reply can turn it at any time).
ConnectFromCard(a) ==
    /\ MayConnectFromCard(a)
    /\ ConnectBegins(a, "list")
    /\ UNCHANGED <<activeConnIds, cardAlerts, hostKeyPrompt, trusting,
                   disconnects, daemonConnVars, pushVars, overtaken, byTunnel>>

\* handleQuickConnect of the Dashboard.
ConnectFromDashboard(a) ==
    /\ MayConnectFromDashboard(a)
    /\ ConnectBegins(a, "other")
    /\ UNCHANGED <<activeConnIds, cardAlerts, hostKeyPrompt, trusting,
                   disconnects, daemonConnVars, pushVars, overtaken, byTunnel>>

\* handleReconnect of the Terminal page: whether or not a connection lives.
ConnectFromTerminal(a) ==
    /\ ConnectBegins(a, "other")
    /\ UNCHANGED <<activeConnIds, cardAlerts, hostKeyPrompt, trusting,
                   disconnects, daemonConnVars, pushVars, overtaken, byTunnel>>

--------------------------------------------------------------------------------
(* The daemon: handleConnect, handleDisconnect and the loss handler *)

\* The dial succeeded: Connect has registered the connection.
DaemonConnects(r) ==
    /\ connects[r].at = "daemon"
    /\ connects[r].account \notin keyChanged
    /\ \E c \in LiveIds :
        /\ owner[c] = NoAccount
        /\ owner' = [owner EXCEPT ![c] = connects[r].account]
        /\ alive' = alive \cup {c}
        /\ connects' = [connects EXCEPT ![r].at = "ok", ![r].conn = c]
    /\ UNCHANGED <<activeConnIds, connectingIds, cardAlerts, hostKeyPrompt, trusting,
                   disconnects, ending, keyChanged, tunnelDials, pushVars, historyVars>>

\* The vault, the network, the credentials or the host key stopped it.
DaemonRefuses(r) ==
    /\ connects[r].at = "daemon"
    /\ connects' = [connects EXCEPT ![r].at =
            IF connects[r].account \in keyChanged THEN "mismatch" ELSE "failed"]
    /\ UNCHANGED <<activeConnIds, connectingIds, cardAlerts, hostKeyPrompt, trusting,
                   disconnects, daemonConnVars, pushVars, historyVars>>

\* handleDisconnect takes any one connection of the account out of the map; the
\* reply of a request whose page is gone goes nowhere.
DaemonDisconnects(a) ==
    LET reply(result) == IF disconnects[a] = "gone" THEN "idle" ELSE result
    IN  /\ disconnects[a] \in {"daemon", "gone"}
        /\ \/ /\ \E c \in alive :
                    /\ owner[c] = a
                    /\ alive' = alive \ {c}
                    /\ ending' = ending \cup {[account |-> a, conn |-> c, user |-> TRUE]}
              /\ disconnects' = [disconnects EXCEPT ![a] = reply("ok")]
           \/ /\ \A c \in alive : owner[c] # a
              /\ disconnects' = [disconnects EXCEPT ![a] = reply("failed")]
              /\ UNCHANGED <<alive, ending>>
        /\ UNCHANGED <<activeConnIds, connectingIds, cardAlerts, hostKeyPrompt, trusting,
                       connects, owner, keyChanged, tunnelDials, pushVars, historyVars>>

\* ensureSSHForTunnel finds no connection of the tunnel's account and dials one.
TunnelLooksUp(a) ==
    /\ \A c \in alive : owner[c] # a
    /\ \E c \in LiveIds :
        /\ owner[c] = NoAccount
        /\ owner' = [owner EXCEPT ![c] = a]
        /\ tunnelDials' = tunnelDials \cup {c}
        /\ byTunnel' = byTunnel \cup {c}
    /\ raced' = IF Quiet(a) THEN raced ELSE raced \cup {a}
    /\ UNCHANGED <<activeConnIds, connectingIds, cardAlerts, hostKeyPrompt, trusting,
                   connects, disconnects, alive, ending, keyChanged, pushVars, overtaken>>

\* Its Connect has registered the connection: no event and no reply names it.
TunnelConnects(c) ==
    /\ c \in tunnelDials
    /\ owner[c] \notin keyChanged
    /\ tunnelDials' = tunnelDials \ {c}
    /\ alive' = alive \cup {c}
    /\ UNCHANGED <<activeConnIds, connectingIds, cardAlerts, hostKeyPrompt, trusting,
                   connects, disconnects, owner, ending, keyChanged, pushVars, historyVars>>

\* Or the account's secret did not open, or the dial failed.
TunnelDialFails(c) ==
    /\ c \in tunnelDials
    /\ tunnelDials' = tunnelDials \ {c}
    /\ UNCHANGED <<activeConnIds, connectingIds, cardAlerts, hostKeyPrompt, trusting,
                   connects, disconnects, owner, alive, ending, keyChanged, pushVars,
                   historyVars>>

\* monitor or the keep-alive finds the connection dead.
ConnectionLost(c) ==
    /\ c \in alive
    /\ alive' = alive \ {c}
    /\ ending' = ending \cup {[account |-> owner[c], conn |-> c, user |-> FALSE]}
    /\ UNCHANGED <<activeConnIds, connectingIds, cardAlerts, hostKeyPrompt, trusting,
                   connects, disconnects, owner, keyChanged, tunnelDials, pushVars,
                   historyVars>>

\* systemHub.Emit: the event goes to the sockets that are open now.
EmitDown(e) ==
    /\ e \in ending
    /\ ending' = ending \ {e}
    /\ IF systemOpen
       THEN downEvents' = downEvents \cup {e} /\ UNCHANGED overtaken
       ELSE overtaken' = overtaken \cup {e.conn} /\ UNCHANGED downEvents
    /\ UNCHANGED <<activeConnIds, connectingIds, cardAlerts, hostKeyPrompt, trusting,
                   connects, disconnects, owner, alive, keyChanged, tunnelDials,
                   systemOpen, raced, byTunnel>>

\* useSystemEvents opens its socket once: a dropped one is not opened again.
SystemSocketDrops ==
    /\ systemOpen
    /\ systemOpen' = FALSE
    /\ downEvents' = {}
    /\ overtaken' = overtaken \cup {e.conn : e \in downEvents}
    /\ UNCHANGED <<activeConnIds, connectingIds, cardAlerts, hostKeyPrompt, trusting,
                   connects, disconnects, daemonConnVars, raced, byTunnel>>

--------------------------------------------------------------------------------
(* Replies and events reach the page *)

\* connect's await is over, well: the newest reply is the account's connection.
ConnectReplyOk(r) ==
    LET a == connects[r].account
        c == connects[r].conn
    IN  /\ connects[r].at = "ok"
        /\ connects[r].from # "gone"
        /\ activeConnIds' = [activeConnIds EXCEPT ![a] = c]
        /\ connectingIds' = connectingIds \ {a}
        /\ connects' = [connects EXCEPT ![r] = NoCall]
        /\ UNCHANGED <<cardAlerts, hostKeyPrompt, trusting, disconnects, daemonConnVars,
                       pushVars, historyVars>>

\* connect's await threw; only the Connections page asks about a changed key.
ConnectReplyError(r) ==
    LET a == connects[r].account
    IN  /\ connects[r].at \in {"failed", "mismatch"}
        /\ connects[r].from # "gone"
        /\ connectingIds' = connectingIds \ {a}
        /\ cardAlerts' = cardAlerts \cup {a}
        /\ hostKeyPrompt' = IF connects[r].at = "mismatch" /\ connects[r].from = "list"
                            THEN a ELSE hostKeyPrompt
        /\ connects' = [connects EXCEPT ![r] = NoCall]
        /\ UNCHANGED <<activeConnIds, trusting, disconnects, daemonConnVars,
                       pushVars, historyVars>>

\* A reply to a page that was reloaded meanwhile.
ReplyToNobody(r) ==
    /\ connects[r].at \notin {"idle", "daemon"}
    /\ connects[r].from = "gone"
    /\ connects' = [connects EXCEPT ![r] = NoCall]
    /\ UNCHANGED <<activeConnIds, connectingIds, cardAlerts, hostKeyPrompt, trusting, disconnects,
                   daemonConnVars, pushVars, historyVars>>

\* The card's Disconnect button.
DisconnectBegins(a) ==
    /\ IsActive(a)
    /\ disconnects[a] = "idle"
    /\ disconnects' = [disconnects EXCEPT ![a] = "daemon"]
    /\ UNCHANGED <<activeConnIds, connectingIds, cardAlerts, hostKeyPrompt, trusting,
                   connects, daemonConnVars, pushVars, historyVars>>

\* disconnect as it would be if it forgot the connection also when the daemon refuses.
DisconnectReplyForgets(a) ==
    /\ disconnects[a] \in {"ok", "failed"}
    /\ disconnects' = [disconnects EXCEPT ![a] = "idle"]
    /\ activeConnIds' = [activeConnIds EXCEPT ![a] = NoLive]
    /\ UNCHANGED <<connectingIds, cardAlerts, hostKeyPrompt, trusting, connects,
                   daemonConnVars, pushVars, historyVars>>

\* disconnect's await is over: a refused disconnect throws and changes nothing.
DisconnectReply(a) ==
    /\ disconnects[a] \in {"ok", "failed"}
    /\ disconnects' = [disconnects EXCEPT ![a] = "idle"]
    /\ IF disconnects[a] = "ok"
       THEN activeConnIds' = [activeConnIds EXCEPT ![a] = NoLive]
       ELSE UNCHANGED activeConnIds
    /\ UNCHANGED <<connectingIds, cardAlerts, hostKeyPrompt, trusting, connects,
                   daemonConnVars, pushVars, historyVars>>

\* markConnectionLost as it would be if it kept the entry of the account.
MarkConnectionLostAlertOnly(e) ==
    /\ activeConnIds' = activeConnIds
    /\ cardAlerts' = IF e.user THEN cardAlerts ELSE cardAlerts \cup {e.account}

\* markConnectionLost: whichever connection ended, the account's entry goes.
MarkConnectionLost(e) ==
    /\ activeConnIds' = [activeConnIds EXCEPT ![e.account] = NoLive]
    /\ cardAlerts' = IF e.user THEN cardAlerts ELSE cardAlerts \cup {e.account}

\* useSystemEvents' onmessage for connection_down.
ConnectionDownArrives(e) ==
    /\ e \in downEvents
    /\ downEvents' = downEvents \ {e}
    /\ MarkConnectionLost(e)
    /\ overtaken' = IF \E r \in ConnectCalls : connects[r].conn = e.conn
                    THEN overtaken \cup {e.conn} ELSE overtaken
    /\ UNCHANGED <<connectingIds, hostKeyPrompt, trusting, connects, disconnects,
                   daemonConnVars, systemOpen, raced, byTunnel>>

\* clearCardAlert: the card's timer (CARD_ALERT_DISMISS_MS) or its X.
CardAlertCleared(a) ==
    /\ a \in cardAlerts
    /\ cardAlerts' = cardAlerts \ {a}
    /\ UNCHANGED <<activeConnIds, connectingIds, hostKeyPrompt, trusting,
                   connects, disconnects, daemonConnVars, pushVars, historyVars>>

--------------------------------------------------------------------------------
(* A changed host key *)

\* HostKeyTrustModal's two buttons, which its loading flag disables.
TrustBegins ==
    /\ hostKeyPrompt # NoAccount
    /\ trusting = {}
    /\ trusting' = {hostKeyPrompt}
    /\ UNCHANGED <<activeConnIds, connectingIds, cardAlerts, hostKeyPrompt,
                   connects, disconnects, daemonConnVars, pushVars, historyVars>>

TrustCancelled ==
    /\ hostKeyPrompt # NoAccount
    /\ trusting = {}
    /\ hostKeyPrompt' = NoAccount
    /\ UNCHANGED <<activeConnIds, connectingIds, cardAlerts, trusting,
                   connects, disconnects, daemonConnVars, pushVars, historyVars>>

\* handleTrustHostKey stores the key.
DaemonTrusts(a) ==
    /\ a \in trusting
    /\ keyChanged' = keyChanged \ {a}
    /\ UNCHANGED <<activeConnIds, connectingIds, cardAlerts, hostKeyPrompt, trusting,
                   connects, disconnects, owner, alive, ending, tunnelDials, pushVars,
                   historyVars>>

\* handleTrust goes on: handleHostKeyTrusted closes the prompt, whichever account
\* it shows by now, and connects the account that was asked about.
TrustReplyOk(a) ==
    /\ a \in trusting \ keyChanged
    /\ trusting' = {}
    /\ hostKeyPrompt' = NoAccount
    /\ ConnectBegins(a, "other")
    /\ UNCHANGED <<activeConnIds, cardAlerts, disconnects, daemonConnVars, pushVars,
                   overtaken, byTunnel>>

\* handleTrust failed: the prompt stays, with the error in it.
TrustReplyError ==
    /\ trusting \cap keyChanged # {}
    /\ trusting' = {}
    /\ UNCHANGED <<activeConnIds, connectingIds, cardAlerts, hostKeyPrompt, connects,
                   disconnects, daemonConnVars, pushVars, historyVars>>

--------------------------------------------------------------------------------
\* The browser reloads the page: every store starts again, with a new socket,
\* and nothing tells it of the connections that live.
PageReloads ==
    /\ activeConnIds' = [a \in Accounts |-> NoLive]
    /\ connectingIds' = {}
    /\ cardAlerts' = {}
    /\ hostKeyPrompt' = NoAccount
    /\ trusting' = {}
    /\ connects' = [r \in ConnectCalls |->
            IF connects[r].at = "idle" THEN NoCall ELSE [connects[r] EXCEPT !.from = "gone"]]
    /\ disconnects' = [a \in Accounts |->
            IF disconnects[a] \in {"daemon", "gone"} THEN "gone" ELSE "idle"]
    /\ systemOpen' = TRUE
    /\ downEvents' = {}
    /\ overtaken' = overtaken \cup {e.conn : e \in downEvents}
    /\ raced' = Accounts
    /\ UNCHANGED <<daemonConnVars, byTunnel>>

ConnPageNext ==
    \/ \E a \in Accounts :
        \/ ConnectFromCard(a) \/ ConnectFromDashboard(a) \/ ConnectFromTerminal(a)
        \/ DisconnectBegins(a) \/ DaemonDisconnects(a) \/ DisconnectReply(a)
        \/ CardAlertCleared(a) \/ DaemonTrusts(a) \/ TrustReplyOk(a)
        \/ TunnelLooksUp(a)
    \/ \E r \in ConnectCalls :
        \/ DaemonConnects(r) \/ DaemonRefuses(r)
        \/ ConnectReplyOk(r) \/ ConnectReplyError(r) \/ ReplyToNobody(r)
    \/ \E c \in LiveIds : ConnectionLost(c) \/ TunnelConnects(c) \/ TunnelDialFails(c)
    \/ \E e \in ending : EmitDown(e)
    \/ \E e \in downEvents : ConnectionDownArrives(e)
    \/ SystemSocketDrops
    \/ TrustBegins \/ TrustCancelled \/ TrustReplyError
    \/ PageReloads

ConnPageSpec == ConnPageInit /\ [][ConnPageNext]_connPageVars

--------------------------------------------------------------------------------
\* A card that says "live" names a connection of the daemon's map, or one whose
\* connection_down is still on its way, reached no open socket, or overtook the
\* reply that told the page of the connection.
LiveCardsAreLive ==
    \A a \in Accounts : IsActive(a) =>
        LET c == activeConnIds[a]
        IN  \/ c \in alive \cup overtaken
            \/ \E e \in ending \cup downEvents : e.conn = c

\* The page shows every connection it asked the daemon for: it loses sight of a live
\* one only by a reload, or when the account was connected, by the page or by a
\* tunnel's start, while another connection, request or event of it was under way.
\* Of a connection that a tunnel's start made the page is never told.
NoConnectionGoesAstray ==
    \A c \in alive \ byTunnel : owner[c] \notin raced =>
        \/ activeConnIds[owner[c]] = c
        \/ \E r \in ConnectCalls : connects[r].conn = c

================================================================================
