------------------------------ MODULE TerminalTabs ------------------------------
(***************************************************************************)
(* The tabs of the terminal page, terminalStore.ts and Terminal.tsx, and   *)
(* the daemon's sessions they were opened for (handleCreateSession,        *)
(* handleKillSession).  What goes through a session is TerminalSession.    *)
(***************************************************************************)
EXTENDS Integers, Sequences, SequencesExt

CONSTANTS
    TabIds,        \* tabs, each opened once
    SessionIds,    \* ids the daemon can give to sessions, each once
    TabCalls,      \* requests under way at a time
    NoTab, NoSession

ASSUME TerminalTabsAssumption == NoTab \notin TabIds /\ NoSession \notin SessionIds

VARIABLES
    daemonSessions, sessionsGiven,   \* the manager's map, and the ids given out
    tabs,            \* the open tabs, in order
    tabSession,      \* the session each tab shows
    activeTabId,
    tabsOpened,
    tabCalls,
    (* history *)
    abandoned        \* sessions that a reconnect replaced, whose tab was closed or lost by
                     \* a reload, whose answer no page got, or whose kill got lost

tabVars == <<daemonSessions, sessionsGiven, tabs, tabSession, activeTabId, tabsOpened,
             tabCalls, abandoned>>

TabIdle == [kind |-> "none", at |-> "idle", tab |-> NoTab, session |-> NoSession]

TerminalTabsTypeOK ==
    /\ daemonSessions \subseteq sessionsGiven /\ sessionsGiven \subseteq SessionIds
    /\ abandoned \subseteq SessionIds
    /\ tabs \in Seq(tabsOpened) /\ tabsOpened \subseteq TabIds
    /\ tabSession \in [TabIds -> SessionIds \cup {NoSession}]
    /\ activeTabId \in ToSet(tabs) \cup {NoTab}
    /\ tabCalls \in [TabCalls ->
        [kind : {"none", "create", "reconnect", "kill", "gone"},
         at : {"idle", "sent", "done", "refused"},
         tab : TabIds \cup {NoTab}, session : SessionIds \cup {NoSession}]]

TerminalTabsInit ==
    /\ daemonSessions = {} /\ sessionsGiven = {} /\ abandoned = {}
    /\ tabs = <<>> /\ tabsOpened = {} /\ activeTabId = NoTab
    /\ tabSession = [b \in TabIds |-> NoSession]
    /\ tabCalls = [r \in TabCalls |-> TabIdle]

--------------------------------------------------------------------------------
(* The page *)

\* The filter of removeTab: no tab is open twice.
TabsWithout(b) == RemoveAt(tabs, CHOOSE i \in 1..Len(tabs) : tabs[i] = b)

TabSends(kind, tab, session) ==
    \E r \in TabCalls :
        /\ tabCalls[r].kind = "none"
        /\ tabCalls' = [tabCalls EXCEPT ![r] =
                [kind |-> kind, at |-> "sent", tab |-> tab, session |-> session]]

\* handleNewTab over a live connection: addTab asks for a session.
NewTab ==
    /\ TabSends("create", NoTab, NoSession)
    /\ UNCHANGED <<daemonSessions, sessionsGiven, tabs, tabSession, activeTabId, tabsOpened,
                   abandoned>>

\* handleReconnect of a tab, which the pane offers when its session has ended.
ReconnectTab(b) ==
    /\ b \in ToSet(tabs)
    /\ TabSends("reconnect", b, NoSession)
    /\ UNCHANGED <<daemonSessions, sessionsGiven, tabs, tabSession, activeTabId, tabsOpened,
                   abandoned>>

SelectTab(b) ==
    /\ b \in ToSet(tabs) \ {activeTabId}
    /\ activeTabId' = b
    /\ UNCHANGED <<daemonSessions, sessionsGiven, tabs, tabSession, tabsOpened, tabCalls,
                   abandoned>>

\* removeTab as it would be if it left the daemon alone.
RemoveTabQuietly(b) ==
    /\ b \in ToSet(tabs)
    /\ tabs' = TabsWithout(b)
    /\ activeTabId' = IF tabs' = <<>> THEN NoTab ELSE Head(tabs')
    /\ UNCHANGED <<daemonSessions, sessionsGiven, tabSession, tabsOpened, tabCalls, abandoned>>

\* removeTab sends a kill and does not wait for it.
RemoveTab(b) ==
    /\ b \in ToSet(tabs)
    /\ TabSends("kill", b, tabSession[b])
    /\ tabs' = TabsWithout(b)
    /\ activeTabId' = IF tabs' = <<>> THEN NoTab ELSE Head(tabs')
    /\ UNCHANGED <<daemonSessions, sessionsGiven, tabSession, tabsOpened, abandoned>>

\* The browser reloads the page: the store, which nothing keeps, starts again.  The
\* daemon goes on with what it was asked, but its answers find no page.
TabsReload ==
    /\ tabs' = <<>> /\ activeTabId' = NoTab
    /\ abandoned' = abandoned \cup {tabSession[b] : b \in ToSet(tabs)}
    /\ tabCalls' = [r \in TabCalls |->
            IF tabCalls[r].kind \in {"create", "reconnect"}
            THEN [tabCalls[r] EXCEPT !.kind = "gone"] ELSE tabCalls[r]]
    /\ UNCHANGED <<daemonSessions, sessionsGiven, tabSession, tabsOpened>>

--------------------------------------------------------------------------------
(* The daemon *)

\* handleCreateSession; for a reconnect the page has connected before.
SessionCreated(r) ==
    /\ tabCalls[r].kind \in {"create", "reconnect", "gone"} /\ tabCalls[r].at = "sent"
    /\ \/ \E s \in SessionIds \ sessionsGiven :
            /\ daemonSessions' = daemonSessions \cup {s}
            /\ sessionsGiven' = sessionsGiven \cup {s}
            /\ tabCalls' = [tabCalls EXCEPT ![r].at = "done", ![r].session = s]
       \/ /\ tabCalls' = [tabCalls EXCEPT ![r].at = "refused"]
          /\ UNCHANGED <<daemonSessions, sessionsGiven>>
    /\ UNCHANGED <<tabs, tabSession, activeTabId, tabsOpened, abandoned>>

\* handleKillSession, or a request that does not reach it.
SessionKilled(r) ==
    LET s == tabCalls[r].session
    IN  /\ tabCalls[r].kind = "kill"
        /\ \/ daemonSessions' = daemonSessions \ {s} /\ UNCHANGED abandoned
           \/ abandoned' = abandoned \cup {s} /\ UNCHANGED daemonSessions
        /\ tabCalls' = [tabCalls EXCEPT ![r] = TabIdle]
        /\ UNCHANGED <<sessionsGiven, tabs, tabSession, activeTabId, tabsOpened>>

--------------------------------------------------------------------------------
(* The answers *)

\* addTab after its await.
TabAdded(r) ==
    /\ tabCalls[r].kind = "create" /\ tabCalls[r].at = "done"
    /\ \E b \in TabIds \ tabsOpened :
        /\ tabs' = Append(tabs, b) /\ tabsOpened' = tabsOpened \cup {b}
        /\ tabSession' = [tabSession EXCEPT ![b] = tabCalls[r].session]
        /\ activeTabId' = b
    /\ tabCalls' = [tabCalls EXCEPT ![r] = TabIdle]
    /\ UNCHANGED <<daemonSessions, sessionsGiven, abandoned>>

\* updateTabSession: the tab, if it is still there, shows the new session.
TabSessionUpdated(r) ==
    LET b == tabCalls[r].tab
        s == tabCalls[r].session
    IN  /\ tabCalls[r].kind = "reconnect" /\ tabCalls[r].at = "done"
        /\ tabSession' = IF b \in ToSet(tabs) THEN [tabSession EXCEPT ![b] = s] ELSE tabSession
        /\ abandoned' = abandoned \cup {IF b \in ToSet(tabs) THEN tabSession[b] ELSE s}
        /\ tabCalls' = [tabCalls EXCEPT ![r] = TabIdle]
        /\ UNCHANGED <<daemonSessions, sessionsGiven, tabs, activeTabId, tabsOpened>>

\* The answer with the new session gets lost, or its page was reloaded meanwhile.
SessionUnheard(r) ==
    /\ tabCalls[r].at = "done"
    /\ abandoned' = abandoned \cup {tabCalls[r].session}
    /\ tabCalls' = [tabCalls EXCEPT ![r] = TabIdle]
    /\ UNCHANGED <<daemonSessions, sessionsGiven, tabs, tabSession, activeTabId, tabsOpened>>

\* A refused request leaves the tabs as they are.
TabCallRefused(r) ==
    /\ tabCalls[r].at = "refused"
    /\ tabCalls' = [tabCalls EXCEPT ![r] = TabIdle]
    /\ UNCHANGED <<daemonSessions, sessionsGiven, tabs, tabSession, activeTabId, tabsOpened,
                   abandoned>>

TerminalTabsNext ==
    \/ NewTab \/ TabsReload
    \/ \E b \in TabIds : ReconnectTab(b) \/ SelectTab(b) \/ RemoveTab(b)
    \/ \E r \in TabCalls :
        \/ SessionCreated(r) \/ SessionKilled(r)
        \/ TabAdded(r) \/ TabSessionUpdated(r) \/ SessionUnheard(r) \/ TabCallRefused(r)

TerminalTabsSpec == TerminalTabsInit /\ [][TerminalTabsNext]_tabVars

--------------------------------------------------------------------------------
\* A session the daemon keeps is shown by an open tab, or a request about it is under
\* way, or it was abandoned: a page reload loses the tabs of all sessions, a reconnect
\* the session that its new one replaces, or the new one when its tab was closed
\* meanwhile, and an answer or a kill can get lost.  Closing a tab abandons nothing.
SessionsHaveTabs ==
    \A s \in daemonSessions :
        \/ \E b \in ToSet(tabs) : tabSession[b] = s
        \/ \E r \in TabCalls : tabCalls[r].session = s
        \/ s \in abandoned

================================================================================
