--------------------------------- MODULE MCPage ---------------------------------
(***************************************************************************)
(* The parts of the browser's page, each with the part of the daemon that  *)
(* answers it.  The parts share no variable: a behaviour takes up one of   *)
(* them, chosen when it begins, and leaves the others as they start.       *)
(***************************************************************************)
EXTENDS ConnectionPage, FilePage, TunnelPage, ProxyGraph, RouteTrace, GroupPage,
        VaultPage, KeyPage, ProxyForms, TerminalTabs, TLC

VARIABLE part

partVars == <<connPageVars, filePageVars, tunnelPageVars, proxyGraphVars, routeTraceVars,
              groupPageVars, vaultVars, keyVars, proxyFormsVars, tabVars>>
vars == <<part, partVars>>

Parts == {"connections", "files", "tunnels", "graph", "trace", "groups", "vault", "keys",
          "forms", "tabs"}

Init ==
    /\ part \in Parts
    /\ ConnPageInit /\ (part = "connections" \/ keyChanged = {})
    /\ FilePageInit
    /\ TunnelPageInit
    /\ ProxyGraphInit
    /\ RouteTraceInit /\ (part = "trace" \/ (connUp = {} /\ traceConn = "c1"))
    /\ GroupPageInit /\ (part = "groups" \/ created = {})
    /\ VaultPageInit /\ (part = "vault" \/ vaultHash = NoPassword)
    /\ KeyPageInit /\ (part = "keys" \/ keysGiven = {})
    /\ ProxyFormsInit
    /\ TerminalTabsInit

Next ==
    /\ UNCHANGED part
    /\ \/ /\ part = "connections"
          /\ UNCHANGED <<filePageVars, tunnelPageVars, proxyGraphVars, routeTraceVars,
                         groupPageVars, vaultVars, keyVars, proxyFormsVars, tabVars>>
          /\ ConnPageNext
       \/ /\ part = "files"
          /\ UNCHANGED <<connPageVars, tunnelPageVars, proxyGraphVars, routeTraceVars,
                         groupPageVars, vaultVars, keyVars, proxyFormsVars, tabVars>>
          /\ FilePageNext
       \/ /\ part = "tunnels"
          /\ UNCHANGED <<connPageVars, filePageVars, proxyGraphVars, routeTraceVars,
                         groupPageVars, vaultVars, keyVars, proxyFormsVars, tabVars>>
          /\ TunnelPageNext
       \/ /\ part = "graph"
          /\ UNCHANGED <<connPageVars, filePageVars, tunnelPageVars, routeTraceVars,
                         groupPageVars, vaultVars, keyVars, proxyFormsVars, tabVars>>
          /\ ProxyGraphNext
       \/ /\ part = "trace"
          /\ UNCHANGED <<connPageVars, filePageVars, tunnelPageVars, proxyGraphVars,
                         groupPageVars, vaultVars, keyVars, proxyFormsVars, tabVars>>
          /\ RouteTraceNext
       \/ /\ part = "groups"
          /\ UNCHANGED <<connPageVars, filePageVars, tunnelPageVars, proxyGraphVars,
                         routeTraceVars, vaultVars, keyVars, proxyFormsVars, tabVars>>
          /\ GroupPageNext
       \/ /\ part = "vault"
          /\ UNCHANGED <<connPageVars, filePageVars, tunnelPageVars, proxyGraphVars,
                         routeTraceVars, groupPageVars, keyVars, proxyFormsVars, tabVars>>
          /\ VaultPageNext
       \/ /\ part = "keys"
          /\ UNCHANGED <<connPageVars, filePageVars, tunnelPageVars, proxyGraphVars,
                         routeTraceVars, groupPageVars, vaultVars, proxyFormsVars, tabVars>>
          /\ KeyPageNext
       \/ /\ part = "forms"
          /\ UNCHANGED <<connPageVars, filePageVars, tunnelPageVars, proxyGraphVars,
                         routeTraceVars, groupPageVars, vaultVars, keyVars, tabVars>>
          /\ ProxyFormsNext
       \/ /\ part = "tabs"
          /\ UNCHANGED <<connPageVars, filePageVars, tunnelPageVars, proxyGraphVars,
                         routeTraceVars, groupPageVars, vaultVars, keyVars, proxyFormsVars>>
          /\ TerminalTabsNext

Spec == Init /\ [][Next]_vars

\* The variables of the part that moves keep their types.
TypeOK ==
    CASE part = "connections" -> ConnPageTypeOK
      [] part = "files" -> FilePageTypeOK
      [] part = "tunnels" -> TunnelPageTypeOK
      [] part = "graph" -> ProxyGraphTypeOK
      [] part = "trace" -> RouteTraceTypeOK
      [] part = "groups" -> GroupPageTypeOK
      [] part = "vault" -> VaultPageTypeOK
      [] part = "keys" -> KeyPageTypeOK
      [] part = "forms" -> ProxyFormsTypeOK
      [] part = "tabs" -> TerminalTabsTypeOK

--------------------------------------------------------------------------------
(* The instance *)

CONSTANTS r1, r2,     \* requests under way, of whichever part
          x1, x2      \* ids, connections or passwords that are alike

Requests == {r1, r2}
Alike == {x1, x2}

MCNodes == {<<"d">>, <<"g">>}
MCDirNodes == {<<"d">>}
MCDests == {"a.b", "a-b", "z"}
MCNodeOf == [d \in MCDests |-> IF d = "z" THEN "z" ELSE "a-b"]
MCTraceConns == {"c1", "c2"}
MCTraceHosts == {"h1", "h2"}
MCHostOf == [c \in MCTraceConns |-> IF c = "c1" THEN "h1" ELSE "h2"]
MCAnswers == {<<"alive">>, <<"timeout">>, <<"timeout", "alive">>}
MCPasswords == {x1, x2, "short"}
MCSymmetry == Permutations(Requests) \cup Permutations(Alike)
================================================================================
