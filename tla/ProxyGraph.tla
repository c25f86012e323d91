------------------------------ MODULE ProxyGraph ------------------------------
(***************************************************************************)
(* The connections through one running SOCKS5 proxy: the tracker that      *)
(* counts them per destination (tracker.go), the snapshots of it that      *)
(* reach the page, and the graph the page draws of the last snapshot       *)
(* (ConnectionGraph.tsx), which must tell of the destinations what the     *)
(* tracker counted.  Go walks its map in any order, so a snapshot lists    *)
(* the destinations in any order; and it names their nodes with "." and    *)
(* ":" replaced, so two destinations may get the same node.                *)
(***************************************************************************)
EXTENDS Integers, FiniteSets, SequencesExt

CONSTANTS
    Dests,        \* destinations
    NodeOf,       \* destination -> the id of its node (destNodeID)
    Routed,       \* the connections through the proxy
    MaxNodes,     \* DEFAULT_MAX_NODES
    Segments,     \* of a status ring
    NoDest, NoNode

ASSUME ProxyGraphAssumption ==
    /\ NoDest \notin Dests
    /\ IsFiniteSet(Routed)
    /\ DOMAIN NodeOf = Dests /\ \A d \in Dests : NodeOf[d] # NoNode
    /\ MaxNodes \in Nat \ {0} /\ Segments \in Nat \ {0}

VARIABLES
    (* tracker.go *)
    openConns,    \* the connections that are registered
    destination,  \* connection -> its destination, NoDest before it was made
    destStats,    \* destination -> its counters
    closing,      \* connection -> the Close calls past their look at onClose
    (* the page *)
    snapshot,     \* stats[selectedId], as the last event brought it
    graphTab, filter, showAll, selectedNodeId

proxyGraphVars == <<openConns, destination, destStats, closing, snapshot, graphTab, filter,
                    showAll, selectedNodeId>>
trackerVars == <<openConns, destination, destStats, closing>>
viewVars == <<filter, showAll, selectedNodeId>>

GraphNodes == {NodeOf[d] : d \in Dests}
ListedConns(d) == destStats[d].total > 0
GraphRow == [dest : Dests, id : GraphNodes, active : 0..Cardinality(Routed),
             total : 0..Cardinality(Routed)]

ProxyGraphTypeOK ==
    /\ openConns \subseteq Routed
    /\ destination \in [Routed -> Dests \cup {NoDest}]
    /\ destStats \in [Dests -> [total : 0..Cardinality(Routed), active : 0..Cardinality(Routed)]]
    /\ closing \in [Routed -> 0..2]
    /\ ToSet(snapshot.graph) \subseteq GraphRow
    /\ snapshot.connections \subseteq Routed
    /\ graphTab \in {"topology", "trace"}
    /\ filter \in {"active", "all"} /\ showAll \in BOOLEAN
    /\ selectedNodeId \in GraphNodes \cup {NoNode}

ProxyGraphInit ==
    /\ openConns = {}
    /\ destination = [c \in Routed |-> NoDest]
    /\ destStats = [d \in Dests |-> [total |-> 0, active |-> 0]]
    /\ closing = [c \in Routed |-> 0]
    /\ snapshot = [graph |-> <<>>, connections |-> {}]
    /\ graphTab = "topology"
    /\ filter = "active" /\ showAll = FALSE /\ selectedNodeId = NoNode

--------------------------------------------------------------------------------
(* The tracker *)

\* A dial has succeeded: Register and Wrap.
Register(c, d) ==
    /\ destination[c] = NoDest
    /\ openConns' = openConns \cup {c}
    /\ destination' = [destination EXCEPT ![c] = d]
    /\ destStats' = [destStats EXCEPT ![d].total = @ + 1, ![d].active = @ + 1]
    /\ UNCHANGED <<closing, snapshot, graphTab, viewVars>>

\* trackedNetConn.Close up to onClose: both directions of the proxied connection
\* may come here before either has set onClose to nil.
CloseBegins(c) ==
    /\ c \in openConns \/ closing[c] > 0
    /\ closing[c] < 2
    /\ closing' = [closing EXCEPT ![c] = @ + 1]
    /\ UNCHANGED <<openConns, destination, destStats, snapshot, graphTab, viewVars>>

\* Unregister as it would be if it did not look whether the connection is there.
UnregisterUnseen(c) ==
    /\ closing[c] > 0
    /\ closing' = [closing EXCEPT ![c] = @ - 1]
    /\ openConns' = openConns \ {c}
    /\ destStats' = [destStats EXCEPT ![destination[c]].active = @ - 1]
    /\ UNCHANGED <<destination, snapshot, graphTab, viewVars>>

Unregister(c) ==
    /\ closing[c] > 0
    /\ closing' = [closing EXCEPT ![c] = @ - 1]
    /\ openConns' = openConns \ {c}
    /\ destStats' = IF c \notin openConns THEN destStats
                    ELSE [destStats EXCEPT ![destination[c]].active = @ - 1]
    /\ UNCHANGED <<destination, snapshot, graphTab, viewVars>>

\* buildGraphLocked: a node and an edge for every destination there ever was.
GraphOf(order) ==
    [i \in 1..Len(order) |-> [dest |-> order[i], id |-> NodeOf[order[i]],
        active |-> destStats[order[i]].active, total |-> destStats[order[i]].total]]

\* Snapshot, under one read lock, and the event or reply that brings it.
SnapshotArrives ==
    /\ \E order \in SetToSeqs({d \in Dests : ListedConns(d)}) :
        snapshot' = [graph |-> GraphOf(order), connections |-> openConns]
    /\ UNCHANGED <<trackerVars, graphTab, viewVars>>

--------------------------------------------------------------------------------
(* What the page makes of the snapshot *)

graph == snapshot.graph

\* edgeMap: of two edges to one node the last stays.
EdgeOf(id) == graph[CHOOSE i \in 1..Len(graph) :
                /\ graph[i].id = id
                /\ \A j \in (i + 1)..Len(graph) : graph[j].id # id]

AllDestNodes ==
    [i \in 1..Len(graph) |-> [graph[i] EXCEPT !.active = EdgeOf(graph[i].id).active,
                                              !.total = EdgeOf(graph[i].id).total]]

Before(a, b) == IF a.active # b.active THEN a.active > b.active ELSE a.total > b.total

\* The rows that the filter leaves, each told by its place in the snapshot, and the
\* stable order that sort gives them.
SortedDests == {i \in 1..Len(graph) : filter = "active" => AllDestNodes[i].active > 0}

SortedAhead(i) ==
    {j \in SortedDests : \/ Before(AllDestNodes[j], AllDestNodes[i])
                         \/ j < i /\ ~Before(AllDestNodes[i], AllDestNodes[j])}

\* The rows shown as they would be if the first ones were taken before the sort.
DisplayDestsUnsorted ==
    {i \in SortedDests : showAll \/ Cardinality({j \in SortedDests : j < i}) < MaxNodes}

\* The first MaxNodes of them, or all.
DisplayDests ==
    {i \in SortedDests : showAll \/ Cardinality(SortedAhead(i)) < MaxNodes}

Displayed(id) == \E i \in DisplayDests : AllDestNodes[i].id = id

\* A tunnel without a destination has no graph, and none of its clicks.
GraphShown == graphTab = "topology" /\ graph # <<>>

\* layout: busy destinations stand on the inner circle, idle ones on the outer.
TierOf(n) == IF n.active > 0 THEN "inner" ELSE "outer"

\* StatusRing: the share of its connections that are open, rounded up.
RingFilled(n) ==
    IF n.total = 0 THEN (IF n.active > 0 THEN Segments ELSE 0)
    ELSE LET share == (n.active * Segments + n.total - 1) \div n.total
         IN  IF share > Segments THEN Segments ELSE share

NodeIcon(n) == IF n.active > 0 THEN "globe" ELSE "server"

\* What the node of a row looks like: its badge counts the open connections, or,
\* when none is, all there were.
NodeDrawn(n) ==
    [tier |-> TierOf(n), icon |-> NodeIcon(n), ring |-> RingFilled(n),
     badge |-> IF n.active > 0 THEN n.active ELSE n.total]

\* The edges that end at a node that is displayed.
EdgesDrawn == {e \in ToSet(graph) : Displayed(e.id)}

\* CurvedEdge: a solid line with an arrow, or a dashed one.
EdgeDrawn(e) == IF e.active > 0 THEN "solid" ELSE "dashed"

SelectedNodes == {i \in DisplayDests : AllDestNodes[i].id = selectedNodeId}

\* The first of them, as find has it.
SelectedNode ==
    AllDestNodes[CHOOSE i \in SelectedNodes : SelectedNodes \cap SortedAhead(i) = {}]

SelectedConnections == {c \in snapshot.connections : destination[c] = SelectedNode.dest}

\* The panel below the graph, with the connections of the selected node.
PanelShown == GraphShown /\ SelectedNodes # {}

--------------------------------------------------------------------------------
(* Clicks *)

Toggled(id) == IF selectedNodeId = id THEN NoNode ELSE id

\* A node of the graph.
NodeClicked ==
    /\ GraphShown
    /\ \E i \in DisplayDests : selectedNodeId' = Toggled(AllDestNodes[i].id)
    /\ UNCHANGED <<trackerVars, snapshot, graphTab, filter, showAll>>

\* A row of the table, which lists the destinations the graph leaves out as well.
RowClicked ==
    /\ GraphShown
    /\ \E i \in SortedDests : selectedNodeId' = Toggled(AllDestNodes[i].id)
    /\ UNCHANGED <<trackerVars, snapshot, graphTab, filter, showAll>>

\* The panel's dismiss, or a click beside the nodes.
Dismissed ==
    /\ GraphShown
    /\ selectedNodeId' = NoNode
    /\ UNCHANGED <<trackerVars, snapshot, graphTab, filter, showAll>>

TogglesClicked ==
    /\ GraphShown
    /\ \/ /\ filter' \in {"active", "all"} \ {filter}
          /\ UNCHANGED showAll
       \/ /\ Cardinality(SortedDests) > MaxNodes
          /\ showAll' = ~showAll
          /\ UNCHANGED filter
    /\ UNCHANGED <<trackerVars, snapshot, graphTab, selectedNodeId>>

\* GraphTabToggle: the graph is taken down, and set up anew when it comes back.
GraphTabClicked ==
    /\ graphTab' \in {"topology", "trace"} \ {graphTab}
    /\ filter' = "active" /\ showAll' = FALSE /\ selectedNodeId' = NoNode
    /\ UNCHANGED <<trackerVars, snapshot>>

ProxyGraphNext ==
    \/ \E c \in Routed :
        \/ \E d \in Dests : Register(c, d)
        \/ CloseBegins(c) \/ Unregister(c)
    \/ SnapshotArrives
    \/ NodeClicked \/ RowClicked \/ Dismissed \/ TogglesClicked \/ GraphTabClicked

ProxyGraphSpec == ProxyGraphInit /\ [][ProxyGraphNext]_proxyGraphVars

--------------------------------------------------------------------------------
\* However often and by whichever side connections are closed, the tracker counts
\* as open the ones that are, and never more than there were.
CountersBalance ==
    \A d \in Dests :
        /\ destStats[d].active = Cardinality({c \in openConns : destination[c] = d})
        /\ destStats[d].active <= destStats[d].total

\* No two destinations of the snapshot share a node.
OwnNodes == \A i, j \in 1..Len(graph) : graph[i].id = graph[j].id => i = j

\* The graph leaves out no destination that is busier than one it shows; and where no
\* two destinations share a node, circle, icon, ring and edge agree on which are in
\* use, and the panel lists as many connections as the node's badge counts.
GraphTellsTheCounts ==
    /\ \A i \in SortedDests \ DisplayDests, j \in DisplayDests :
        ~Before(AllDestNodes[i], AllDestNodes[j])
    /\ OwnNodes =>
        /\ \A i \in DisplayDests :
            LET n == AllDestNodes[i]
                drawn == NodeDrawn(n)
            IN  /\ (drawn.tier = "inner") = (drawn.ring > 0)
                /\ (drawn.icon = "globe") = (drawn.ring > 0)
                /\ \A e \in EdgesDrawn :
                    e.id = n.id => (EdgeDrawn(e) = "solid") = (drawn.ring > 0)
        /\ PanelShown =>
            Cardinality(SelectedConnections) =
                IF NodeDrawn(SelectedNode).ring > 0 THEN NodeDrawn(SelectedNode).badge ELSE 0

================================================================================
