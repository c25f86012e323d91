------------------------------ MODULE RouteTrace ------------------------------
(***************************************************************************)
(* The Route Trace tab (RouteTrace.tsx): a host is traced through the      *)
(* connection of the selected proxy, or from the daemon's machine when     *)
(* that connection is down, and the hops of the answer are drawn.  The     *)
(* answer may take a minute; meanwhile the user may type another host or   *)
(* select another proxy, and the tab stays as it is.                       *)
(***************************************************************************)
EXTENDS Integers, SequencesExt

CONSTANTS
    TraceConns,    \* connections of the proxies that can be selected
    TraceHosts,    \* hosts that can be typed
    HostOf,        \* connection -> its own host
    NoHost,        \* an empty field
    Answers        \* what a tracer may print: sequences of "alive" and "timeout"

ASSUME RouteTraceAssumption ==
    /\ NoHost \notin TraceHosts
    /\ HostOf \in [TraceConns -> TraceHosts]
    /\ \A answer \in Answers : answer \in Seq({"alive", "timeout"}) \ {<<>>}

VARIABLES
    traceConn,     \* the connection of the selected proxy
    host,          \* the host field
    traces,        \* requests under way
    tracing,       \* loading
    result,        \* <<>>, or the one result shown
    traceError,
    connUp,        \* connections that have an SSH client
    lastRun        \* history: the last trace asked for

routeTraceVars == <<traceConn, host, traces, tracing, result, traceError, connUp, lastRun>>

Trace == [conn : TraceConns, target : TraceHosts, moved : BOOLEAN]
NoTrace == [conn |-> NoHost, target |-> NoHost, moved |-> FALSE]

RouteTraceTypeOK ==
    /\ traceConn \in TraceConns
    /\ host \in TraceHosts \cup {NoHost}
    /\ traces \subseteq Trace
    /\ tracing \in BOOLEAN /\ traceError \in BOOLEAN
    /\ Len(result) <= 1
    /\ connUp \subseteq TraceConns
    /\ lastRun \in Trace \cup {NoTrace}

RouteTraceInit ==
    /\ traceConn \in TraceConns
    /\ host = HostOf[traceConn]
    /\ traces = {} /\ tracing = FALSE /\ result = <<>> /\ traceError = FALSE
    /\ connUp \in SUBSET TraceConns
    /\ lastRun = NoTrace

--------------------------------------------------------------------------------
(* The page *)

HostTyped ==
    /\ host' \in TraceHosts \cup {NoHost}
    /\ UNCHANGED <<traceConn, traces, tracing, result, traceError, connUp, lastRun>>

\* ProxyManager's selected row: the tab is given the other connection, and keeps
\* its field, its result and what it waits for.
ProxySelected ==
    /\ traceConn' \in TraceConns \ {traceConn}
    /\ lastRun' = IF lastRun = NoTrace THEN NoTrace ELSE [lastRun EXCEPT !.moved = TRUE]
    /\ traces' = {[t EXCEPT !.moved = TRUE] : t \in traces}
    /\ result' = IF result = <<>> THEN <<>> ELSE <<[result[1] EXCEPT !.run.moved = TRUE]>>
    /\ UNCHANGED <<host, tracing, traceError, connUp>>

\* runTrace as it would be if the button were not disabled meanwhile.
RunTraceAgain ==
    LET run == [conn |-> traceConn, target |-> host, moved |-> FALSE]
    IN  /\ host # NoHost
        /\ traces' = traces \cup {run} /\ lastRun' = run
        /\ tracing' = TRUE /\ traceError' = FALSE /\ result' = <<>>
        /\ UNCHANGED <<traceConn, host, connUp>>

\* runTrace up to its await.
RunTrace ==
    LET run == [conn |-> traceConn, target |-> host, moved |-> FALSE]
    IN  /\ ~tracing
        /\ IF host = NoHost
           THEN traceError' = TRUE /\ UNCHANGED <<traces, tracing, result, lastRun>>
           ELSE /\ traces' = traces \cup {run} /\ lastRun' = run
                /\ tracing' = TRUE /\ traceError' = FALSE /\ result' = <<>>
        /\ UNCHANGED <<traceConn, host, connUp>>

\* The tab is left and opened again: a new tab, to which no answer comes.
TabReopened ==
    /\ host' = HostOf[traceConn]
    /\ traces' = {} /\ tracing' = FALSE /\ result' = <<>> /\ traceError' = FALSE
    /\ lastRun' = NoTrace
    /\ UNCHANGED <<traceConn, connUp>>

--------------------------------------------------------------------------------
(* The daemon *)

\* markTarget: the last hop, if it answered.
MarkTarget(hops) ==
    IF Last(hops) \in {"alive", "gateway"} THEN Front(hops) \o <<"target">> ELSE hops

\* RunViaSSH; without an answer of a tracer there, the hops up to the gateway.
RunViaSSH(answer) ==
    LET known == <<"local", "gateway">>
    IN  [via |-> "ssh", error |-> answer = <<>>,
         hops |-> IF answer = <<>> THEN known ELSE MarkTarget(known \o answer)]

\* RunLocal; without an answer, pingFallback's one hop.
RunLocal(answer) ==
    [via |-> "local", error |-> Len(answer) = 0,
     hops |-> <<"local">> \o MarkTarget(IF answer = <<>> THEN <<"alive">> ELSE answer)]

\* pingFallback when the host does not answer either.
PingFails == [via |-> "local", error |-> TRUE, hops |-> <<"local", "timeout">>]

\* handleConnectionTrace, and the page's await is over: an answer, or a refusal.
TraceEnds(t) ==
    /\ traces' = traces \ {t}
    /\ tracing' = FALSE
    /\ \/ \E answer \in Answers \cup {<<>>} :
            \E r \in (IF t.conn \in connUp THEN {RunViaSSH(answer)}
                      ELSE {RunLocal(answer), PingFails}) :
                /\ result' = <<[run |-> t, via |-> r.via, hops |-> r.hops]>>
                /\ traceError' = r.error
       \/ traceError' = TRUE /\ UNCHANGED result
    /\ UNCHANGED <<traceConn, host, connUp, lastRun>>

ClientsChange ==
    /\ connUp' \in SUBSET TraceConns
    /\ UNCHANGED <<traceConn, host, traces, tracing, result, traceError, lastRun>>

RouteTraceNext ==
    \/ HostTyped \/ ProxySelected \/ RunTrace \/ TabReopened \/ ClientsChange
    \/ \E t \in traces : TraceEnds(t)

RouteTraceSpec == RouteTraceInit /\ [][RouteTraceNext]_routeTraceVars

--------------------------------------------------------------------------------
(* What is drawn *)

\* What takes the place of the result: a spinner, the result or nothing.
TabShows ==
    CASE result # <<>> -> "hops" [] tracing -> "spinner" [] OTHER -> "nothing"

\* TraceHopChain: the result's target and how it was traced stand above the hops.
ChainShown == [target |-> result[1].run.target, via |-> result[1].via,
               hops |-> Len(result[1].hops)]

\* HopGraph: the line from a hop to the next is broken when one timed out.
LineBroken(i) == "timeout" \in {result[1].hops[i], result[1].hops[i + 1]}

\* hopColors.
HopColor(status) ==
    CASE status = "timeout" -> "red" [] status = "target" -> "cyan"
      [] status \in {"gateway", "local"} -> "purple" [] OTHER -> "green"

--------------------------------------------------------------------------------
\* The tab shows the answer to the last trace that was asked for and no older one,
\* above hops that lead to the host it names; the connection the tab names is the
\* one traced through, unless another proxy was selected since.  Of a trace through
\* a connection the gateway stays the second hop, in purple; only the last hop is
\* drawn as the target, and no broken line leads to it except from a silent hop.
ShowsTheLastTrace ==
    /\ tracing = (traces # {}) /\ (tracing => TabShows = "spinner")
    /\ TabShows = "hops" =>
        LET hops == result[1].hops
        IN  /\ result[1].run = lastRun
            /\ ChainShown.target = lastRun.target
            /\ lastRun.conn = traceConn \/ lastRun.moved
            /\ ChainShown.via = "ssh" => hops[2] = "gateway" /\ HopColor(hops[2]) = "purple"
            /\ \A i \in 1..Len(hops) : HopColor(hops[i]) = "cyan" =>
                /\ i = ChainShown.hops
                /\ LineBroken(i - 1) => hops[i - 1] = "timeout"

================================================================================
