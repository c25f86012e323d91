------------------------------- MODULE ProxyForms -------------------------------
(***************************************************************************)
(* The forms of the Proxy page that create tunnels: Socks5Config.tsx, which*)
(* suggests a free local port, and the form for a local forward in         *)
(* PortForwardList.tsx, which suggests a fixed one.  ProxyManager gives    *)
(* the SOCKS form a key made of the listed proxies and their ports, so a   *)
(* list that changes mounts a new form.                                    *)
(***************************************************************************)
EXTENDS Integers, FiniteSets

CONSTANTS
    ProxyIds,      \* ids of tunnels
    FirstPort,     \* 1080
    TypedPorts,    \* ports the user may type
    FormCalls      \* create requests under way at a time

ASSUME ProxyFormsAssumption ==
    /\ FirstPort \in Nat \ {0} /\ TypedPorts \subseteq Nat \ {0}
    /\ IsFiniteSet(ProxyIds)

VARIABLES
    proxyRows,     \* the daemon's tunnels: id -> row
    rowsListed,    \* the page's list of them
    socksForm,     \* the SOCKS form, when its modal is open
    forwardOpen,   \* the modal of the other form
    formCalls

proxyFormsVars == <<proxyRows, rowsListed, socksForm, forwardOpen, formCalls>>

Gone == [type |-> "none", port |-> 0, suggested |-> FALSE]
\* waits has the request the form waits for.
FormClosed == [open |-> FALSE, port |-> 0, typed |-> FALSE, waits |-> {}]
FormIdle ==
    [at |-> "idle", type |-> "none", port |-> 0, suggested |-> FALSE, seen |-> {}, row |-> {}]

\* Rows as the page knows them.
Bare(rows) == [t \in ProxyIds |-> [rows[t] EXCEPT !.suggested = FALSE]]

UsedPorts(rows) == {rows[t].port : t \in {u \in ProxyIds : rows[u].type = "socks5"}}
FormPorts == TypedPorts \cup FirstPort..(FirstPort + Cardinality(ProxyIds))

ProxyFormsTypeOK ==
    /\ \A t \in ProxyIds :
        {proxyRows[t], rowsListed[t]} \subseteq
            {Gone} \cup [type : {"socks5", "local"}, port : FormPorts, suggested : BOOLEAN]
    /\ socksForm \in {FormClosed} \cup
            [open : {TRUE}, port : FormPorts, typed : BOOLEAN, waits : SUBSET FormCalls]
    /\ forwardOpen \in BOOLEAN
    /\ \A r \in FormCalls :
        /\ formCalls[r].at \in {"idle", "sent", "ok", "failed"}
        /\ formCalls[r].type \in {"none", "socks5", "local"}
        /\ formCalls[r].port \in FormPorts \cup {0}
        /\ formCalls[r].seen \subseteq FormPorts
        /\ formCalls[r].row \subseteq ProxyIds

ProxyFormsInit ==
    /\ proxyRows = [t \in ProxyIds |-> Gone] /\ rowsListed = proxyRows
    /\ socksForm = FormClosed /\ forwardOpen = FALSE
    /\ formCalls = [r \in FormCalls |-> FormIdle]

--------------------------------------------------------------------------------
(* The forms *)

\* nextSocksPort as it would be if it only counted the proxies.
NextSocksPortByCount(rows) == FirstPort + Cardinality(UsedPorts(rows))

\* nextSocksPort: the first port from 1080 on that no listed SOCKS proxy has; local
\* forwards are not looked at.
NextSocksPort(rows) ==
    CHOOSE p \in FirstPort..(FirstPort + Cardinality(ProxyIds)) :
        /\ p \notin UsedPorts(rows)
        /\ \A q \in FirstPort..(p - 1) : q \in UsedPorts(rows)

FreshForm(rows) ==
    [open |-> TRUE, port |-> NextSocksPort(rows), typed |-> FALSE, waits |-> {}]

\* The New SOCKS5 button mounts the form; Cancel unmounts it.
SocksFormToggled ==
    /\ socksForm' = IF socksForm.open THEN FormClosed ELSE FreshForm(rowsListed)
    /\ UNCHANGED <<proxyRows, rowsListed, forwardOpen, formCalls>>

PortTyped(p) ==
    /\ socksForm.open
    /\ socksForm' = [socksForm EXCEPT !.port = p, !.typed = TRUE]
    /\ UNCHANGED <<proxyRows, rowsListed, forwardOpen, formCalls>>

FormSends(r, call) ==
    /\ formCalls[r].at = "idle"
    /\ formCalls' = [formCalls EXCEPT ![r] = call]

\* handleSubmit of the SOCKS form.
SubmitSocks(r) ==
    /\ socksForm.open /\ socksForm.waits = {}
    /\ FormSends(r, [at |-> "sent", type |-> "socks5", port |-> socksForm.port, row |-> {},
                     suggested |-> ~socksForm.typed,
                     seen |-> IF socksForm.typed THEN {} ELSE UsedPorts(rowsListed)])
    /\ socksForm' = [socksForm EXCEPT !.waits = {r}]
    /\ UNCHANGED <<proxyRows, rowsListed, forwardOpen>>

ForwardFormToggled ==
    /\ forwardOpen' = ~forwardOpen
    /\ UNCHANGED <<proxyRows, rowsListed, socksForm, formCalls>>

\* handleCreateForward, whose button can be pressed again while it waits.
SubmitForward(r, p) ==
    /\ forwardOpen
    /\ FormSends(r, [FormIdle EXCEPT !.at = "sent", !.type = "local", !.port = p])
    /\ UNCHANGED <<proxyRows, rowsListed, socksForm, forwardOpen>>

--------------------------------------------------------------------------------
(* The daemon *)

\* handleCreateTunnel, which leaves conflicts of ports to the start of the tunnel.  A
\* row counts as suggested if its port was, from a list that still holds.
RowCreated(r) ==
    LET call == formCalls[r]
    IN  /\ call.at = "sent"
        /\ \/ \E t \in ProxyIds :
                /\ proxyRows[t] = Gone /\ rowsListed[t] = Gone
                /\ \A q \in FormCalls : t \notin formCalls[q].row
                /\ proxyRows' = [proxyRows EXCEPT ![t] =
                        [type |-> call.type, port |-> call.port,
                         suggested |-> call.suggested /\ call.seen = UsedPorts(proxyRows)]]
                /\ formCalls' = [formCalls EXCEPT ![r].at = "ok", ![r].row = {t}]
           \/ formCalls' = [formCalls EXCEPT ![r].at = "failed"] /\ UNCHANGED proxyRows
    /\ UNCHANGED <<rowsListed, socksForm, forwardOpen>>

RowDeleted(t) ==
    /\ proxyRows[t] # Gone
    /\ proxyRows' = [proxyRows EXCEPT ![t] = Gone]
    /\ UNCHANGED <<rowsListed, socksForm, forwardOpen, formCalls>>

--------------------------------------------------------------------------------
(* The page hears of it *)

\* The key of the SOCKS form.
SocksKey(rows) ==
    {<<t, rows[t].port>> : t \in {u \in ProxyIds : rows[u].type = "socks5"}}

\* The form after the page's rows have become rows.
FormAfter(rows) ==
    IF socksForm.open /\ SocksKey(rows) # SocksKey(rowsListed) THEN FreshForm(rows) ELSE socksForm

\* A list, a snapshot or a change of the store brings the rows.
RowsReachPage ==
    /\ rowsListed # Bare(proxyRows)
    /\ rowsListed' = Bare(proxyRows)
    /\ socksForm' = FormAfter(proxyRows)
    /\ UNCHANGED <<proxyRows, forwardOpen, formCalls>>

\* create of the store goes on and the modal closes; a refused one leaves the form.
FormAnswered(r) ==
    LET call == formCalls[r]
    IN  /\ call.at \in {"ok", "failed"}
        /\ formCalls' = [formCalls EXCEPT ![r] = FormIdle]
        /\ rowsListed' = [t \in ProxyIds |->
                IF t \in call.row
                THEN [type |-> call.type, port |-> call.port, suggested |-> FALSE]
                ELSE rowsListed[t]]
        /\ socksForm' =
                IF call.type = "local" THEN FormAfter(rowsListed')
                ELSE IF call.at = "ok" THEN FormClosed
                ELSE [socksForm EXCEPT !.waits = @ \ {r}]
        /\ forwardOpen' = (forwardOpen /\ ~(call.type = "local" /\ call.at = "ok"))
        /\ UNCHANGED proxyRows

ProxyFormsNext ==
    \/ SocksFormToggled \/ ForwardFormToggled \/ RowsReachPage
    \/ \E p \in TypedPorts : PortTyped(p)
    \/ \E r \in FormCalls :
        \/ SubmitSocks(r) \/ RowCreated(r) \/ FormAnswered(r)
        \/ \E p \in TypedPorts : SubmitForward(r, p)
    \/ \E t \in ProxyIds : RowDeleted(t)

ProxyFormsSpec == ProxyFormsInit /\ [][ProxyFormsNext]_proxyFormsVars

--------------------------------------------------------------------------------
\* Proxies created with the port the form suggested get different ports, if the list
\* the suggestion came from still held when the daemon stored them.
SuggestedPortsDiffer ==
    \A t, u \in ProxyIds :
        t # u /\ proxyRows[t].suggested /\ proxyRows[u].suggested
            => proxyRows[t].port # proxyRows[u].port

================================================================================
