CONSTANTS
    Accounts = {a1}
    Conns = {c1, c2}
    Probes = {}
    Disconnects = {d1}
    Requests = {q1}
    Monitor = monitor
    NoAccount = NoAccount
    NoConn = NoConn
SPECIFICATION Spec
PROPERTIES
    LostConnectionsAreForgotten
    EndedConnectionsGetClosed
CHECK_DEADLOCK FALSE
