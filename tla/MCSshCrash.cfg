CONSTANTS
    Accounts = {a1}
    Conns = {c1}
    Probes = {p1}
    Disconnects = {d1, d2}
    Requests = {q1}
    Monitor = monitor
    NoAccount = NoAccount
    NoConn = NoConn
SPECIFICATION Spec
INVARIANTS
    DaemonSurvives
CHECK_DEADLOCK FALSE
