CONSTANTS
    Accounts = {a1}
    Conns = {c1, c2}
    Probes = {p1}
    Disconnects = {d1}
    Requests = {q1}
    Monitor = monitor
    NoAccount = NoAccount
    NoConn = NoConn
SPECIFICATION Spec
INVARIANTS
    TypeOK
    EndedConnectionsAreClosed
    LossLeavesNoSftpClient
PROPERTIES
    LifecycleKept
SYMMETRY ConnSymmetry
CHECK_DEADLOCK FALSE
