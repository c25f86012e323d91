CONSTANTS
    Tunnels = {t1, t2}
    Requests = {q1, q2}
    Ports = {1}
    Kinds = {"local", "remote"}
    Ephemeral = {1, 7}
    NoTunnel = NoTunnel
SPECIFICATION Spec
INVARIANTS
    PortBusySaysError
