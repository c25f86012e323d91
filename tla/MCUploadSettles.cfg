CONSTANTS
    Jobs = {f1, f2}
    Conns = {c1}
    Requested = {1, 2}
    NoConn = NoConn
    NoLimit = NoLimit
    ChanCap = 1
    LinkCap = 1
SPECIFICATION Spec
PROPERTIES
    EveryUploadSettles
