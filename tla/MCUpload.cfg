CONSTANTS
    Jobs = {f1, f2}
    Conns = {c1, c2}
    Requested = {1, 11}
    NoConn = NoConn
    NoLimit = NoLimit
    ChanCap = 1
    LinkCap = 1
SPECIFICATION Spec
SYMMETRY UploadSymmetry
INVARIANTS
    TypeOK
    ActiveCountsHolders
    NoIdleSlot
    BrowserKeepsSlotsBusy
    HubForgetsFinishedJobs
    StuckOnlyAfterLoss
PROPERTIES
    LimitRespected
