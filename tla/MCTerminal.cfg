\* Two visits to the page of one session whose shell writes two chunks, of which
\* the buffer keeps one.
CONSTANTS
    SocketMax = 2
    waiter = waiter
    Watchers <- MCWatchers
    OutputMax = 2
    BufferMax = 1
SPECIFICATION FairSpec
INVARIANTS
    TypeOK
    CatchUpHasNoGap
    AttachedUnlessDisplaced
PROPERTY EndIsTold
\* A session that was killed stops.
CHECK_DEADLOCK FALSE
