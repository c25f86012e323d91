\* A page that comes back before the handler of the last has noticed.
CONSTANTS
    SocketMax = 2
    waiter = waiter
    Watchers <- MCWatchers
    OutputMax = 1
    BufferMax = 1
SPECIFICATION Spec
INVARIANT ReopenedPageGetsOutput
CHECK_DEADLOCK FALSE
