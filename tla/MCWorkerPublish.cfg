CONSTANTS
    w1 = w1
    w2 = w2
    a1 = a1
    a2 = a2
    p1 = p1
    None = None
    Workers <- MCWorkers
    Actions <- MCActions
    Poison <- MCPoison
    f1 = f1
    f2 = f2
    Files <- MCFiles
    o1 = o1
    o2 = o2
    Outputs <- MCOutputs
    Out <- MCOut
    MaxFailures = 2
    MaxCrashes = 1
SPECIFICATION Spec
INVARIANT ActionResultsUsable
\* Once the queue is empty the workers wait in Recv for more work.
CHECK_DEADLOCK FALSE
