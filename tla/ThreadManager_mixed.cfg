SPECIFICATION Spec
CONSTANTS
    w1 = w1
    w2 = w2
    main = main
    client = client
    t1 = t1
    t2 = t2
    t3 = t3
    NoTask = NoTask
    NoThread = NoThread
    Main = main
    Workers <- MCWorkers
    Clients <- MCClients
    Tasks <- MCTasks
    RetTasks <- OneRetTask
SYMMETRY MixedSymmetry
INVARIANTS
    CountIsOutstanding
    RunOnce
    TestedIsReady
    AbandonedOnlyIfLate
    IInv
\* A destroyed pool does nothing more.
CHECK_DEADLOCK FALSE
