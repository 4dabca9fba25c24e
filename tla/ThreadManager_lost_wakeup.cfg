SPECIFICATION FairSpec
CONSTANTS
    w1 = w1
    w2 = w2
    main = main
    client = client
    t1 = t1
    t2 = t2
    t3 = t3
    NoTask = NoTask
    NoThread = NoThread
    Main = main
    Workers <- OneWorker
    Clients <- MCClients
    Tasks <- TwoTasks
    RetTasks <- NoRetTasks
PROPERTIES
    AcceptedComplete
\* A destroyed pool does nothing more.
CHECK_DEADLOCK FALSE
