SPECIFICATION FairSpec
CONSTANTS
    j1 = j1
    j2 = j2
    j3 = j3
    w1 = w1
    w2 = w2
    Jobs <- MCJobs
    Workers <- MCWorkers
    WorkerOf <- MCWorkerOf
    Watchdogs = {g1}
    MaxFencing = 3
INVARIANTS
    TypeOK
    AuthorityIsNewest
PROPERTIES
    ReplacedForGood
    RunningEnds
    DeadOwnersAreNoticed
    ImplementsFencedLease
CHECK_DEADLOCK FALSE
