CONSTANTS
    Queues <- TwoQueues
    NonQueues <- OneNonQueue
    Budget = 3
    Weight = 2
    QueueMax = 2
    Cpus = 2
SPECIFICATION FairSpec
INVARIANT TypeOK
INVARIANT NoStrandedWork
INVARIANT NapiContract
PROPERTY EmptyQueueServed
PROPERTY DrainedWhenQuiet
