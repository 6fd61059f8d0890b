\* Two workers, a queue of one, four usable tickets, two cancellations; the
\* workers are fair, so that the liveness properties are checked as well.
CONSTANTS
    w1 = w1
    w2 = w2
    Workers <- TwoWorkers
    MaxQueued = 1
    TicketLimit = 5
    GenerationBound = 3
SPECIFICATION FairSpec
INVARIANTS
    TypeOK
    TicketsAccountedFor
    BoundedBacklog
    NoStrandedJob
    ShutdownSettlesEverything
PROPERTIES
    CancelledNeverCompletes
    ImplementsService
    AcceptedTicketsSettle
    ShutdownReturns
