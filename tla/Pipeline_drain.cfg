SPECIFICATION FairSpec
CONSTANTS
    Events = {1}
    Copies = {1, 2}
    Garbage = Garbage
    DeliveryLimit = 2
    MaxFaults = 1
    MaxDay = 0
    Relays = {r1}
    BatchSize = 2
    MaxAttempts = 2
    Backpressure = TRUE
    r1 = r1
    r2 = r2
    c1 = c1
    c2 = c2
    h1 = h1
    h2 = h2
    Consumers = {c1}
    Handlers = {h1, h2}
    ProcessOf <- OneProcess
    LocalAttempts = 2
    MaxRedeliveries = 1
    JobAttempts = 2
    MaxStalls = 1
    KeepCompleted = 2
    KeepCron = 1
    CompletedAge = 0
    FailedAge = 0
    OutboxDays = 0
    InboxDays = 1
    PurgeBatch = 1
    None = None
PROPERTIES
    ClosedChannelFreesRows
\* When every order is handled there is nothing left to do.
CHECK_DEADLOCK FALSE
