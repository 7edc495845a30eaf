SPECIFICATION FairSpec
CONSTANTS
    Events = {1}
    Copies = {1, 2, 3}
    Garbage = Garbage
    DeliveryLimit = 2
    MaxFaults = 1
    MaxDay = 3
    Relays = {r1}
    BatchSize = 2
    MaxAttempts = 2
    Backpressure = TRUE
    r1 = r1
    r2 = r2
    c1 = c1
    c2 = c2
    h1 = h1
    h2 = h2
    Consumers = {c1}
    Handlers = {h1, h2}
    ProcessOf <- OneProcess
    LocalAttempts = 2
    MaxRedeliveries = 1
    JobAttempts = 1
    MaxStalls = 1
    KeepCompleted = 2
    KeepCron = 1
    CompletedAge = 1
    FailedAge = 1
    OutboxDays = 0
    InboxDays = 1
    PurgeBatch = 1
    None = None
INVARIANTS
    AppliedOncePerMark
PROPERTIES
    EndsHandled
\* When every order is handled there is nothing left to do.
CHECK_DEADLOCK FALSE
