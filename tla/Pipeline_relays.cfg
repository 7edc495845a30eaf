SPECIFICATION Spec
CONSTANTS
    Events = {1, 2, 3}
    Copies = {1, 2, 3, 4}
    Garbage = Garbage
    DeliveryLimit = 2
    MaxFaults = 2
    MaxDay = 0
    Relays = {r1, r2}
    BatchSize = 2
    MaxAttempts = 1
    Backpressure = FALSE
    r1 = r1
    r2 = r2
    c1 = c1
    c2 = c2
    h1 = h1
    h2 = h2
    Consumers = {c1}
    Handlers = {}
    ProcessOf <- NoProcess
    LocalAttempts = 2
    MaxRedeliveries = 1
    JobAttempts = 2
    MaxStalls = 1
    KeepCompleted = 2
    KeepCron = 1
    CompletedAge = 0
    FailedAge = 0
    OutboxDays = 0
    InboxDays = 1
    PurgeBatch = 1
    None = None
SYMMETRY SameRelays
INVARIANTS
    NoEventLost
    RelaysHold
\* When every order is handled there is nothing left to do.
CHECK_DEADLOCK FALSE
