SPECIFICATION FairSpec
CONSTANTS
    r1 = r1
    r2 = r2
    r3 = r3
    r4 = r4
    r5 = r5
    k1 = k1
    NoKey = NoKey
    None = None
    Keys = {k1}
    Products <- MCProducts
    Active <- MCActive
    InitStock <- MCInitStock
    Bodies <- MCBodies
    ItemsOf <- MCItemsOf
    Requests = {r1, r2, r3, r4, r5}
    KeyOf <- MCKeyOf
    BodyOf <- MCBodyOf
INVARIANTS
    TypeOK
    OrdersHold
    AnswersHold
    StockConservation
    WaitsRise
PROPERTIES
    ImplementsAtomicOrders
    EveryCallAnswered
\* Once every call is answered there is nothing left to do.
CHECK_DEADLOCK FALSE
