CONSTANTS
    d1 = d1  d2 = d2  c1 = c1  c2 = c2  l1 = l1  l2 = l2  a1 = a1  a2 = a2  a3 = a3
    Kind = "reader"
    Deliverers <- TwoDeliverers
    Callers <- TwoCallers
    Listeners <- OneListener
    NoListener = NoListener
    Args <- ThreeArgs
    NoArg = NoArg
    NoThread = NoThread
    CallbackOps = {"lock"}
    CallerOps = {"lock", "enable", "close", "drop"}
    EnabledAtStart = {TRUE}
    DropOnlyClosed = TRUE
    v1 = v1  v2 = v2  f1 = f1  f2 = f2  r1 = r1  r2 = r2
    Views <- TwoViews
    Original = Original
    FilterUsers <- TwoFilterUsers
    ViewReaders <- TwoViewReaders
    NoUser = NoUser
    MaxTopics = 3
    MaxFunctors = 2
    MaxSamples = 2
    Occurring <- StatusesOccurring
    OfEntity <- StatusesOfReader
SPECIFICATION ReaderSpec
INVARIANTS ReaderTypeOK GateExact FiltersAreOwn StatesAgree
PROPERTIES CloseReturns KeepsContract
CHECK_DEADLOCK FALSE
