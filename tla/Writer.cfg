CONSTANTS
    d1 = d1  d2 = d2  c1 = c1  c2 = c2  l1 = l1  l2 = l2  a1 = a1  a2 = a2  a3 = a3
    Kind = "writer"
    Deliverers <- TwoDeliverers
    Callers <- OneCaller
    Listeners <- TwoListeners
    NoListener = NoListener
    Args <- ThreeArgs
    NoArg = NoArg
    NoThread = NoThread
    CallbackOps = {}
    CallerOps = {"enable", "listener", "lock", "close", "drop"}
    EnabledAtStart = {TRUE, FALSE}
    DropOnlyClosed = FALSE
    t1 = t1  t2 = t2  k1 = k1  k2 = k2  k3 = k3  e1 = e1  e2 = e2
    WriteThreads <- TwoThreads
    Calls <- SomeCalls
    Unreadable = {k3}
    Nil = Nil
    NoOne = NoOne
    Endpoints <- TwoEndpoints
    NoEndpoint = NoEndpoint
    Wild = Wild
    PropThreads <- TwoThreads
    Graphs <- TypeGraphs
    Leaf = Leaf
    VisitedMax = 6
    Nobody = Nobody
    IdlFiles <- Files
    Keywords <- CxxKeywords
    ReachMax = 4
SPECIFICATION WriterSpec
INVARIANTS WriterTypeOK MemorySafe NotCalledUntilEnabled OldListenerQuiet BuiltinDataAgree GeneratedCodeAgrees
PROPERTIES PublishesWhatIsAsked CallsEnd
CHECK_DEADLOCK FALSE
