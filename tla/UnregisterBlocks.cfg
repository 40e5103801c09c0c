CONSTANTS
    d1 = d1  d2 = d2  c1 = c1  c2 = c2  l1 = l1  l2 = l2  a1 = a1  a2 = a2  a3 = a3
    Kind = "reader"
    Deliverers <- OneDeliverer
    Callers <- OneCaller
    Listeners <- OneListener
    NoListener = NoListener
    Args <- ThreeArgs
    NoArg = NoArg
    NoThread = NoThread
    CallbackOps = {"lock"}
    CallerOps = {"listener"}
    EnabledAtStart = {TRUE}
    DropOnlyClosed = TRUE
SPECIFICATION FairSpec
PROPERTY SetterReturns
CHECK_DEADLOCK FALSE
