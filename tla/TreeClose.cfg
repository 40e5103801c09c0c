CONSTANTS
    t1 = t1  t2 = t2
    Threads <- TwoThreads
    Entities <- Whole
    Kind <- WholeKind
    Parent <- WholeParent
    TopicOf <- WholeTopic
    Nobody = Nobody
    Unborn <- WholeUnborn
    MayClose <- OwnerCloses
    MayCreate <- OwnerCreates
    MayDrop <- OtherDrops
    MaxDependents = 3
    c1 = c1  c2 = c2
    Callers <- TwoCallers
    Objects <- Things
    Sort <- ThingSort
    Holder <- ThingHolder
    Label <- ThingLabel
    About <- ThingAbout
    None = None
    Late <- LateThings
    Asks <- OneAsks
    Closes <- OtherCloses
    Drops <- OtherForgets
    MaxCalls <- OneAndTwoCalls
SPECIFICATION FindingSpec
INVARIANTS FindingTypeOK NoDeadlock BalancedWhenQuiet UsedOutlives LookupsAreExact
PROPERTY ClosesAndLookupsEnd
CHECK_DEADLOCK FALSE
