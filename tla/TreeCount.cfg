CONSTANTS
    t1 = t1  t2 = t2
    Threads <- TwoThreads
    Entities <- Pair
    Kind <- PairKind
    Parent <- PairParent
    TopicOf <- PairTopic
    Nobody = Nobody
    Unborn <- NoEntities
    MayClose <- PairCloses
    MayCreate <- Nothing
    MayDrop <- Nothing
    MaxDependents = 3
SPECIFICATION Spec
INVARIANT TopicCanClose
