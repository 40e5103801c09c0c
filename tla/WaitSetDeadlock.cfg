CONSTANTS
    t1 = t1  t2 = t2   w1 = w1  w2 = w2  x1 = x1  x2 = x2
    Threads <- TwoThreads
    WaitSets <- OneWaitSet
    Conditions <- OneCondition
    Kind <- Guard
    Calls <- AnyClosing
    Nobody = Nobody
SPECIFICATION Spec
INVARIANT DestructorDoesNotDeadlock
CHECK_DEADLOCK FALSE
