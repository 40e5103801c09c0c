CONSTANTS
    MS = 2
    Reserved = 17
    SomeSecs <- SmallSecs
    SomeNanosecs <- SmallNanosecs
    Factors = {0, 2, 3}
    TimeBound = 3
    Exchanges <- AllExchanges
    MaxDiscriminator = 3
    Shapes <- UnionShapes
    Contents = {u1, u2}
    NSerdatas = 2
    Callers = {c1, c2}
    Instances = {i1, i2}
    SomeMax = {1}
    Depth = 1
    MaxLost = 1
SPECIFICATION Spec
CHECK_DEADLOCK FALSE
CONSTRAINT OneInstanceIfLost
SYMMETRY Symmetry
INVARIANTS ValuesTypeOK DurationsAreExact
INVARIANTS UnionsAgree SizesAgree ArrivesAsSent
INVARIANTS OwnershipIsExact DataIsThere
PROPERTY DataIsStable
