CONSTANTS
    p1 = p1  p2 = p2  p3 = p3  d1 = d1  d2 = d2
    Participants <- TwoParticipants
    Domains <- TwoDomains
    AnyId = AnyId
    Nil = Nil
SPECIFICATION Spec
PROPERTY PreviousConfigIsUsed
CHECK_DEADLOCK FALSE
