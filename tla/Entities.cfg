CONSTANTS
    p1 = p1  p2 = p2  p3 = p3  x1 = x1  x2 = x2
    Participants <- ThreeParticipants
    Domains <- TwoDomains
    AnyId = AnyId
    Nil = Nil
    Lines <- Chains
    StatusesUsed = {"subscription_matched", "data_available", "data_on_readers",
                    "publication_matched", "inconsistent_topic"}
    Masks <- SomeMasks
    Deliverers = {t1, t2}
    MaxChanges = 2
    MaxSetters = 1
    MS = 2
    Reserved = 17
    SomeDurations <- QosDurations
    SomeLists <- QosLists
    SomeBlocking <- Blocking
    MaxInstances = 1
    MaxEdits = 2
SPECIFICATION EntitiesSpec
CHECK_DEADLOCK FALSE
SYMMETRY Interchangeable
INVARIANTS EntitiesTypeOK DomainsAgree HeldIsInForce  PolicyObjectsAgree
PROPERTIES KeepsContract ExistingDomainIsUsed ChangesAreTold
