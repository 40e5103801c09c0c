----------------------------- MODULE BuiltinData -----------------------------
(***************************************************************************)
(* What an application learns of the entities that others created: the     *)
(* data of a matched writer or reader, copied member by member from an     *)
(* endpoint that the C library allocates and the data's destructor frees,  *)
(* and the other classes of built-in data, which nothing fills.            *)
(*                                                                         *)
(* A class of data is a record of its members, those that ==  compares,    *)
(* those that are copied from the endpoint, and whether it keeps the       *)
(* endpoint. Endpoints differ from one another in one member at most.      *)
(***************************************************************************)
EXTENDS FiniteSets

CONSTANTS
    Endpoints,      \* the addresses of the C library's endpoints
    NoEndpoint,     \* null
    Wild            \* an address that was never written

ASSUME DataAssumption == {NoEndpoint, Wild} \cap Endpoints = {} /\ NoEndpoint # Wild

VARIABLES
    dataClass,      \* the class of the objects
    data,           \* the objects of the application, or NoData
    allocated,      \* external: endpoints that were returned and not freed
    fault,          \* external: an endpoint was freed twice or never allocated
    careful         \* (ghost) every object is the result of a lookup that found its endpoint

dataVars == <<dataClass, data, allocated, fault, careful>>

NoData == [none |-> TRUE]
DataHandles == {"one", "other"}

EndpointMembers == {"key", "participant_key", "topic_name", "type_name", "durability",
    "deadline", "latency_budget", "liveliness", "reliability", "ownership",
    "destination_order", "user_data", "presentation", "partition", "topic_data",
    "group_data", "property", "binary_property", "entity_name"}

DataClass(members, compared, copied, keepsEndpoint) ==
    [members |-> members, compared |-> compared, copied |-> copied,
     keepsEndpoint |-> keepsEndpoint]
Unfilled(members, compared) == DataClass(members, compared, {}, FALSE)

-----------------------------------------------------------------------------
(* The C library does not propagate a durability service.                  *)
PublicationMembers ==
    EndpointMembers \cup {"durability_service", "lifespan", "ownership_strength"}
PublicationCopied == PublicationMembers \ {"durability_service"}
PublicationCopiedWithoutLifespan == PublicationCopied \ {"lifespan"}    \* mutant
PublicationCompared == PublicationMembers \ {"presentation", "partition"}
PublicationBuiltinTopicData ==
    DataClass(PublicationMembers, PublicationCompared, PublicationCopied, TRUE)

SubscriptionMembers == EndpointMembers \cup {"time_based_filter"}
SubscriptionCopied == SubscriptionMembers
SubscriptionComparedWithoutFilter == SubscriptionMembers \ {"time_based_filter"}  \* mutant
SubscriptionCompared == SubscriptionMembers
SubscriptionBuiltinTopicData ==
    DataClass(SubscriptionMembers, SubscriptionCompared, SubscriptionCopied, TRUE)

ParticipantMembers == {"key", "user_data", "property", "binary_property", "entity_name"}
ParticipantBuiltinTopicData == Unfilled(ParticipantMembers, ParticipantMembers \ {"entity_name"})

TopicMembers == {"key", "name", "type_name", "durability", "durability_service", "deadline",
    "latency_budget", "liveliness", "reliability", "transport_priority", "lifespan",
    "destination_order", "history", "resource_limits", "ownership", "topic_data"}
TopicBuiltinTopicData == Unfilled(TopicMembers, TopicMembers)

CMParticipantBuiltinTopicData == Unfilled({"key"}, {"key"})

CMContainerMembers == {"key", "participant_key", "name", "entity_factory", "partition"}
CMPublisherBuiltinTopicData == Unfilled(CMContainerMembers, CMContainerMembers)
CMSubscriberBuiltinTopicData == Unfilled(CMContainerMembers, CMContainerMembers)

CMDataWriterMembers ==
    {"key", "publisher_key", "name", "history", "resource_limits", "writer_data_lifecycle"}
CMDataWriterBuiltinTopicData == Unfilled(CMDataWriterMembers, CMDataWriterMembers)

CMDataReaderMembers ==
    {"key", "subscriber_key", "name", "history", "resource_limits", "reader_data_lifecycle"}
CMDataReaderBuiltinTopicData == Unfilled(CMDataReaderMembers, CMDataReaderMembers)

DataClasses ==
    [Publication |-> PublicationBuiltinTopicData, Subscription |-> SubscriptionBuiltinTopicData,
     Participant |-> ParticipantBuiltinTopicData, Topic |-> TopicBuiltinTopicData,
     CMParticipant |-> CMParticipantBuiltinTopicData,
     CMPublisher |-> CMPublisherBuiltinTopicData, CMSubscriber |-> CMSubscriberBuiltinTopicData,
     CMDataWriter |-> CMDataWriterBuiltinTopicData,
     CMDataReader |-> CMDataReaderBuiltinTopicData]

Members == DataClasses[dataClass].members

-----------------------------------------------------------------------------
(* An object: the member, if any, whose value is not the usual one, where  *)
(* the usual value is "default" as constructed and "a" as discovered.      *)
Values(m, usual) == [f \in Members |-> IF f = m THEN "b" ELSE usual]
Discovered == {"nothing"} \cup Members

EndpointValues(m) ==                            \* external: the key and the qos
    [f \in Members |-> IF f = m THEN "b" ELSE "a"]

DataInit ==
    /\ dataClass \in DOMAIN DataClasses
    /\ data = [h \in DataHandles |-> NoData]
    /\ allocated = {}
    /\ fault = FALSE
    /\ careful = TRUE

(* Value() leaves the pointer to the endpoint as it is.                    *)
Blank ==
    [values |-> Values("nothing", "default"), from |-> "nobody",
     endpoint |-> IF DataClasses[dataClass].keepsEndpoint THEN Wild ELSE NoEndpoint]

ConstructData(h) ==
    /\ data[h] = NoData
    /\ data' = [data EXCEPT ![h] = Blank]
    /\ careful' = (careful /\ ~DataClasses[dataClass].keepsEndpoint)
    /\ UNCHANGED <<dataClass, allocated, fault>>

(* matched_subscription_data(), matched_publication_data(): the endpoint   *)
(* the C library allocates for the caller fills the object.                *)
CopiedValues(m) ==
    [f \in Members |-> IF f \in DataClasses[dataClass].copied THEN EndpointValues(m)[f]
                       ELSE "default"]
SetEndpointUnkept(e, m) ==                                              \* mutant
    [values |-> CopiedValues(m), from |-> m, endpoint |-> NoEndpoint]
SetEndpoint(e, m) == [values |-> CopiedValues(m), from |-> m, endpoint |-> e]

Matched(h) ==
    /\ DataClasses[dataClass].keepsEndpoint /\ data[h] = NoData
    /\ \E e \in Endpoints \ allocated, m \in Discovered :
           /\ data' = [data EXCEPT ![h] = SetEndpoint(e, m)]
           /\ allocated' = allocated \cup {e}
    /\ UNCHANGED <<dataClass, fault, careful>>

(* dds_builtintopic_free_endpoint on what the object points to.            *)
Freed(e) ==
    /\ allocated' = allocated \ {e}
    /\ fault' = (fault \/ e \notin allocated \cup {NoEndpoint})

(* There is no such endpoint: the object that was to be filled is          *)
(* destroyed as the exception passes. Its pointer was never written; what  *)
(* is there may be null, or not.                                           *)
NotMatched(h) ==
    /\ DataClasses[dataClass].keepsEndpoint /\ data[h] = NoData
    /\ \E e \in {Wild, NoEndpoint} : Freed(e)
    /\ careful' = FALSE
    /\ UNCHANGED <<dataClass, data>>

(* A setter of the delegate. At most one member of an object is set.       *)
SetDataMember(h) ==
    /\ data[h] # NoData /\ data[h].from = "nobody"
    /\ \A f \in Members : data[h].values[f] = "default"
    /\ \E m \in Members : data' = [data EXCEPT ![h].values[m] = "b"]
    /\ UNCHANGED <<dataClass, allocated, fault, careful>>

(* The copy constructor and operator=, which copy the pointer too.         *)
CopyData(h) ==
    \E other \in DataHandles \ {h} :
        /\ data[other] # NoData
        /\ data' = [data EXCEPT ![h] = data[other]]
        /\ careful' = (careful /\ ~DataClasses[dataClass].keepsEndpoint)
        /\ UNCHANGED <<dataClass, allocated, fault>>

(* The destructor.                                                         *)
DestroyData(h) ==
    /\ data[h] # NoData
    /\ data' = [data EXCEPT ![h] = NoData]
    /\ Freed(data[h].endpoint)
    /\ UNCHANGED <<dataClass, careful>>

DataNext ==
    \E h \in DataHandles :
        ConstructData(h) \/ Matched(h) \/ NotMatched(h) \/ SetDataMember(h) \/ CopyData(h)
        \/ DestroyData(h)

DataSpec == DataInit /\ [][DataNext]_dataVars

-----------------------------------------------------------------------------
(* operator== of the delegates.                                            *)
EqualData(d, e) == \A f \in DataClasses[dataClass].compared : d.values[f] = e.values[f]

(* The accessors of the classes: participant_key() of a publication or a   *)
(* subscription returns the key.                                           *)
Accessor(d, f) ==
    d.values[IF f = "participant_key" /\ dataClass \in {"Publication", "Subscription"}
             THEN "key" ELSE f]

DataTypeOK ==
    /\ dataClass \in DOMAIN DataClasses
    /\ \A h \in DataHandles : data[h] # NoData =>
           /\ data[h].values \in [Members -> {"default", "a", "b"}]
           /\ data[h].endpoint \in Endpoints \cup {NoEndpoint, Wild}
    /\ allocated \subseteq Endpoints
    /\ {fault, careful} \subseteq BOOLEAN

(* The data of the lookups that find an endpoint own it: it is freed with  *)
(* its object, once, and none is left. It holds of applications that keep  *)
(* the result where it was returned; a copy shares the pointer, and a      *)
(* lookup that throws frees what was never written.                        *)
EndpointsFreedOnce ==
    careful =>
        /\ ~fault
        /\ allocated = {data[h].endpoint : h \in {k \in DataHandles : data[k] # NoData}}
                       \ {NoEndpoint}
        /\ \A h, k \in DataHandles :
               (h # k /\ NoData \notin {data[h], data[k]}
                /\ data[h].endpoint = data[k].endpoint) => data[h].endpoint = NoEndpoint

(* An application reads what the endpoint has, save for the key of its     *)
(* participant, and for the durability service, which is not propagated.   *)
DataAsDiscovered ==
    \A h \in DataHandles :
        (data[h] # NoData /\ data[h].from # "nobody") =>
            \A f \in Members \ {"participant_key", "durability_service"} :
                Accessor(data[h], f) = EndpointValues(data[h].from)[f]

(* Two data are equal if their endpoints are; and only then, but for the   *)
(* partition and the presentation of publications, which are not compared, *)
(* and the durability service.                                             *)
NotTold == IF dataClass = "Publication" THEN {"presentation", "partition", "durability_service"}
           ELSE {}
EqualIfSame ==
    \A h, k \in DataHandles :
        (NoData \notin {data[h], data[k]} /\ "nobody" \notin {data[h].from, data[k].from}) =>
            (EqualData(data[h], data[k])
             <=> \A f \in Members \ NotTold :
                     EndpointValues(data[h].from)[f] = EndpointValues(data[k].from)[f])

(* What the library tells of matched endpoints is the endpoints' and       *)
(* theirs only: accessors, comparison and the ownership of the C library's *)
(* memory agree.                                                           *)
BuiltinDataAgree == EndpointsFreedOnce /\ DataAsDiscovered /\ EqualIfSame
=============================================================================
