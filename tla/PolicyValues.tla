---------------------------- MODULE PolicyValues ----------------------------
(***************************************************************************)
(* The policies: for each of them the values an application may give it,   *)
(* those its check() refuses, what set_c_policy() writes into the qos of   *)
(* the C library, and what set_iso_policy() makes of what it reads there.  *)
(*                                                                         *)
(* A policy is a record: bit, its flag in present; start, the value of a   *)
(* new object; values; refused; toC, by value, and fromC, by value of the  *)
(* C library, which is the sequence of the arguments of dds_qset_..(), or  *)
(* Nothing where it is not called. Data, strings and names are members of  *)
(* small sets; lists of them are sequences.                                *)
(***************************************************************************)
EXTENDS TimeValues, Sequences

CONSTANTS
    SomeDurations,   \* the durations an application gives to a policy
    SomeLists,       \* lists of bytes, of names, of representations
    MaxInstances     \* DDS_MAX_PSMX_INSTANCES

Unlimited == -1      \* dds::core::LENGTH_UNLIMITED
Nothing == << >>     \* not written to the C library, and nothing to be read

ASSUME DurationsAssumption ==
    SomeDurations \subseteq [sec : 0 .. Reserved, nanosec : 0 .. Reserved]
ASSUME ListsAssumption == << >> \in SomeLists
ASSUME InstancesAssumption == MaxInstances \in Nat

-----------------------------------------------------------------------------
(* Policies with one duration.                                             *)
DurationOf == [c \in {<<ToC(v)>> : v \in SomeDurations} |-> FromC(c[1]).value]

OneDuration(flag, first) ==
    [bit |-> flag, start |-> first, values |-> SomeDurations, refused |-> {},
     toC |-> [v \in SomeDurations |-> <<ToC(v)>>], fromC |-> DurationOf]

Deadline == OneDuration("DEADLINE", Infinite)
LatencyBudget == OneDuration("LATENCY_BUDGET", Zero)
Lifespan == OneDuration("LIFESPAN", Infinite)
TimeBasedFilter == OneDuration("TIME_BASED_FILTER", Zero)

ReaderDataLifecycle ==
    LET Delays == [nowriter : SomeDurations, disposed : {Infinite, Zero}]
    IN  [bit |-> "ADLINK_READER_DATA_LIFECYCLE",
         start |-> [nowriter |-> Infinite, disposed |-> Infinite],
         values |-> Delays, refused |-> {},
         toC |-> [v \in Delays |-> <<ToC(v.nowriter), ToC(v.disposed)>>],
         fromC |-> [c \in {<<ToC(v.nowriter), ToC(v.disposed)>> : v \in Delays} |->
                       [nowriter |-> FromC(c[1]).value, disposed |-> FromC(c[2]).value]]]

-----------------------------------------------------------------------------
(* Policies with one kind: the switch to C, and the switch back.           *)
OneKind(flag, first, toC, fromC) ==
    [bit |-> flag, start |-> first, values |-> DOMAIN toC, refused |-> {},
     toC |-> [v \in DOMAIN toC |-> <<toC[v]>>],
     fromC |-> [c \in {<<k>> : k \in DOMAIN fromC} |-> fromC[c[1]]]]

DestinationOrder ==
    OneKind("DESTINATION_ORDER", "BY_RECEPTION_TIMESTAMP",
            [BY_RECEPTION_TIMESTAMP |-> "DDS_DESTINATIONORDER_BY_RECEPTION_TIMESTAMP",
             BY_SOURCE_TIMESTAMP |-> "DDS_DESTINATIONORDER_BY_SOURCE_TIMESTAMP"],
            [DDS_DESTINATIONORDER_BY_RECEPTION_TIMESTAMP |-> "BY_RECEPTION_TIMESTAMP",
             DDS_DESTINATIONORDER_BY_SOURCE_TIMESTAMP |-> "BY_SOURCE_TIMESTAMP"])

Durability ==
    OneKind("DURABILITY", "VOLATILE",
            [VOLATILE |-> "DDS_DURABILITY_VOLATILE",
             TRANSIENT_LOCAL |-> "DDS_DURABILITY_TRANSIENT_LOCAL",
             TRANSIENT |-> "DDS_DURABILITY_TRANSIENT",
             PERSISTENT |-> "DDS_DURABILITY_PERSISTENT"],
            [DDS_DURABILITY_VOLATILE |-> "VOLATILE",
             DDS_DURABILITY_TRANSIENT |-> "TRANSIENT",
             DDS_DURABILITY_TRANSIENT_LOCAL |-> "TRANSIENT_LOCAL",
             DDS_DURABILITY_PERSISTENT |-> "PERSISTENT"])

Ownership ==
    OneKind("OWNERSHIP", "SHARED",
            [SHARED |-> "DDS_OWNERSHIP_SHARED", EXCLUSIVE |-> "DDS_OWNERSHIP_EXCLUSIVE"],
            [DDS_OWNERSHIP_SHARED |-> "SHARED", DDS_OWNERSHIP_EXCLUSIVE |-> "EXCLUSIVE"])

IgnoreLocal ==
    OneKind("CYCLONE_IGNORELOCAL", "NONE",
            [NONE |-> "DDS_IGNORELOCAL_NONE", PARTICIPANT |-> "DDS_IGNORELOCAL_PARTICIPANT",
             PROCESS |-> "DDS_IGNORELOCAL_PROCESS"],
            [DDS_IGNORELOCAL_NONE |-> "NONE", DDS_IGNORELOCAL_PARTICIPANT |-> "PARTICIPANT",
             DDS_IGNORELOCAL_PROCESS |-> "PROCESS"])

-----------------------------------------------------------------------------
(* Policies with one number or flag, which the C library takes as it is.   *)
OneScalar(flag, first, vs) ==
    [bit |-> flag, start |-> first, values |-> vs, refused |-> {},
     toC |-> [v \in vs |-> <<v>>], fromC |-> [c \in {<<v>> : v \in vs} |-> c[1]]]

TransportPriority == OneScalar("TRANSPORT_PRIORITY", 0, {0, -1, 1})
OwnershipStrength == OneScalar("OWNERSHIP_STRENGTH", 0, {0, -1, 1})
WriterDataLifecycle == OneScalar("ADLINK_WRITER_DATA_LIFECYCLE", TRUE, BOOLEAN)
WriterBatching == OneScalar("CYCLONE_WRITER_BATCHING", FALSE, BOOLEAN)

EntityName == OneScalar("ENTITY_NAME", "", {"", "name"})

(* Unknown to the C library: nothing is written, and TRUE is read.         *)
EntityFactory ==
    [bit |-> "ADLINK_ENTITY_FACTORY", start |-> TRUE, values |-> BOOLEAN, refused |-> {},
     toC |-> [v \in BOOLEAN |-> Nothing], fromC |-> [c \in {Nothing} |-> TRUE]]

-----------------------------------------------------------------------------
(* Policies with a list: an empty one is not written to the C library.     *)
Written(list) == IF list = << >> THEN Nothing ELSE <<list>>

OneList(flag) ==
    [bit |-> flag, start |-> << >>, values |-> SomeLists, refused |-> {},
     toC |-> [v \in SomeLists |-> Written(v)],
     fromC |-> [c \in {<<v>> : v \in SomeLists} |-> c[1]]]

UserData == OneList("USER_DATA")
TopicData == OneList("TOPIC_DATA")
GroupData == OneList("GROUP_DATA")
Partition == OneList("PARTITION")
DataRepresentation == OneList("DATA_REPRESENTATION")

(* Always written; read back only if something was.                        *)
PSMXInstances ==
    [OneList("PSMX") EXCEPT
        !.refused = {v \in SomeLists : Len(v) > MaxInstances},
        !.toC = [v \in SomeLists |-> <<v>>]]

(* Names with a value and whether to propagate it, in two policies with    *)
(* one flag.                                                               *)
Named(flag) ==
    LET Maps == [{"name"} -> [value : {"value", "other"}, propagate : BOOLEAN]] \cup {<< >>}
    IN  [bit |-> flag, start |-> << >>, values |-> Maps, refused |-> {},
         toC |-> [v \in Maps |-> Written(v)],
         fromC |-> [c \in {<<v>> : v \in Maps} |-> c[1]]]

Property == Named("PROPERTY_LIST")
BinaryProperty == Named("PROPERTY_LIST")

-----------------------------------------------------------------------------
(* Policies with several members.                                          *)
CHistory == [KEEP_LAST |-> "DDS_HISTORY_KEEP_LAST", KEEP_ALL |-> "DDS_HISTORY_KEEP_ALL"]
IsoHistory == [DDS_HISTORY_KEEP_LAST |-> "KEEP_LAST", DDS_HISTORY_KEEP_ALL |-> "KEEP_ALL"]

NoHistory(v) == v.kind = "KEEP_LAST" /\ v.depth <= 0

History ==
    LET Histories == [kind : DOMAIN CHistory, depth : 0 .. 2]
    IN  [bit |-> "HISTORY", start |-> [kind |-> "KEEP_LAST", depth |-> 1],
         values |-> Histories, refused |-> {v \in Histories : NoHistory(v)},
         toC |-> [v \in Histories |-> <<CHistory[v.kind], v.depth>>],
         fromC |-> [c \in {<<CHistory[v.kind], v.depth>> : v \in Histories} |->
                       [kind |-> IsoHistory[c[1]], depth |-> c[2]]]]

NoLimit(v) == \E f \in DOMAIN v : v[f] <= 0 /\ v[f] # Unlimited

ResourceLimits ==
    LET Limit == {Unlimited, 0, 1}
        Limits == {v \in [max_samples : Limit, max_instances : Limit,
                          max_samples_per_instance : Limit] : v.max_samples = v.max_instances}
    IN  [bit |-> "RESOURCE_LIMITS",
         start |-> [max_samples |-> Unlimited, max_instances |-> Unlimited,
                    max_samples_per_instance |-> Unlimited],
         values |-> Limits,
         refused |-> {v \in Limits : NoLimit(v)},
         toC |-> [v \in Limits |-> <<v.max_samples, v.max_instances,
                                     v.max_samples_per_instance>>],
         fromC |-> [c \in Limit \X Limit \X Limit |->
                       [max_samples |-> c[1], max_instances |-> c[2],
                        max_samples_per_instance |-> c[3]]]]

(* Its limits may be 0; the depth may not exceed them, whatever the kind.  *)
DurabilityService ==
    LET Services == [delay : {Zero, Infinite}, kind : DOMAIN CHistory, depth : 0 .. 1,
                     max_samples_per_instance : {Unlimited, -2, 0}]
    IN  [bit |-> "DURABILITY_SERVICE",
         start |-> [delay |-> Zero, kind |-> "KEEP_LAST", depth |-> 1,
                    max_samples_per_instance |-> Unlimited],
         values |-> Services,
         refused |-> {v \in Services :
                         \/ v.max_samples_per_instance < 0
                            /\ v.max_samples_per_instance # Unlimited
                         \/ NoHistory(v)
                         \/ v.max_samples_per_instance # Unlimited
                            /\ v.depth > v.max_samples_per_instance},
         toC |-> [v \in Services |-> <<ToC(v.delay), CHistory[v.kind], v.depth,
                                       v.max_samples_per_instance>>],
         fromC |-> [c \in {0, CInfinity} \X (DOMAIN IsoHistory) \X (0 .. 1) \X {Unlimited, -2, 0} |->
                       [delay |-> FromC(c[1]).value, kind |-> IsoHistory[c[2]], depth |-> c[3],
                        max_samples_per_instance |-> c[4]]]]

Liveliness ==
    LET CKind == [AUTOMATIC |-> "DDS_LIVELINESS_AUTOMATIC",
                  MANUAL_BY_PARTICIPANT |-> "DDS_LIVELINESS_MANUAL_BY_PARTICIPANT",
                  MANUAL_BY_TOPIC |-> "DDS_LIVELINESS_MANUAL_BY_TOPIC"]
        IsoKind == [DDS_LIVELINESS_AUTOMATIC |-> "AUTOMATIC",
                    DDS_LIVELINESS_MANUAL_BY_PARTICIPANT |-> "MANUAL_BY_PARTICIPANT",
                    DDS_LIVELINESS_MANUAL_BY_TOPIC |-> "MANUAL_BY_TOPIC"]
        Lease == [kind : DOMAIN CKind, lease_duration : SomeDurations]
    IN  [bit |-> "LIVELINESS", start |-> [kind |-> "AUTOMATIC", lease_duration |-> Infinite],
         values |-> Lease, refused |-> {},
         toC |-> [v \in Lease |-> <<CKind[v.kind], ToC(v.lease_duration)>>],
         fromC |-> [c \in {<<CKind[v.kind], ToC(v.lease_duration)>> : v \in Lease} |->
                       [kind |-> IsoKind[c[1]], lease_duration |-> FromC(c[2]).value]]]

Reliability ==
    LET CKind == [BEST_EFFORT |-> "DDS_RELIABILITY_BEST_EFFORT",
                  RELIABLE |-> "DDS_RELIABILITY_RELIABLE"]
        IsoKind == [DDS_RELIABILITY_RELIABLE |-> "RELIABLE",
                    DDS_RELIABILITY_BEST_EFFORT |-> "BEST_EFFORT"]
        Blocking == [kind : DOMAIN CKind, max_blocking_time : SomeDurations]
    IN  [bit |-> "RELIABILITY", start |-> [kind |-> "BEST_EFFORT", max_blocking_time |-> Zero],
         values |-> Blocking, refused |-> {},
         toC |-> [v \in Blocking |-> <<CKind[v.kind], ToC(v.max_blocking_time)>>],
         fromC |-> [c \in {<<CKind[v.kind], ToC(v.max_blocking_time)>> : v \in Blocking} |->
                       [kind |-> IsoKind[c[1]], max_blocking_time |-> FromC(c[2]).value]]]

(* Ordered access only within an instance.                                 *)
Presentation ==
    LET CScope(k) == CASE k = "INSTANCE" -> "DDS_PRESENTATION_INSTANCE"
                       [] k = "TOPIC" -> "DDS_PRESENTATION_TOPIC"
                       [] k = "GROUP" -> "DDS_PRESENTATION_GROUP"
        IsoScope == [DDS_PRESENTATION_INSTANCE |-> "INSTANCE", DDS_PRESENTATION_TOPIC |-> "TOPIC",
                     DDS_PRESENTATION_GROUP |-> "GROUP"]
        Accesses == [scope : {"INSTANCE", "TOPIC", "GROUP"}, coherent : BOOLEAN, ordered : BOOLEAN]
    IN  [bit |-> "PRESENTATION",
         start |-> [scope |-> "INSTANCE", coherent |-> FALSE, ordered |-> FALSE],
         values |-> Accesses,
         refused |-> {v \in Accesses : v.scope \in {"TOPIC", "GROUP"} /\ v.ordered},
         toC |-> [v \in Accesses |-> <<CScope(v.scope), v.coherent, v.ordered>>],
         fromC |-> [c \in {<<CScope(v.scope), v.coherent, v.ordered>> : v \in Accesses} |->
                       [scope |-> IsoScope[c[1]], coherent |-> c[2], ordered |-> c[3]]]]

(* Five flags, of which two stand here for all.                            *)
TypeConsistencyEnforcement ==
    LET CKind == [DISALLOW_TYPE_COERCION |-> "DDS_TYPE_CONSISTENCY_DISALLOW_TYPE_COERCION",
                  ALLOW_TYPE_COERCION |-> "DDS_TYPE_CONSISTENCY_ALLOW_TYPE_COERCION"]
        IsoKind == [DDS_TYPE_CONSISTENCY_DISALLOW_TYPE_COERCION |-> "DISALLOW_TYPE_COERCION",
                    DDS_TYPE_CONSISTENCY_ALLOW_TYPE_COERCION |-> "ALLOW_TYPE_COERCION"]
        Rules == [kind : DOMAIN CKind, ignore : BOOLEAN, force : BOOLEAN]
    IN  [bit |-> "TYPE_CONSISTENCY_ENFORCEMENT",
         start |-> [kind |-> "ALLOW_TYPE_COERCION", ignore |-> TRUE, force |-> FALSE],
         values |-> Rules, refused |-> {},
         toC |-> [v \in Rules |-> <<CKind[v.kind], v.ignore, v.force>>],
         fromC |-> [c \in {<<CKind[v.kind], v.ignore, v.force>> : v \in Rules} |->
                       [kind |-> IsoKind[c[1]], ignore |-> c[2], force |-> c[3]]]]

Policy ==
    [Deadline |-> Deadline, LatencyBudget |-> LatencyBudget, Lifespan |-> Lifespan,
     TimeBasedFilter |-> TimeBasedFilter, ReaderDataLifecycle |-> ReaderDataLifecycle,
     DestinationOrder |-> DestinationOrder, Durability |-> Durability, Ownership |-> Ownership,
     IgnoreLocal |-> IgnoreLocal, TransportPriority |-> TransportPriority,
     OwnershipStrength |-> OwnershipStrength, WriterDataLifecycle |-> WriterDataLifecycle,
     WriterBatching |-> WriterBatching, EntityName |-> EntityName,
     EntityFactory |-> EntityFactory, UserData |-> UserData, TopicData |-> TopicData,
     GroupData |-> GroupData, Partition |-> Partition,
     DataRepresentation |-> DataRepresentation, PSMXInstances |-> PSMXInstances,
     Property |-> Property, BinaryProperty |-> BinaryProperty, History |-> History,
     ResourceLimits |-> ResourceLimits, DurabilityService |-> DurabilityService,
     Liveliness |-> Liveliness, Reliability |-> Reliability, Presentation |-> Presentation,
     TypeConsistencyEnforcement |-> TypeConsistencyEnforcement]

Policies == DOMAIN Policy
=============================================================================
