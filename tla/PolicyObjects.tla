---------------------------- MODULE PolicyObjects ----------------------------
(***************************************************************************)
(* The policy objects of an application: it constructs one from arguments, *)
(* with the defaults of the class or by one of its factories, sets members *)
(* of it, and copies it. A constructor throws if the delegate's check()    *)
(* refuses the members; a setter checks nothing.                           *)
(*                                                                         *)
(* An object is a record of the members of its delegate. For each class    *)
(* there are the delegate, the set of what its members may be; the         *)
(* default, what the constructor without arguments passes; and the class,  *)
(* these with what its factories pass to the constructor.                  *)
(***************************************************************************)
EXTENDS EntityQos

VARIABLES
    class,         \* the class of the objects
    object,        \* the objects of the application, or NoObject
    edited         \* (ghost) those with a member that was set since it was constructed

objectVars == <<class, object, edited>>

NoObject == [none |-> TRUE]
PolicyHandles == {"one", "other"}

OwnershipKind == {"SHARED", "EXCLUSIVE"}
DataRepresentationId == {"XCDR1", "XML", "XCDR2"}
DurabilityKind == {"VOLATILE", "TRANSIENT_LOCAL", "TRANSIENT", "PERSISTENT"}
PresentationAccessScopeKind == {"INSTANCE", "TOPIC", "GROUP"}
ReliabilityKind == {"BEST_EFFORT", "RELIABLE"}
DestinationOrderKind == {"BY_RECEPTION_TIMESTAMP", "BY_SOURCE_TIMESTAMP"}
HistoryKind == {"KEEP_LAST", "KEEP_ALL"}
LivelinessKind == {"AUTOMATIC", "MANUAL_BY_PARTICIPANT", "MANUAL_BY_TOPIC"}
TypeConsistencyKind == {"DISALLOW_TYPE_COERCION", "ALLOW_TYPE_COERCION"}
IgnoreLocalKind == {"NONE", "PARTICIPANT", "PROCESS"}

Class(delegate, default, factories) ==
    [delegate |-> delegate, default |-> default, factories |-> factories]

-----------------------------------------------------------------------------
(* Lists. Partition(name) is a list of one name, and the name is empty by  *)
(* default.                                                                *)
Lists == SomeLists \cup {<<"">>}

UserDataDelegate == [value : Lists]
UserDataDefault == [value |-> << >>]
TUserData == Class(UserDataDelegate, UserDataDefault, {})

GroupDataDelegate == [value : Lists]
GroupDataDefault == [value |-> << >>]
TGroupData == Class(GroupDataDelegate, GroupDataDefault, {})

TopicDataDelegate == [value : Lists]
TopicDataDefault == [value |-> << >>]
TTopicData == Class(TopicDataDelegate, TopicDataDefault, {})

PartitionDelegate == [name : Lists]
PartitionDefault == [name |-> <<"">>]
TPartition == Class(PartitionDelegate, PartitionDefault, {[name |-> <<"">>]})

DataRepresentationDelegate == [value : {<< >>} \cup {<<r>> : r \in DataRepresentationId}]
DataRepresentationDefault == [value |-> << >>]
TDataRepresentation == Class(DataRepresentationDelegate, DataRepresentationDefault, {})

PSMXInstancesDelegate == [instances : Lists]
PSMXInstancesDefault == [instances |-> << >>]
TPSMXInstances == Class(PSMXInstancesDelegate, PSMXInstancesDefault, {})

(* Two maps, one of the values and one of whether they are propagated.     *)
Names == {"name", "another"}
MapsTo(S) == UNION {[ns -> S] : ns \in SUBSET Names}

PropertyDelegate == [props : MapsTo({"x", "y"}), to_propagate : MapsTo(BOOLEAN)]
PropertyDefault == [props |-> << >>, to_propagate |-> << >>]
TProperty == Class(PropertyDelegate, PropertyDefault, {})

BinaryPropertyDelegate == [props : MapsTo({"x", "y"}), to_propagate : MapsTo(BOOLEAN)]
BinaryPropertyDefault == [props |-> << >>, to_propagate |-> << >>]
TBinaryProperty == Class(BinaryPropertyDelegate, BinaryPropertyDefault, {})

EntityNameDelegate == [name : {"", "name"}]
EntityNameDefault == [name |-> ""]
TEntityName == Class(EntityNameDelegate, EntityNameDefault, {})

-----------------------------------------------------------------------------
(* Numbers and flags.                                                      *)
EntityFactoryDelegate == [auto_enable : BOOLEAN]
EntityFactoryDefault == [auto_enable |-> TRUE]
TEntityFactory ==
    Class(EntityFactoryDelegate, EntityFactoryDefault, [auto_enable : BOOLEAN])

TransportPriorityDelegate == [value : {0, -1, 1}]
TransportPriorityDefault == [value |-> 0]
TTransportPriority == Class(TransportPriorityDelegate, TransportPriorityDefault, {})

OwnershipStrengthDelegate == [strength : {0, -1, 1}]
OwnershipStrengthDefault == [strength |-> 0]
TOwnershipStrength == Class(OwnershipStrengthDelegate, OwnershipStrengthDefault, {})

WriterDataLifecycleDelegate == [autodispose : BOOLEAN]
WriterDataLifecycleDefault == [autodispose |-> TRUE]
TWriterDataLifecycle ==
    Class(WriterDataLifecycleDelegate, WriterDataLifecycleDefault, [autodispose : BOOLEAN])

WriterBatchingDelegate == [batch_updates : BOOLEAN]
WriterBatchingDefault == [batch_updates |-> FALSE]
TWriterBatching ==
    Class(WriterBatchingDelegate, WriterBatchingDefault, [batch_updates : BOOLEAN])

-----------------------------------------------------------------------------
(* Durations.                                                              *)
LifespanDelegate == [duration : SomeDurations]
LifespanDefault == [duration |-> Infinite]
TLifespan == Class(LifespanDelegate, LifespanDefault, {})

DeadlineDelegate == [period : SomeDurations]
DeadlineDefault == [period |-> Infinite]
TDeadline == Class(DeadlineDelegate, DeadlineDefault, {})

LatencyBudgetDelegate == [duration : SomeDurations]
LatencyBudgetDefault == [duration |-> Zero]
TLatencyBudget == Class(LatencyBudgetDelegate, LatencyBudgetDefault, {})

TimeBasedFilterDelegate == [min_separation : SomeDurations]
TimeBasedFilterDefault == [min_separation |-> Zero]
TTimeBasedFilter == Class(TimeBasedFilterDelegate, TimeBasedFilterDefault, {})

ReaderDataLifecycleDelegate == [nowriter : SomeDurations, disposed : {Infinite, Zero}]
ReaderDataLifecycleDefault == [nowriter |-> Infinite, disposed |-> Infinite]
TReaderDataLifecycle ==
    Class(ReaderDataLifecycleDelegate, ReaderDataLifecycleDefault,
          [nowriter : {Infinite}, disposed : {Infinite, Zero}])

-----------------------------------------------------------------------------
(* Kinds.                                                                  *)
OwnershipDelegate == [kind : OwnershipKind]
OwnershipDefault == [kind |-> "SHARED"]
TOwnership == Class(OwnershipDelegate, OwnershipDefault, [kind : OwnershipKind])

DurabilityDelegate == [kind : DurabilityKind]
DurabilityDefault == [kind |-> "VOLATILE"]
TDurability == Class(DurabilityDelegate, DurabilityDefault, [kind : DurabilityKind])

DestinationOrderDelegate == [kind : DestinationOrderKind]
DestinationOrderDefault == [kind |-> "BY_RECEPTION_TIMESTAMP"]
TDestinationOrder ==
    Class(DestinationOrderDelegate, DestinationOrderDefault, [kind : DestinationOrderKind])

IgnoreLocalDelegate == [kind : IgnoreLocalKind]
IgnoreLocalDefault == [kind |-> "NONE"]
TIgnoreLocal == Class(IgnoreLocalDelegate, IgnoreLocalDefault, [kind : IgnoreLocalKind])

-----------------------------------------------------------------------------
(* Several members. The default of max_blocking_time is 100 milliseconds,  *)
(* which is also the one of a writer of the C library.                     *)
PresentationDelegate ==
    [scope : PresentationAccessScopeKind, coherent : BOOLEAN, ordered : BOOLEAN]
PresentationDefault == [scope |-> "INSTANCE", coherent |-> FALSE, ordered |-> FALSE]
TPresentation ==
    Class(PresentationDelegate, PresentationDefault,
          [scope : PresentationAccessScopeKind, coherent : BOOLEAN, ordered : BOOLEAN])

ReliabilityDelegate == [kind : ReliabilityKind, max_blocking_time : SomeDurations]
ReliabilityDefault == [kind |-> "BEST_EFFORT", max_blocking_time |-> SomeBlocking]
TReliability ==
    Class(ReliabilityDelegate, ReliabilityDefault,
          [kind : ReliabilityKind, max_blocking_time : SomeDurations])

LivelinessDelegate == [kind : LivelinessKind, lease_duration : SomeDurations]
LivelinessDefault == [kind |-> "AUTOMATIC", lease_duration |-> Infinite]
TLiveliness ==
    Class(LivelinessDelegate, LivelinessDefault,
          [kind : LivelinessKind, lease_duration : SomeDurations])

(* KeepLast takes an unsigned number: the largest become negative.         *)
HistoryDelegate == [kind : HistoryKind, depth : -1 .. 2]
HistoryDefault == [kind |-> "KEEP_LAST", depth |-> 1]
THistory ==
    Class(HistoryDelegate, HistoryDefault,
          {[kind |-> "KEEP_ALL", depth |-> 1]} \cup [kind : {"KEEP_LAST"}, depth : -1 .. 2])

ResourceLimitsDelegate ==
    [max_samples : {Unlimited, 0, 1}, max_instances : {Unlimited, 0, 1},
     max_samples_per_instance : {Unlimited, 0, 1}]
ResourceLimitsDefault ==
    [max_samples |-> Unlimited, max_instances |-> Unlimited,
     max_samples_per_instance |-> Unlimited]
TResourceLimits == Class(ResourceLimitsDelegate, ResourceLimitsDefault, {})

(* One limit stands for the three.                                         *)
DurabilityServiceDelegate ==
    [delay : {Zero, Infinite}, kind : HistoryKind, depth : 0 .. 1,
     max_samples_per_instance : {Unlimited, -2, 0}]
DurabilityServiceDefault ==
    [delay |-> Zero, kind |-> "KEEP_LAST", depth |-> 1, max_samples_per_instance |-> Unlimited]
TDurabilityService == Class(DurabilityServiceDelegate, DurabilityServiceDefault, {})

(* Two flags stand for the five.                                           *)
TypeConsistencyEnforcementDelegate ==
    [kind : TypeConsistencyKind, ignore : BOOLEAN, force : BOOLEAN]
TypeConsistencyEnforcementDefault ==
    [kind |-> "ALLOW_TYPE_COERCION", ignore |-> TRUE, force |-> FALSE]
TTypeConsistencyEnforcement ==
    Class(TypeConsistencyEnforcementDelegate, TypeConsistencyEnforcementDefault, {})

-----------------------------------------------------------------------------
ClassOf ==
    [Deadline |-> TDeadline, LatencyBudget |-> TLatencyBudget, Lifespan |-> TLifespan,
     TimeBasedFilter |-> TTimeBasedFilter, ReaderDataLifecycle |-> TReaderDataLifecycle,
     DestinationOrder |-> TDestinationOrder, Durability |-> TDurability,
     Ownership |-> TOwnership, IgnoreLocal |-> TIgnoreLocal,
     TransportPriority |-> TTransportPriority, OwnershipStrength |-> TOwnershipStrength,
     WriterDataLifecycle |-> TWriterDataLifecycle, WriterBatching |-> TWriterBatching,
     EntityName |-> TEntityName, EntityFactory |-> TEntityFactory, UserData |-> TUserData,
     TopicData |-> TTopicData, GroupData |-> TGroupData, Partition |-> TPartition,
     DataRepresentation |-> TDataRepresentation, PSMXInstances |-> TPSMXInstances,
     Property |-> TProperty, BinaryProperty |-> TBinaryProperty, History |-> THistory,
     ResourceLimits |-> TResourceLimits, DurabilityService |-> TDurabilityService,
     Liveliness |-> TLiveliness, Reliability |-> TReliability, Presentation |-> TPresentation,
     TypeConsistencyEnforcement |-> TTypeConsistencyEnforcement]

HoldsMaps == class \in {"Property", "BinaryProperty"}

(* The value of PolicyValues that an object of class c stands for.         *)
ValueOf(c, o) ==
    IF c \in {"Property", "BinaryProperty"}
    THEN [n \in DOMAIN o.props |-> [value |-> o.props[n], propagate |-> o.to_propagate[n]]]
    ELSE IF Cardinality(DOMAIN o) = 1 THEN o[CHOOSE f \in DOMAIN o : TRUE]
    ELSE o

(* check() of the delegate.                                                *)
Refuses(c, o) ==
    IF c = "History" THEN NoHistory(o)
    ELSE IF c = "ResourceLimits" THEN NoLimit(o)
    ELSE ValueOf(c, o) \in Policy[c].refused

ObjectsInit ==
    /\ class \in DOMAIN ClassOf
    /\ object = [h \in PolicyHandles |-> NoObject]
    /\ edited = {}

Becomes(h, o) ==
    /\ object' = [object EXCEPT ![h] = o]
    /\ UNCHANGED class

(* A constructor: with arguments, without them, or from a factory. It      *)
(* throws if check() does, and there is no object.                         *)
Unchecked(h, o) == Becomes(h, o) /\ edited' = edited \ {h}  \* mutant
Constructed(h, o) == ~Refuses(class, o) /\ Becomes(h, o) /\ edited' = edited \ {h}

ConstructPolicy(h) ==
    /\ object[h] = NoObject
    /\ \E o \in {ClassOf[class].default} \cup ClassOf[class].factories
                 \cup (IF HoldsMaps THEN {} ELSE ClassOf[class].delegate) : Constructed(h, o)

(* Property({..}, is_propagate): entries of the same kind.                 *)
ConstructMaps(h) ==
    /\ HoldsMaps /\ object[h] = NoObject
    /\ \E ns \in SUBSET Names, propagate \in BOOLEAN :
           Constructed(h, [props |-> [n \in ns |-> "x"],
                           to_propagate |-> [n \in ns |-> propagate]])

(* A setter of a member.                                                   *)
SetMember(h) ==
    /\ ~HoldsMaps /\ object[h] # NoObject
    /\ \E f \in DOMAIN object[h] : \E v \in {o[f] : o \in ClassOf[class].delegate} :
           Becomes(h, [object[h] EXCEPT ![f] = v])
    /\ edited' = edited \cup {h}

(* set() writes to both maps; remove() erases from both what is there.     *)
WithEntry(f, n, v) == [k \in DOMAIN f \cup {n} |-> IF k = n THEN v ELSE f[k]]
WithoutEntry(f, n) == [k \in DOMAIN f \ {n} |-> f[k]]

SetEntry(h) ==
    /\ HoldsMaps /\ object[h] # NoObject
    /\ \E n \in Names, v \in {"x", "y"}, propagate \in BOOLEAN :
           Becomes(h, [props |-> WithEntry(object[h].props, n, v),
                       to_propagate |-> WithEntry(object[h].to_propagate, n, propagate)])
    /\ edited' = edited \cup {h}

RemoveValue(h) ==                                           \* mutant
    /\ HoldsMaps /\ object[h] # NoObject
    /\ \E n \in DOMAIN object[h].props :
           Becomes(h, [object[h] EXCEPT !.props = WithoutEntry(@, n)])
    /\ edited' = edited \cup {h}
RemoveEntry(h) ==
    /\ HoldsMaps /\ object[h] # NoObject
    /\ \E n \in DOMAIN object[h].props :
           Becomes(h, [props |-> WithoutEntry(object[h].props, n),
                       to_propagate |-> WithoutEntry(object[h].to_propagate, n)])
    /\ edited' = edited \cup {h}

(* The copy constructor and operator=.                                     *)
Copy(h) ==
    \E source \in PolicyHandles \ {h} :
        /\ object[source] # NoObject
        /\ Becomes(h, object[source])
        /\ edited' = IF source \in edited THEN edited \cup {h} ELSE edited \ {h}

ObjectsNext ==
    \E h \in PolicyHandles :
        ConstructPolicy(h) \/ ConstructMaps(h) \/ SetMember(h) \/ SetEntry(h) \/ RemoveEntry(h)
        \/ Copy(h)

ObjectsSpec == ObjectsInit /\ [][ObjectsNext]_objectVars

-----------------------------------------------------------------------------
ObjectsTypeOK ==
    /\ class \in DOMAIN ClassOf
    /\ \A h \in PolicyHandles : object[h] = NoObject \/ object[h] \in ClassOf[class].delegate
    /\ edited \subseteq PolicyHandles

(* To construct a policy without arguments and to give it to an entity is  *)
(* to give the entity the default of the C library. It is not so for       *)
(* Reliability, whose default is best effort with 100 milliseconds for     *)
(* writers too, and for Partition, which is one empty name.                *)
DefaultIsDefault(c, default) ==
    \A k \in Kinds : c \in PoliciesOf[k] \ {"Reliability", "Partition"} =>
        CDefault(k)[c] \in {Nothing, Policy[c].toC[ValueOf(c, default)]}

(* An object no member of which was set has passed its check, so that a    *)
(* qos takes it, however it was constructed, made or copied; the two maps  *)
(* of properties have the same names, or propagate() and set_c_policy()    *)
(* throw std::out_of_range; and the objects that are constructed without   *)
(* arguments are the defaults.                                             *)
PolicyObjectsAgree ==
    /\ \A h \in PolicyHandles : object[h] # NoObject =>
           /\ h \notin edited => ~Refuses(class, object[h])
           /\ HoldsMaps => DOMAIN object[h].props = DOMAIN object[h].to_propagate
           /\ object[h] = ClassOf[class].default => DefaultIsDefault(class, object[h])
=============================================================================
