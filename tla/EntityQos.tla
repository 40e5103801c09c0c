------------------------------ MODULE EntityQos ------------------------------
(***************************************************************************)
(* The qos of an entity: an application constructs a qos object, edits it, *)
(* reads it from a profile or derives it from the qos of a topic, creates  *)
(* an entity with it and replaces the qos of the entity.                   *)
(*                                                                         *)
(* A qos object is a record: present, the flags of the policies that are   *)
(* passed on; value, the value of each policy; byRef (ghost), the policies *)
(* edited through the reference policy<P>() returns, which nothing checks. *)
(* A qos of the C library is a function from policies to its values.       *)
(***************************************************************************)
EXTENDS PolicyValues, FiniteSets

CONSTANTS
    SomeBlocking,  \* the max_blocking_time the C library gives a writer
    MaxEdits       \* bound on the calls that change the qos object

ASSUME BlockingAssumption == SomeBlocking \in SomeDurations
ASSUME EditsAssumption == MaxEdits \in Nat

VARIABLES
    qosKind,       \* the kind of the entity
    app,           \* the qos object of the application
    held,          \* the entity's qos_, or NoQos before it is created
    installed,     \* the qos of the entity in the C library, or NoQos
    edits          \* calls that changed app

qosVars == <<qosKind, app, held, installed, edits>>

NoQos == [absent |-> TRUE]

-----------------------------------------------------------------------------
(***************************************************************************)
(* The policies of each kind.                                              *)
(***************************************************************************)
DataReaderQos ==
    {"UserData", "Property", "BinaryProperty", "EntityName", "Durability", "Deadline",
     "LatencyBudget", "Liveliness", "Reliability", "DestinationOrder", "History",
     "ResourceLimits", "Ownership", "TimeBasedFilter", "ReaderDataLifecycle",
     "DataRepresentation", "TypeConsistencyEnforcement", "PSMXInstances", "IgnoreLocal"}

DataWriterQos ==
    {"UserData", "Property", "BinaryProperty", "EntityName", "Durability", "DurabilityService",
     "Deadline", "LatencyBudget", "Liveliness", "Reliability", "DestinationOrder", "History",
     "ResourceLimits", "TransportPriority", "Lifespan", "Ownership", "OwnershipStrength",
     "WriterDataLifecycle", "DataRepresentation", "TypeConsistencyEnforcement",
     "WriterBatching", "PSMXInstances", "IgnoreLocal"}

TopicQos ==
    {"TopicData", "Durability", "DurabilityService", "Deadline", "LatencyBudget", "Liveliness",
     "Reliability", "DestinationOrder", "History", "ResourceLimits", "TransportPriority",
     "Lifespan", "Ownership", "DataRepresentation", "TypeConsistencyEnforcement"}

PublisherQos == {"Presentation", "Partition", "GroupData", "EntityFactory"}
SubscriberQos == {"Presentation", "Partition", "GroupData", "EntityFactory"}
DomainParticipantQos == {"UserData", "Property", "BinaryProperty", "EntityName", "EntityFactory"}

PoliciesOf ==
    [reader |-> DataReaderQos, writer |-> DataWriterQos, topic |-> TopicQos,
     publisher |-> PublisherQos, subscriber |-> SubscriberQos,
     participant |-> DomainParticipantQos]

Kinds == DOMAIN PoliciesOf

-----------------------------------------------------------------------------
(***************************************************************************)
(* The calls on a qos object.                                              *)
(***************************************************************************)
(* What the C library has by default: every flag but a few.                *)
DefaultFlags(k) ==
    {Policy[p].bit : p \in PoliciesOf[k]} \ {"PROPERTY_LIST", "ENTITY_NAME", "PSMX"}
DefaultValue(k) ==
    [p \in PoliciesOf[k] |->
        IF k = "writer" /\ p = "Reliability"
        THEN [kind |-> "RELIABLE", max_blocking_time |-> SomeBlocking]
        ELSE Policy[p].start]

(* The constructor takes the defaults of the C library.                    *)
Default(k) ==
    [present |-> DefaultFlags(k) \ {"DATA_REPRESENTATION"}, value |-> DefaultValue(k),
     byRef |-> {}]

(* policy(const P&) throws if the policy is refused.                       *)
Set(q, p, v) ==
    IF v \in Policy[p].refused THEN q
    ELSE [present |-> q.present \cup {Policy[p].bit}, value |-> [q.value EXCEPT ![p] = v],
          byRef |-> q.byRef \ {p}]

(* policy<P>() returns a reference, through which the value changes.       *)
EditReference(q, p, v) ==
    [present |-> q.present \cup {Policy[p].bit}, value |-> [q.value EXCEPT ![p] = v],
     byRef |-> q.byRef \cup {p}]

(* check(): policies against each other.                                   *)
CheckHistoryOnly(k, q) ==                                  \* mutant
    k \in {"reader", "writer", "topic"} =>
        (q.value["History"].kind = "KEEP_LAST" =>
            \/ q.value["ResourceLimits"].max_samples_per_instance = Unlimited
            \/ q.value["History"].depth <= q.value["ResourceLimits"].max_samples_per_instance)
Check(k, q) ==
    /\ k \in {"reader", "writer", "topic"} =>
           (q.value["History"].kind = "KEEP_LAST" =>
               \/ q.value["ResourceLimits"].max_samples_per_instance = Unlimited
               \/ q.value["History"].depth <= q.value["ResourceLimits"].max_samples_per_instance)
    /\ k = "reader" => ~Less(q.value["Deadline"], q.value["TimeBasedFilter"])

(* ==. Properties of both kinds are compared by their names and values, not*)
(* by whether they are propagated.                                         *)
Propagated == {"Property", "BinaryProperty"}
Compared(p, v) ==
    IF p \in Propagated THEN [n \in DOMAIN v |-> v[n].value] ELSE v
EqualButForFlags(k, a, b) ==                               \* mutant
    \A p \in PoliciesOf[k] : Compared(p, a.value[p]) = Compared(p, b.value[p])
Equal(k, a, b) ==
    /\ a.present = b.present
    /\ \A p \in PoliciesOf[k] : Compared(p, a.value[p]) = Compared(p, b.value[p])

(* ddsc_qos() const: a qos of the C library.                               *)
Converted(k, q) ==
    [p \in PoliciesOf[k] |->
        IF Policy[p].bit \in q.present THEN Policy[p].toC[q.value[p]] ELSE Nothing]

FlagsOf(c) == {Policy[p].bit : p \in {r \in DOMAIN c : c[r] # Nothing}}

(* ddsc_qos(c, false): the values of c; what c does not have is kept.      *)
ReadIfPresent(k, q, c) ==                                   \* mutant
    [q EXCEPT !.value = [p \in PoliciesOf[k] |->
        IF c[p] # Nothing /\ Policy[p].bit \in q.present
        THEN Policy[p].fromC[c[p]] ELSE q.value[p]]]
Read(k, q, c) ==
    [q EXCEPT !.value = [p \in PoliciesOf[k] |->
        IF c[p] = Nothing THEN q.value[p] ELSE Policy[p].fromC[c[p]]]]

(* QosProvider: the values and the flags of c.                             *)
FromProfile(k, c) ==
    [Read(k, Default(k), c) EXCEPT !.present = @ \cup FlagsOf(c)]

(* DataReaderQos = TopicQos and DataWriterQos = TopicQos: every policy the *)
(* two have, if it is present, with the checks of its setter.              *)
Taken(k) ==
    IF k = "reader"
    THEN {"Durability", "Deadline", "LatencyBudget", "Liveliness", "Reliability",
          "DestinationOrder", "History", "ResourceLimits", "Ownership", "DataRepresentation",
          "TypeConsistencyEnforcement"}
    ELSE {"Durability", "DurabilityService", "Deadline", "LatencyBudget", "Liveliness",
          "Reliability", "DestinationOrder", "History", "ResourceLimits", "TransportPriority",
          "Lifespan", "Ownership", "DataRepresentation", "TypeConsistencyEnforcement"}

DerivedFlags(k, t) ==                                       \* mutant
    [Default(k) EXCEPT !.present = @ \cup t.present]
Derived(k, t) ==
    LET ps == {p \in Taken(k) : Policy[p].bit \in t.present}
        q == Default(k)
    IN  [present |-> q.present \cup {Policy[p].bit : p \in ps},
         value |-> [p \in PoliciesOf[k] |-> IF p \in ps THEN t.value[p] ELSE q.value[p]],
         byRef |-> q.byRef]

Derivable(k, t) ==
    \A p \in Taken(k) : Policy[p].bit \in t.present => t.value[p] \notin Policy[p].refused

-----------------------------------------------------------------------------
(***************************************************************************)
(* The C library: an entity has its defaults for what is not given, and    *)
(* keeps what is not given when its qos is set. It may refuse any qos.     *)
(***************************************************************************)
Given(c, otherwise) == [p \in DOMAIN c |-> IF c[p] = Nothing THEN otherwise[p] ELSE c[p]]

CDefault(k) ==
    [p \in PoliciesOf[k] |->
        IF Policy[p].bit \in DefaultFlags(k) THEN Policy[p].toC[DefaultValue(k)[p]] ELSE Nothing]

-----------------------------------------------------------------------------
(***************************************************************************)
(* The application.                                                        *)
(***************************************************************************)
QosInit ==
    /\ qosKind \in Kinds
    /\ app = Default(qosKind)
    /\ held = NoQos /\ installed = NoQos
    /\ edits = 0

Change(q) ==
    /\ edits < MaxEdits
    /\ app' = q
    /\ edits' = edits + 1

SetPolicy ==
    \E p \in PoliciesOf[qosKind] : \E v \in Policy[p].values :
        Change(Set(app, p, v)) /\ UNCHANGED <<qosKind, held, installed>>

(* By reference, where it matters: a policy with values that are refused.  *)
EditPolicy ==
    \E p \in {r \in PoliciesOf[qosKind] : Policy[r].refused # {}} : \E v \in Policy[p].values :
        Change(EditReference(app, p, v)) /\ UNCHANGED <<qosKind, held, installed>>

(* A profile is a qos that some other application once converted.          *)
LoadProfile ==
    \E p \in PoliciesOf[qosKind] : \E v \in Policy[p].values \ Policy[p].refused :
        /\ Change(FromProfile(qosKind, Converted(qosKind,
                      [present |-> {Policy[p].bit}, value |-> [DefaultValue(qosKind) EXCEPT ![p] = v]])))
        /\ UNCHANGED <<qosKind, held, installed>>

(* A qos of a reader or a writer from the one of a topic; the constructor  *)
(* throws if a setter does.                                                *)
DeriveFromTopic ==
    /\ qosKind = "topic" /\ held = NoQos
    /\ \E k \in {"reader", "writer"} :
           /\ Derivable(k, app)
           /\ qosKind' = k
           /\ app' = Derived(k, app)
    /\ UNCHANGED <<held, installed, edits>>

CreateEntity ==
    /\ held = NoQos /\ Check(qosKind, app)
    /\ held' = app
    /\ installed' = Given(Converted(qosKind, app), CDefault(qosKind))
    /\ UNCHANGED <<qosKind, app, edits>>

(* A topic found in the C library: its values with the default flags.      *)
DiscoverTopic ==
    /\ held = NoQos /\ qosKind = "topic" /\ Check(qosKind, app) /\ app.byRef = {}
    /\ installed' = Given(Converted("topic", app), CDefault("topic"))
    /\ held' = Read("topic", Default("topic"), installed')
    /\ UNCHANGED <<qosKind, app, edits>>

(* Where the C library refuses, the entity keeps its qos_.                 *)
SetQosEarly ==                                              \* mutant
    /\ held # NoQos /\ Check(qosKind, app)
    /\ held' = app
    /\ \/ installed' = Given(Converted(qosKind, app), installed)
       \/ installed' = installed
    /\ UNCHANGED <<qosKind, app, edits>>
SetQos ==
    /\ held # NoQos /\ Check(qosKind, app)
    /\ \/ /\ held' = app
          /\ installed' = Given(Converted(qosKind, app), installed)
       \/ UNCHANGED <<held, installed>>
    /\ UNCHANGED <<qosKind, app, edits>>

(* The application takes a copy of the qos of the entity.                  *)
GetQos ==
    /\ held # NoQos
    /\ app' = held
    /\ UNCHANGED <<qosKind, held, installed, edits>>

QosNext ==
    \/ SetPolicy \/ EditPolicy \/ LoadProfile \/ DeriveFromTopic
    \/ CreateEntity \/ DiscoverTopic \/ SetQos \/ GetQos

QosSpec == QosInit /\ [][QosNext]_qosVars

-----------------------------------------------------------------------------
(***************************************************************************)
(* Properties.                                                             *)
(***************************************************************************)
IsQos(k, q) ==
    /\ DOMAIN q.value = PoliciesOf[k]
    /\ \A p \in PoliciesOf[k] : q.value[p] \in Policy[p].values
    /\ q.present \subseteq {Policy[p].bit : p \in PoliciesOf[k]}
    /\ q.byRef \subseteq PoliciesOf[k]

(* Every policy of a qos has one of its values, on either side of the      *)
(* conversion.                                                             *)
QosTypeOK ==
    /\ qosKind \in Kinds /\ IsQos(qosKind, app) /\ edits \in 0 .. MaxEdits
    /\ (held = NoQos) <=> (installed = NoQos)
    /\ held # NoQos => IsQos(qosKind, held) /\ DOMAIN installed = PoliciesOf[qosKind]

(* By whatever calls it got its qos, no entity holds one whose policies    *)
(* contradict each other: more samples of an instance kept than limited    *)
(* to, or more time between samples than the deadline allows.              *)
HeldIsConsistent ==
    held # NoQos =>
        /\ qosKind \in {"reader", "writer", "topic"} =>
               LET limit == held.value["ResourceLimits"].max_samples_per_instance
               IN  held.value["History"].kind = "KEEP_LAST" /\ limit # Unlimited =>
                       held.value["History"].depth <= limit
        /\ qosKind = "reader" =>
               ToC(held.value["TimeBasedFilter"]) <= ToC(held.value["Deadline"])

(* No refused value is held, unless through a reference to the policy.     *)
HeldIsValid ==
    held # NoQos =>
        \A p \in PoliciesOf[qosKind] : held.value[p] \in Policy[p].refused => p \in held.byRef

(* What an entity holds went through every check.                          *)
HeldIsChecked == HeldIsConsistent /\ HeldIsValid

(* What qos() returns is what the C library has, after refused calls too,  *)
(* except that an emptied list is not emptied in the C library.            *)
HeldIsInstalled ==
    held # NoQos =>
        \A p \in PoliciesOf[qosKind] :
            LET c == Policy[p].toC[held.value[p]]
            IN  Policy[p].bit \in held.present /\ c # Nothing => installed[p] = c

(* What is in force was checked, and what is reported is in force.         *)
HeldIsInForce == HeldIsChecked /\ HeldIsInstalled

(* What is installed, apart from whether properties are propagated.        *)
Installed(p, c) == IF c = Nothing THEN c ELSE <<Compared(p, c[1])>>

(* Two qos that compare equal install the same policies, with the same     *)
(* values. For properties of both kinds these are the names and values:    *)
(* whether they are propagated is installed (PolicyDelegate.cpp:1697-1703, *)
(* 1819-1827) and not compared (1659-1662, 1777-1780).                     *)
EqualInstallsEqual ==
    held # NoQos /\ Equal(qosKind, app, held) =>
        \A p \in PoliciesOf[qosKind] :
            LET mine == Converted(qosKind, app)[p]
                theirs == Converted(qosKind, held)[p]
            IN  IF p \in Propagated THEN Installed(p, mine) = Installed(p, theirs)
                ELSE mine = theirs

(* A qos that goes to the C library and is read back converts to the same. *)
ConversionIsStable ==
    LET c == Converted(qosKind, app)
        back == FromProfile(qosKind, c)
        again == Converted(qosKind, back)
    IN  \A p \in PoliciesOf[qosKind] : c[p] # Nothing => again[p] = c[p]

(* A reader or a writer created with the qos of its topic has in the C     *)
(* library what a topic would have, for every policy both have.            *)
DerivedAgrees ==
    qosKind = "topic" =>
        \A k \in {"reader", "writer"} :
            Derivable(k, app) =>
                \A p \in PoliciesOf["topic"] \cap PoliciesOf[k] :
                    Converted("topic", app)[p] \in {Nothing, Converted(k, Derived(k, app))[p]}

(* On every way from one qos to another, each policy that is passed on     *)
(* arrives as it was.                                                      *)
NothingIsDropped == ConversionIsStable /\ DerivedAgrees /\ EqualInstallsEqual
=============================================================================
