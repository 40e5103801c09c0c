----------------------------- MODULE MCEntities -----------------------------
(***************************************************************************)
(* Four parts that share no state, checked in one run: the domains that    *)
(* participants share, the statuses that reach listeners, the qos of an    *)
(* entity, and policy objects. A behaviour is one of one of them; the      *)
(* others stay as they are at first.                                       *)
(***************************************************************************)
EXTENDS DomainRegistry, StatusDelivery, PolicyObjects, TLC

VARIABLE subject       \* the part that runs

CONSTANTS p1, p2, p3, x1, x2

ThreeParticipants == {p1, p2, p3}
TwoDomains == {x1, x2}

Chains == {<<"reader", "subscriber", "participant">>, <<"writer", "publisher", "participant">>,
           <<"topic", "participant">>}
SomeMasks == {{}, StatusesUsed}

Blocking == [sec |-> 0, nanosec |-> 4]
QosDurations == {Blocking, [sec |-> 0, nanosec |-> 0], [sec |-> 17, nanosec |-> 17]}
QosLists == {<< >>, <<"a", "b">>}

Interchangeable == Permutations(Participants) \cup Permutations(Deliverers)

(* Where another part begins.                                              *)
NoSourceYet ==
    /\ line = (CHOOSE l \in Lines : TRUE) /\ mask = [k \in Levels |-> {}]
    /\ noop = [k \in Levels |-> k = 1 /\ CreatedNoop] /\ DeliveryInit
NoQosYet == qosKind = "participant" /\ QosInit
NoObjectYet == class = "History" /\ ObjectsInit

EntitiesInit ==
    /\ Init
    /\ \/ subject = "domain" /\ NoSourceYet /\ NoQosYet /\ NoObjectYet
       \/ subject = "status" /\ DeliveryInit /\ NoQosYet /\ NoObjectYet
       \/ subject = "qos" /\ NoSourceYet /\ QosInit /\ NoObjectYet
       \/ subject = "policy" /\ NoSourceYet /\ NoQosYet /\ ObjectsInit

SharingDomains ==
    subject = "domain" /\ Next /\ UNCHANGED <<subject, deliveryVars, qosVars, objectVars>>
Statuses ==
    subject = "status" /\ DeliveryNext /\ UNCHANGED <<subject, vars, qosVars, objectVars>>
Qos ==
    subject = "qos" /\ QosNext /\ UNCHANGED <<subject, vars, deliveryVars, objectVars>>
Objects ==
    subject = "policy" /\ ObjectsNext /\ UNCHANGED <<subject, vars, deliveryVars, qosVars>>

EntitiesNext == SharingDomains \/ Statuses \/ Qos \/ Objects

EntitiesSpec ==
    EntitiesInit /\ [][EntitiesNext]_<<subject, vars, deliveryVars, qosVars, objectVars>>

(* The types of the parts.                                                 *)
EntitiesTypeOK ==
    /\ subject \in {"domain", "status", "qos", "policy"}
    /\ TypeOK /\ DeliveryTypeOK /\ QosTypeOK /\ ObjectsTypeOK
=============================================================================
