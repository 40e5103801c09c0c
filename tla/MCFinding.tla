----------------------------- MODULE MCFinding -----------------------------
(***************************************************************************)
(* Two parts that share no state, checked in one run: the entities that    *)
(* threads create and close, and the lookups among entities that come and  *)
(* go. A behaviour is one of one of them; the other stays as it is at      *)
(* first.                                                                  *)
(***************************************************************************)
EXTENDS MCEntityTree, EntityLookup

CONSTANTS c1, c2

VARIABLE subject       \* the part that runs

TwoCallers == {c1, c2}

(* Two participants; in one of them a subscriber with a reader of a        *)
(* filtered topic, a publisher with a writer, the topic of both, a second  *)
(* topic that is created late, and a discovered AnyTopic. The topics have  *)
(* one name, the filtered topic has another.                               *)
Things == {"dp", "other", "sub", "reader", "pub", "writer", "topic1", "topic2", "cft", "any"}

ThingSort ==
    [o \in Things |->
        CASE o \in {"dp", "other"} -> "participant"
          [] o = "sub" -> "subscriber"
          [] o = "pub" -> "publisher"
          [] o \in {"topic1", "topic2"} -> "topic"
          [] o = "any" -> "discovered"
          [] OTHER -> o]

ThingHolder ==
    [o \in Things |->
        CASE o \in {"dp", "other"} -> None
          [] o = "reader" -> "sub"
          [] o = "writer" -> "pub"
          [] OTHER -> "dp"]

ThingLabel ==
    [o \in Things |->
        CASE o \in {"dp", "other"} -> 0 [] o \in {"cft", "reader"} -> "f" [] OTHER -> "t"]

ThingAbout ==
    [o \in Things |->
        CASE o = "reader" -> "cft" [] o \in {"writer", "cft"} -> "topic1" [] OTHER -> None]

LateThings == {"topic2"}

Question(op, on, for) == [op |-> op, on |-> on, for |-> for]

Questions ==
    {Question("find_topic", "dp", "t"), Question("find_topic_description", "dp", "f"),
     Question("lookup_participant", None, 0),
     Question("find_datareaders", "sub", "f"), Question("find_datawriter", "pub", "t"),
     Question("contains", "dp", "reader")}

(* One thread asks, the other closes and drops.                            *)
OneAsks == [c \in Callers |-> IF c = c1 THEN Questions ELSE {}]
OtherCloses ==
    [c \in Callers |-> IF c = c1 THEN {}
                       ELSE {"other", "sub", "reader", "topic2", "any", "cft"}]
OtherForgets ==
    [c \in Callers |-> IF c = c1 THEN {} ELSE {"other", "reader", "writer", "topic2", "cft"}]
OneAndTwoCalls == [c \in Callers |-> IF c = c1 THEN 1 ELSE 2]

FindingInit == Init /\ LookupInit /\ subject \in {"tree", "lookup"}

Tree == subject = "tree" /\ Next /\ UNCHANGED <<subject, lookupVars>>
Lookup == subject = "lookup" /\ LookupNext /\ UNCHANGED <<subject, vars>>

FindingSpec ==
    /\ FindingInit
    /\ [][Tree \/ Lookup]_<<subject, vars, lookupVars>>
    /\ \A t \in Threads : WF_vars(Step(t))
    /\ LookupFairness

(* The types of both parts.                                                *)
FindingTypeOK == subject \in {"tree", "lookup"} /\ TypeOK /\ LookupTypeOK

(* close() of a participant that is repeated succeeds, and lookups end.    *)
ClosesAndLookupsEnd == RetriedCloseSucceeds /\ LookupsEnd
=============================================================================
