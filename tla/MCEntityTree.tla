---------------------------- MODULE MCEntityTree ----------------------------
(* Instances of EntityTree for TLC.                                        *)
EXTENDS EntityTree

CONSTANTS t1, t2

TwoThreads == {t1, t2}

(* A participant with a subscriber, a publisher, two topics, a filtered    *)
(* topic on the first, a reader with a read condition on the filtered      *)
(* topic and a writer on the second topic. No two entities share a topic.  *)
Whole == {"dp", "sub", "pub", "topic1", "topic2", "cft", "reader", "writer", "query"}

WholeKind ==
    [e \in Whole |->
        CASE e = "dp" -> "participant"
          [] e = "sub" -> "subscriber"
          [] e = "pub" -> "publisher"
          [] e \in {"topic1", "topic2"} -> "topic"
          [] OTHER -> e]

WholeParent ==
    [e \in Whole |->
        CASE e = "dp" -> Nobody
          [] e = "reader" -> "sub"
          [] e = "writer" -> "pub"
          [] e = "query" -> "reader"
          [] OTHER -> "dp"]

WholeTopic ==
    [e \in Whole |->
        CASE e = "reader" -> "cft"
          [] e = "cft" -> "topic1"
          [] e = "writer" -> "topic2"
          [] OTHER -> Nobody]

WholeUnborn == {"writer"}

(* One thread owns the containers, the topics and the writer it creates;   *)
(* the other closes endpoints and the filtered topic, and drops the read   *)
(* condition.                                                              *)
OwnerCloses == [t \in Threads |-> IF t = t1 THEN {"dp", "sub", "pub", "topic1", "topic2"}
                                  ELSE {"reader", "writer", "cft"}]
OwnerCreates == [t \in Threads |-> IF t = t1 THEN {"writer"} ELSE {}]
OtherDrops == [t \in Threads |-> IF t = t1 THEN {} ELSE {"query"}]

(* Two readers of one topic.                                               *)
Pair == {"dp", "sub", "topic", "reader1", "reader2"}

PairKind ==
    [e \in Pair |->
        CASE e = "dp" -> "participant" [] e = "sub" -> "subscriber" [] e = "topic" -> "topic"
          [] OTHER -> "reader"]

PairParent ==
    [e \in Pair |->
        CASE e = "dp" -> Nobody [] e \in {"sub", "topic"} -> "dp" [] OTHER -> "sub"]

PairTopic == [e \in Pair |-> IF e \in {"reader1", "reader2"} THEN "topic" ELSE Nobody]

PairCloses == [t \in Threads |-> IF t = t1 THEN {"reader1"} ELSE {"reader2"}]

NoEntities == {}
Nothing == [t \in Threads |-> {}]
=============================================================================
