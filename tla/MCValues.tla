------------------------------ MODULE MCValues ------------------------------
(***************************************************************************)
(* Four parts that share no state, checked in one run: durations and       *)
(* times, unions, samples that are streamed, and the samples that an       *)
(* application reads. A behaviour is one of one of them; the others stay   *)
(* as they are at first.                                                   *)
(***************************************************************************)
EXTENDS DurationTime, UnionType, MCExchanges, ReadPath, TLC

VARIABLE subject       \* the part that runs

SmallSecs == {-1, 0, 2, 17}
SmallNanosecs == {0, 4, 9, 17}

Labelled(labels, type) == [labels |-> labels, type |-> type, simple |-> type = "long"]
UnionCases ==
    {<<Labelled(<<1, 2>>, "string"), Labelled(<<3>>, "long")>>,
     <<Labelled(<<1, 2>>, "string"), Labelled(<<-1>>, "long")>>,
     <<Labelled(<<3>>, "long"), Labelled(<<0, -1>>, "string"), Labelled(<<1>>, "long")>>,
     <<Labelled(<<0, 1>>, "long"), Labelled(<<2>>, "string"), Labelled(<<3>>, "string")>>,
     <<Labelled(<<2>>, "string")>>}
UnionShapes == [cases : UnionCases, switchIsKey : BOOLEAN, byType : BOOLEAN]

Symmetry == Permutations(Callers) \cup Permutations(Instances)

(* A bound: once a reference is lost, the reader's samples are of one      *)
(* instance.                                                               *)
OneInstanceIfLost ==
    leaked # {} =>
        Cardinality({serdata[s].instance : s \in Serdatas} \ {AnyInstance}) <= 1

vars == <<subject, durationVars, unionVars, cdrVars, readVars>>

(* Where another part begins.                                              *)
NoUnion == shape = (CHOOSE s \in Shapes : TRUE) /\ UnionInit
NoStream == exchange = (CHOOSE x \in EmptyExchanges : TRUE) /\ CdrInit

Init ==
    /\ DurationInit /\ ReadInit
    /\ \/ subject \in {"duration", "read"} /\ NoUnion /\ NoStream
       \/ subject = "union" /\ UnionInit /\ NoStream
       \/ subject = "stream" /\ NoUnion /\ CdrInit

Duration ==
    /\ subject = "duration" /\ DurationNext
    /\ UNCHANGED <<subject, unionVars, cdrVars, readVars>>
Unions ==
    /\ subject = "union" /\ UnionNext
    /\ UNCHANGED <<subject, durationVars, cdrVars, readVars>>
Stream ==
    /\ subject = "stream" /\ CdrNext
    /\ UNCHANGED <<subject, durationVars, unionVars, readVars>>
Samples ==
    /\ subject = "read" /\ ReadNext
    /\ UNCHANGED <<subject, durationVars, unionVars, cdrVars>>

Next == Duration \/ Unions \/ Stream \/ Samples

Spec == Init /\ [][Next]_vars

(* The types of all the parts.                                             *)
ValuesTypeOK ==
    /\ subject \in {"duration", "union", "stream", "read"}
    /\ DurationTypeOK /\ UnionTypeOK /\ CdrTypeOK /\ ReadTypeOK
=============================================================================
