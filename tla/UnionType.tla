----------------------------- MODULE UnionType -----------------------------
(***************************************************************************)
(* The class that idlc generates for an IDL union (types.c), and the       *)
(* functions that read and write it (streamers.c): a discriminator m__d,   *)
(* and a variant m__u with the value of one branch. Both are generated     *)
(* from the same labels, one switch at a time; the variant is told which   *)
(* branch it holds by nobody but the setter.                               *)
(***************************************************************************)
EXTENDS Integers, Sequences, SequencesExt, FiniteSets

CONSTANTS
    MaxDiscriminator,  \* discriminators are 0 .. MaxDiscriminator
    Shapes,            \* union types
    Contents           \* values of a branch

VARIABLES
    shape,         \* the union type
    unions,        \* two objects of it: d, and held and value of the variant
    interrupted    \* ghost: objects that an exception left half assigned

unionVars == <<shape, unions, interrupted>>

Objects == {"x", "y"}
Discriminators == 0 .. MaxDiscriminator
DefaultLabel == -1                \* "default:"
NoCase == 0
Valueless == 0                    \* std::variant after an exception
Fresh == CHOOSE v \in Contents : TRUE    \* of a branch that is default constructed

-----------------------------------------------------------------------------
(***************************************************************************)
(* The switches. The IDL parser picks the default discriminator: one that  *)
(* no label names or else, it is assumed here, that of the first case.     *)
(***************************************************************************)
Labels(s, k) == Range(s.cases[k].labels)
CasesWith(s, l) == {k \in DOMAIN s.cases : l \in Labels(s, k)}

Unused(s) == {e \in Discriminators : CasesWith(s, e) = {}}
HasDefault(s) == CasesWith(s, DefaultLabel) # {}
ImplicitDefault(s) == ~HasDefault(s) /\ Unused(s) # {}

(* The parser lets no label be used twice, and no "default:" stand where   *)
(* the labels name every discriminator.                                    *)
UnionCase ==
    [labels : Seq(Discriminators \cup {DefaultLabel}) \ {<< >>}, type : STRING, simple : BOOLEAN]

ASSUME UnionAssumption ==
    /\ MaxDiscriminator \in Nat /\ Cardinality(Contents) >= 2
    /\ \A s \in Shapes :
           /\ s.cases \in Seq(UnionCase) \ {<< >>}
           /\ s.switchIsKey \in BOOLEAN /\ s.byType \in BOOLEAN
           /\ \A j, k \in DOMAIN s.cases : j # k => Labels(s, j) \cap Labels(s, k) = {}
           /\ HasDefault(s) => Unused(s) # {}

DefaultDiscriminator(s) ==
    IF Unused(s) = {} THEN Head(s.cases[1].labels)
    ELSE CHOOSE e \in Unused(s) : \A f \in Unused(s) : e <= f

CaseOf(s, e) ==
    LET named == CasesWith(s, IF e \in Unused(s) THEN DefaultLabel ELSE e)
    IN  IF named = {} THEN NoCase ELSE CHOOSE k \in named : TRUE

(* labels->const_expr: the label that stands for a case.                   *)
LabelOf(s, k) ==
    LET first == Head(s.cases[k].labels)
    IN  IF first = DefaultLabel THEN DefaultDiscriminator(s) ELSE first

(* _is_discriminator()                                                     *)
IsDiscriminator(s, e) ==
    IF CaseOf(s, e) = NoCase THEN DefaultDiscriminator(s) ELSE LabelOf(s, CaseOf(s, e))

(* _is_compatible_discriminator()                                          *)
CompatibleAlways(s, e, f) == TRUE                           \* mutant
Compatible(s, e, f) == IsDiscriminator(s, e) = IsDiscriminator(s, f)

(* With Boost the variant is accessed by type and has each type once:      *)
(* is_same_type() finds the branches that share an alternative.            *)
SameType(s, j, k) == s.cases[j].type = s.cases[k].type

FirstOfType(s, k) == CHOOSE j \in 1 .. k : SameType(s, j, k) /\ \A i \in 1 .. j - 1 : ~SameType(s, i, k)

Alternative(s, k) == IF s.byType THEN FirstOfType(s, k) ELSE k

-----------------------------------------------------------------------------
(***************************************************************************)
(* Calls. What is not allowed throws InvalidArgumentError, and changes     *)
(* nothing.                                                                *)
(***************************************************************************)
DefaultConstructed(s) ==
    [d |-> DefaultDiscriminator(s), value |-> Fresh,
     held |-> IF HasDefault(s) THEN Alternative(s, CaseOf(s, DefaultDiscriminator(s))) ELSE 1]

(* branch(u, d)                                                            *)
Setter(s, k, u, e) == [d |-> e, held |-> Alternative(s, k), value |-> u]

Becomes(o, new) ==
    /\ unions' = [unions EXCEPT ![o] = new]
    /\ interrupted' = interrupted \ {o}
    /\ UNCHANGED shape

SetBranch(o) ==
    \E k \in DOMAIN shape.cases, u \in Contents, e \in Discriminators :
        /\ Compatible(shape, LabelOf(shape, k), e)
        /\ Becomes(o, Setter(shape, k, u, e))

(* m__d is assigned first, and the new value may throw when it is copied:  *)
(* std::variant has lost the old one by then, boost::variant has not.      *)
InterruptedSet(o) ==
    /\ \E k \in DOMAIN shape.cases, e \in Discriminators :
           /\ ~shape.cases[k].simple
           /\ Compatible(shape, LabelOf(shape, k), e)
           /\ unions' = [unions EXCEPT ![o].d = e,
                                       ![o].held = IF shape.byType THEN unions[o].held ELSE Valueless]
    /\ interrupted' = interrupted \cup {o}
    /\ UNCHANGED shape

(* The reference a getter returns: std::get throws where the variant does  *)
(* not hold the branch.                                                    *)
SetThroughReference(o) ==
    \E k \in DOMAIN shape.cases, u \in Contents :
        /\ Compatible(shape, unions[o].d, LabelOf(shape, k))
        /\ unions[o].held = Alternative(shape, k)
        /\ unions' = [unions EXCEPT ![o].value = u]
        /\ UNCHANGED <<shape, interrupted>>

(* _d(d)                                                                   *)
SetDiscriminator(o) ==
    \E e \in Discriminators :
        /\ Compatible(shape, unions[o].d, e)
        /\ unions' = [unions EXCEPT ![o].d = e]
        /\ UNCHANGED <<shape, interrupted>>

(* _default(d): the variant keeps the value it had.                        *)
SetDefault(o) ==
    /\ ImplicitDefault(shape)
    /\ \E e \in Discriminators :
           /\ Compatible(shape, e, DefaultDiscriminator(shape))
           /\ unions' = [unions EXCEPT ![o].d = e]
    /\ UNCHANGED <<shape, interrupted>>

Copy(o, p) ==
    /\ o # p /\ p \notin interrupted
    /\ Becomes(o, unions[p])

(* ==                                                                      *)
EqualUnions(s, a, b) ==
    /\ a.d = b.d
    /\ CaseOf(s, a.d) # NoCase => a.value = b.value

-----------------------------------------------------------------------------
(***************************************************************************)
(* Streams. A key whose discriminator is the key has no branch.            *)
(***************************************************************************)
NoBranch == {}

WriteUnion(s, a, key) ==
    [d |-> a.d,
     branch |-> IF CaseOf(s, a.d) = NoCase \/ (key /\ s.switchIsKey) THEN NoBranch ELSE {a.value}]

(* read() makes a value, reads into it if there is one in the stream and   *)
(* calls the setter: without the discriminator where a case has one label. *)
Thrown == [d |-> -1]

ReadUnionSingle(s, into, w) ==                              \* mutant
    LET k == CaseOf(s, w.d)
        u == IF w.branch = NoBranch THEN Fresh ELSE CHOOSE v \in w.branch : TRUE
    IN  IF k # NoCase THEN Setter(s, k, u, LabelOf(s, k))
        ELSE IF ImplicitDefault(s) /\ ~Compatible(s, into.d, w.d) THEN Thrown
        ELSE [into EXCEPT !.d = w.d]
ReadUnion(s, into, w) ==
    LET k == CaseOf(s, w.d)
        u == IF w.branch = NoBranch THEN Fresh ELSE CHOOSE v \in w.branch : TRUE
        single == Len(s.cases[k].labels) = 1 /\ Head(s.cases[k].labels) # DefaultLabel
    IN  IF k # NoCase THEN Setter(s, k, u, IF single THEN LabelOf(s, k) ELSE w.d)
        ELSE IF ~Compatible(s, into.d, w.d) THEN Thrown
        ELSE [into EXCEPT !.d = w.d]

StreamUnion(o, p) ==
    /\ p \notin interrupted
    /\ \E key \in BOOLEAN, fresh \in BOOLEAN :
           LET into == IF fresh THEN DefaultConstructed(shape) ELSE unions[o]
               read == ReadUnion(shape, into, WriteUnion(shape, unions[p], key))
           IN  IF read = Thrown THEN UNCHANGED unionVars ELSE Becomes(o, read)

-----------------------------------------------------------------------------
UnionInit ==
    /\ shape \in Shapes
    /\ unions = [o \in Objects |-> DefaultConstructed(shape)]
    /\ interrupted = {}

UnionNext ==
    \E o \in Objects :
        \/ SetBranch(o) \/ InterruptedSet(o) \/ SetThroughReference(o)
        \/ SetDiscriminator(o) \/ SetDefault(o)
        \/ \E p \in Objects : Copy(o, p) \/ StreamUnion(o, p)

UnionSpec == UnionInit /\ [][UnionNext]_unionVars

-----------------------------------------------------------------------------
(***************************************************************************)
(* Properties.                                                             *)
(***************************************************************************)
Whole == Objects \ interrupted

UnionTypeOK ==
    \A o \in Objects :
        /\ unions[o].d \in Discriminators /\ unions[o].value \in Contents
        /\ unions[o].held \in {Valueless} \cup DOMAIN shape.cases

(* The variant holds the branch the discriminator names, whichever calls,  *)
(* copies and reads there were: what a getter's test lets through is       *)
(* there, and no value of an earlier branch comes back. Only an exception  *)
(* in the middle of a setter breaks it, until the next assignment.         *)
BranchIsHeld ==
    \A o \in Whole :
        LET k == CaseOf(shape, unions[o].d)
        IN  k # NoCase => unions[o].held = Alternative(shape, k)

(* What is written is read back as an equal union, by a new object and by  *)
(* one in use; read() throws only when a union that has a branch is read   *)
(* into and the stream has none.                                           *)
ReadsAsWritten ==
    \A o \in Whole :
        \A into \in {DefaultConstructed(shape)} \cup {unions[p] : p \in Objects} :
            LET read == ReadUnion(shape, into, WriteUnion(shape, unions[o], FALSE))
            IN  IF read = Thrown
                THEN /\ CaseOf(shape, unions[o].d) = NoCase
                     /\ CaseOf(shape, into.d) # NoCase
                ELSE EqualUnions(shape, read, unions[o])

(* == in types.c and write() in streamers.c agree on what a union is:      *)
(* unions are equal exactly if they are written alike.                     *)
EqualAsWritten ==
    EqualUnions(shape, unions["x"], unions["y"])
        <=> WriteUnion(shape, unions["x"], FALSE) = WriteUnion(shape, unions["y"], FALSE)

(* A union survives a stream, whatever happened to it before.              *)
UnionReadsBack == ReadsAsWritten /\ EqualAsWritten

(* The branch that is held is the one the discriminator says, here and     *)
(* where the union is read.                                                *)
UnionsAgree == BranchIsHeld /\ UnionReadsBack
=============================================================================
