----------------------------- MODULE MCCompiler -----------------------------
(***************************************************************************)
(* What the compiler writes, and the tables that its code builds when it   *)
(* runs: files and graphs of types.                                        *)
(***************************************************************************)
EXTENDS TypeProps, IdlTypes

M(id, of) == [id |-> id, of |-> of]
S(base, members, keys) == [base |-> base, members |-> members, keys |-> keys]
OfTwo(a, b) == [A |-> a, B |-> b]
OfThree(a, b, c) == [A |-> a, B |-> b, C |-> c]

(* Types used twice, keys out of order and of nested types, types that     *)
(* refer to each other, to themselves through a base or a member, and too  *)
(* many of them.                                                           *)
TypeGraphs ==
    {OfThree(S(Leaf, <<M(3, Leaf), M(2, "B"), M(1, "C")>>, {<<2>>, <<1>>}),
             S(Leaf, <<M(1, Leaf), M(0, "C")>>, {}),
             S(Leaf, <<M(0, Leaf), M(1, Leaf)>>, {<<1>>})),
     OfTwo(S(Leaf, <<M(0, "B")>>, {}), S(Leaf, <<M(0, "A"), M(1, Leaf)>>, {<<1>>})),
     OfThree(S("B", <<M(2, "C")>>, {}), S(Leaf, <<M(0, "C"), M(1, Leaf)>>, {<<0, 1>>}),
             S(Leaf, <<M(0, "B"), M(1, Leaf)>>, {})),
     OfThree(S("B", <<M(2, "C")>>, {}), S(Leaf, <<M(1, Leaf)>>, {<<1>>}),
             S(Leaf, <<M(0, "A"), M(1, Leaf)>>, {})),
     OfThree(S(Leaf, <<M(2, "B"), M(1, Leaf)>>, {<<2, 0, 1>>}),
             S(Leaf, <<M(0, "C"), M(1, Leaf)>>, {}), S(Leaf, <<M(0, Leaf), M(1, Leaf)>>, {<<0>>})),
     OfThree(S(Leaf, <<M(0, "B")>>, {}), S(Leaf, <<M(0, "C")>>, {}), S(Leaf, <<M(0, "A")>>, {})),
     OfThree(S(Leaf, <<M(0, "B")>>, {}), S(Leaf, <<M(0, "C"), M(1, Leaf), M(2, Leaf)>>, {}),
             S(Leaf, <<M(0, Leaf), M(1, Leaf), M(2, Leaf)>>, {}))}

SomeGraph == CHOOSE g \in TypeGraphs : DOMAIN g = {"A", "B"}

Id(w) == <<w>>
Global(w) == <<Id(w)>>
Scoped(a, b) == <<Id(a), Id(b)>>
Integral == Base("int")
Plainly(w, t) == Declarator(Id(w), t, << >>)
Optional(w, t) == [Plainly(w, t) EXCEPT !.optional = TRUE]
External(w, t) == [Plainly(w, t) EXCEPT !.external = TRUE]
Struct(n, members) == Declaration("struct", n, members)
Typedef(n, t, dims) == Declaration("typedef", n, <<Declarator(Last(n), t, dims)>>)
Forward(n) == Declaration("forward", n, << >>)
Enum(n, values, default) == [Declaration("enum", n, << >>) EXCEPT !.values = values, !.default = default]
Included(d) == [d EXCEPT !.here = FALSE]

Files ==
    { \* typedefs of arrays, sequences and bare types, in a keyword's module
     <<Typedef(Scoped("class", "Row"), Integral, <<3>>),
       Typedef(Scoped("class", "Count"), Integral, << >>),
       Typedef(Scoped("class", "Rows"), SequenceOf(Named(Scoped("class", "Row")), 4), << >>),
       Struct(Scoped("class", "Grid"),
               <<[Plainly("k", Integral) EXCEPT !.key = TRUE, !.given = TRUE],
                 Declarator(Id("m"), Named(Scoped("class", "Row")), <<2>>),
                 Declarator(Id("n"), Named(Scoped("class", "Count")), <<2, 3>>),
                 Plainly("r", Named(Scoped("class", "Rows"))),
                 Optional("s", StringOf(0)),
                 Plainly("v", SequenceOf(SequenceOf(Base("bool"), 2), 0))>>)>>,
     \* enums, bitmasks, inheritance, a nested type, constants
     <<Enum(Global("Hue"), <<0, 1, 5, 6, 3>>, 3), Enum(Global("Plain"), <<1, 2>>, 0),
       [Declaration("bitmask", Global("Flags"), << >>) EXCEPT !.bound = 9],
       Declaration("const", Global("Limit"), <<Plainly("Limit", Base("octet"))>>),
       [Struct(Global("Point"), <<[Plainly("x", Named(Global("Hue"))) EXCEPT !.key = TRUE]>>)
            EXCEPT !.nested = TRUE],
       [Struct(Global("Dot"), <<Plainly("f", Named(Global("Flags"))), Plainly("p", Named(Global("Plain"))),
                                Declarator(Id("h"), Named(Global("Hue")), <<2>>)>>)
            EXCEPT !.base = Global("Point")],
       Declaration("union", Global("Either"), <<Plainly("a", Named(Global("Dot"))),
                                                Plainly("b", StringOf(7))>>)>>,
     \* what an included file has
     <<Included(Typedef(Global("Names"), SequenceOf(StringOf(0), 0), << >>)),
       Included(Typedef(Global("Vec"), Base("double"), <<3>>)),
       Included(Struct(Global("Pose"), <<Plainly("v", Named(Global("Vec")))>>)),
       Struct(Global("Path"), <<Plainly("n", Named(Global("Names"))),
                                Declarator(Id("p"), Named(Global("Pose")), <<2>>),
                                External("l", Named(Global("Pose")))>>),
       Struct(Global("Turn"), <<Plainly("v", Named(Global("Vec")))>>)>>,
     \* recursion through a sequence and a pointer
     <<Forward(Global("Node")),
       Typedef(Global("Nodes"), SequenceOf(Named(Global("Node")), 0), << >>),
       Struct(Global("Node"), <<Plainly("c", Named(Global("Nodes"))), External("up", Named(Global("Node"))),
                                Optional("more", Named(Global("Nodes"))),
                                Plainly("i", Integral)>>)>>,
     \* recursion by value, in one step and in two
     <<Forward(Global("List")), Struct(Global("List"), <<Optional("next", Named(Global("List")))>>)>>,
     <<Forward(Global("Tail")), Struct(Global("Cons"), <<Optional("tail", Named(Global("Tail")))>>),
       Struct(Global("Tail"), <<Plainly("cons", Named(Global("Cons")))>>)>>,
     \* more types than are looked at
     <<Struct(Global("Many"), <<Plainly("a", Integral), Plainly("b", Integral), Plainly("c", Integral), Plainly("d", Integral)>>),
       Struct(Global("One"), <<Optional("many", Named(Global("Many")))>>)>>,
     \* what is not supported
     <<Struct(Global("Both"), <<[Optional("a", Integral) EXCEPT !.external = TRUE]>>)>>,
     <<Declaration("union", Global("Far"), <<External("a", Integral)>>)>>,
     <<Enum(Global("Hue"), <<0>>, 0),
       Struct(Global("Lit"), <<[Plainly("h", Named(Global("Hue"))) EXCEPT !.given = TRUE]>>)>>}

SomeFile == CHOOSE f \in Files : Len(f) = 1
=============================================================================
