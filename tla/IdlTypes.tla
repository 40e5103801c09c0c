------------------------------ MODULE IdlTypes ------------------------------
(***************************************************************************)
(* The C++ back end of idlc: one run of generate() over a parsed file      *)
(* (generator.c), which writes a header and an implementation: the types   *)
(* (types.c), their traits (traits.c) and their streamers (streamers.c).   *)
(* What is written is modelled by what it declares, not by its text.       *)
(*                                                                         *)
(* A file is a sequence of declarations, those of the files it includes    *)
(* first ("here" tells which it has itself). The parser is external: what  *)
(* it accepts has no struct that holds itself by value, except through     *)
(* optional members. An identifier is the sequence of the words that       *)
(* underscores separate in it, a name is a sequence of identifiers.        *)
(***************************************************************************)
EXTENDS Integers, Sequences, SequencesExt, FiniteSets, FiniteSetsExt

CONSTANTS
    IdlFiles,      \* the files to compile
    Keywords,      \* cpp11_keywords: identifiers of C++
    ReachMax       \* the types that type_reaches_target_by_value() visits

ASSUME IdlAssumption == ReachMax \in Nat

VARIABLES
    idl,           \* the file
    stage,         \* what generate() does next
    at,            \* the declaration that it has come to
    header, impl,  \* what it has written
    pending,       \* streams that are not flushed
    result         \* its return code

idlVars == <<idl, stage, at, header, impl, pending, result>>

-----------------------------------------------------------------------------
(***************************************************************************)
(* What the parser delivers. Every declaration has "members": those of a   *)
(* struct, the branches of a union, the one declarator of a typedef.       *)
(***************************************************************************)
Base(b) == [kind |-> "base", base |-> b]
StringOf(max) == [kind |-> "string", max |-> max]
SequenceOf(t, max) == [kind |-> "sequence", of |-> t, max |-> max]
Named(n) == [kind |-> "named", name |-> n]

Declarator(id, t, dims) ==
    [id |-> id, of |-> t, dims |-> dims,
     optional |-> FALSE, external |-> FALSE, key |-> FALSE, given |-> FALSE]

NoBase == << >>
Declaration(kind, n, members) ==
    [kind |-> kind, name |-> n, members |-> members, base |-> NoBase, here |-> TRUE,
     nested |-> FALSE, values |-> << >>, default |-> 0, bound |-> 32]

Decl(n) == idl[CHOOSE k \in DOMAIN idl : idl[k].name = n /\ idl[k].kind # "forward"]
KindOf(t) == IF t.kind = "named" THEN Decl(t.name).kind ELSE t.kind
IsAlias(t) == t.kind = "named" /\ KindOf(t) = "typedef"
Held(d) == {d.members[k] : k \in DOMAIN d.members}
Aliased(t) == Head(Decl(t.name).members)

(* idl_strip(): without arrays, and with them.                             *)
RECURSIVE Strip(_), StripArrays(_), Here(_)
Strip(t) == IF IsAlias(t) /\ Aliased(t).dims = << >> THEN Strip(Aliased(t).of) ELSE t
StripArrays(t) == IF IsAlias(t) THEN StripArrays(Aliased(t).of) ELSE t
Here(t) == t.kind = "named" =>
               /\ Decl(t.name).here
               /\ KindOf(t) = "typedef" => Here(Aliased(t).of)

-----------------------------------------------------------------------------
(***************************************************************************)
(* generator.c: names, types and values of C++.                            *)
(***************************************************************************)
CppName(id) == IF id \in Keywords THEN <<"", "cxx">> \o id ELSE id
ScopedName(n) == [k \in DOMAIN n |-> CppName(n[k])]
NameTypedef(n) == FlattenSeq(ScopedName(n))

Template(t) == IF t.max # 0 THEN "bounded_sequence" ELSE "sequence"

(* The last dimension is the innermost array.                              *)
ArrayOf(t, dims) == FoldRight(LAMBDA n, inner : <<"array", inner, n>>, dims, t)

RECURSIVE CppType(_)
CppType(t) ==
    CASE t.kind = "base"     -> <<t.base>>
      [] t.kind = "string"   -> <<"string", t.max>>
      [] t.kind = "sequence" -> <<Template(t), CppType(t.of), t.max>>
      [] t.kind = "named"    -> <<"name", ScopedName(t.name)>>

CppHeld(m) == ArrayOf(CppType(m.of), m.dims)

(* emit_member(): the initializers, and what it does not support.          *)
Uninitialized == << >>
Enumerator(d) == IF d.default # 0 THEN d.default ELSE 1
InitializerOf(m) ==
    LET t == Strip(m.of)
    IN  CASE m.dims # << >> \/ KindOf(t) = "typedef" -> <<"braces">>
          [] m.dims = << >> /\ m.given               -> <<"given">>
          [] m.dims = << >> /\ ~m.given /\ KindOf(t) = "enum" -> <<"enumerator", Enumerator(Decl(t.name))>>
          [] m.dims = << >> /\ ~m.given /\ KindOf(t) \in {"base", "bitmask"} -> <<"zero">>
          [] OTHER -> Uninitialized
Initializer(m) == IF m.optional \/ m.external THEN Uninitialized ELSE InitializerOf(m)

(* emit_struct(): the class of a struct, whose members are kept, passed to *)
(* the constructor, reached and compared one by one, the base's at last.   *)
Wrapped(m) ==
    IF m.external THEN <<"external", CppHeld(m)>>
    ELSE IF m.optional THEN <<"optional", CppHeld(m)>>
    ELSE CppHeld(m)
PassedByValue(m) ==
    ~m.optional /\ ~m.external /\ m.dims = << >> /\ KindOf(Strip(m.of)) \in {"base", "enum"}
Parameter(m) == [type |-> Wrapped(m), byValue |-> PassedByValue(m)]
AccessorOf(m) == [name |-> CppName(m.id), type |-> Wrapped(m), byValue |-> PassedByValue(m)]
MemberOf(m) == [name |-> CppName(m.id), type |-> Wrapped(m), value |-> Initializer(m)]
ComparedBy(d) ==
    [k \in DOMAIN d.members |-> CppName(d.members[k].id)]
    \o (IF d.base = NoBase THEN << >> ELSE <<ScopedName(d.base)>>)

ClassItem(d) ==
    [item |-> "struct", name |-> d.name,
     members |-> [k \in DOMAIN d.members |-> MemberOf(d.members[k])],
     constructor |-> [k \in DOMAIN d.members |-> Parameter(d.members[k])],
     methods |-> [k \in DOMAIN d.members |-> AccessorOf(d.members[k])],
     compares |-> ComparedBy(d)]

Unsupported(d) ==
    d.kind = "struct" /\ \E m \in Held(d) : m.given /\ m.dims = << >> /\ KindOf(Strip(m.of)) = "enum"

-----------------------------------------------------------------------------
(***************************************************************************)
(* is_selfcontained(): an object that can be copied byte by byte.          *)
(***************************************************************************)
RECURSIVE SelfContained(_)
SelfContained(t) ==
    /\ t.kind \notin {"sequence", "string"}
    /\ t.kind = "named" /\ KindOf(t) \in {"typedef", "struct", "union"} =>
           /\ \A m \in Held(Decl(t.name)) :
                  /\ ~m.external /\ SelfContained(m.of)
                  /\ m.optional => m.of.kind = "named"
           /\ Decl(t.name).base # NoBase => SelfContained(Named(Decl(t.name).base))

(***************************************************************************)
(* type_reaches_target_by_value(): not through sequences and what is held  *)
(* by pointer. A type that is not declared by a name counts each time.     *)
(***************************************************************************)
ByValue(d) == {m \in Held(d) : ~m.external /\ StripArrays(m.of).kind # "sequence"}
NextByValue(n) ==
    LET d == Decl(n)
    IN  {StripArrays(m.of).name : m \in {h \in ByValue(d) : StripArrays(h.of).kind = "named"}}
        \cup (IF d.base = NoBase THEN {} ELSE {d.base})

RECURSIVE ReachedFrom(_)
ReachedFrom(names) ==
    LET more == names \cup UNION {NextByValue(n) : n \in names}
    IN  IF more = names THEN names ELSE ReachedFrom(more)

Plain(n) ==
    Cardinality({k \in DOMAIN Decl(n).members :
                     LET m == Decl(n).members[k]
                     IN  ~m.external /\ StripArrays(m.of).kind \in {"base", "string"}})
VisitedFrom(n) == Cardinality(ReachedFrom({n})) + MapThenSumSet(Plain, ReachedFrom({n}))

ReachesByValue(t, target) ==
    LET s == StripArrays(t)
    IN  s.kind = "named" /\ (target \in ReachedFrom({s.name}) \/ VisitedFrom(s.name) > ReachMax)

(* validate_member(), validate_case(), of every file.                      *)
Invalid(d) ==
    \E m \in Held(d) :
        \/ m.external /\ (m.optional \/ d.kind = "union")
        \/ m.optional /\ d.kind = "struct" /\ ReachesByValue(m.of, d.name)
Refusals == \E k \in DOMAIN idl : Invalid(idl[k])

-----------------------------------------------------------------------------
(***************************************************************************)
(* The headers of libraries: register_types() and its siblings. What a     *)
(* type of an included file needs, the header of that file includes.       *)
(***************************************************************************)
RECURSIVE Registered(_)
Registered(t) ==
    LET s == StripArrays(t)
    IN  IF ~Here(t) THEN {}
        ELSE (IF KindOf(Strip(t)) = "typedef" THEN {"array"} ELSE {})
             \cup (CASE s.kind = "sequence" -> {Template(s)} \cup Registered(s.of)
                     [] s.kind = "string"   -> {"string"}
                     [] s.kind = "base" /\ s.base \in {"int", "octet"} -> {"integers"}
                     [] KindOf(s) = "union"   -> {"union"}
                     [] OTHER -> {})

RegisteredIfHere(m) ==                                      \* mutant
    IF m.dims # << >> /\ Here(m.of) THEN {"array"} ELSE {}
RegisteredArray(m) == IF m.dims # << >> THEN {"array"} ELSE {}

RegisteredBy(d) ==
    UNION {RegisteredArray(m) \cup Registered(m.of)
           \cup (IF m.optional THEN {"optional"} ELSE {})
           \cup (IF m.external THEN {"external"} ELSE {}) : m \in Held(d)}
    \cup (CASE d.kind = "union" -> {"union"} [] d.kind = "bitmask" -> {"integers"} [] OTHER -> {})

OwnDecls == SelectSeq(idl, LAMBDA d : d.here)
Headers == UNION {RegisteredBy(OwnDecls[k]) : k \in DOMAIN OwnDecls}

-----------------------------------------------------------------------------
(***************************************************************************)
(* The traits of a type that is no nested one.                             *)
(***************************************************************************)
RECURSIVE RootBase(_)
RootBase(d) == IF d.base = NoBase THEN d ELSE RootBase(Decl(d.base))
Keyless(d) == \A m \in Held(RootBase(d)) : ~m.key

Traits(d) == [item |-> "traits", name |-> d.name,
              selfcontained |-> SelfContained(Named(d.name)), keyless |-> Keyless(d)]

-----------------------------------------------------------------------------
(***************************************************************************)
(* How a member is streamed, as the nest of its loops: process_entity(),   *)
(* unroll_sequence() and write_streaming_functions(). A typedef has a      *)
(* streamer of its own, found by its name, unless it is one of a bare type.*)
(***************************************************************************)
BareAlias(t) == Aliased(t).dims = << >> /\ Aliased(t).of.kind \in {"base", "string"}

RECURSIVE Streamed(_)
Streamed(t) ==
    IF t.kind = "sequence" THEN <<"loop", t.max, Streamed(t.of)>>
    ELSE IF IsAlias(t)
    THEN IF BareAlias(t) THEN Streamed(Aliased(t).of) ELSE <<"typedef", NameTypedef(t.name)>>
    ELSE IF KindOf(t) \in {"struct", "union"} THEN <<KindOf(t), t.name>>
    ELSE IF t.kind = "string" THEN <<"string", t.max>>
    ELSE <<"value">>

(* The last dimension is copied at once where the elements are primitive.  *)
BatchedThroughArrays(m) == KindOf(StripArrays(m.of)) \in {"base", "enum"}   \* mutant
Batched(m) == KindOf(Strip(m.of)) \in {"base", "enum"}

StreamedHeld(m) ==
    FoldRight(LAMBDA n, inner : <<"array", n, inner>>, m.dims,
              IF m.dims # << >> /\ Batched(m) THEN <<"value">> ELSE Streamed(m.of))

(* The members a struct streams: those of its bases first.                 *)
RECURSIVE AllMembers(_)
AllMembers(d) == (IF d.base = NoBase THEN << >> ELSE AllMembers(Decl(d.base))) \o d.members

(* emit_enum() leaves out the value that follows from the one before;      *)
(* enum_conversion<>() has one case for each, and a default for the        *)
(* enumerator that is marked.                                              *)
ExplicitValue(values) == [k \in DOMAIN values |-> values[k] # IF k = 1 THEN 0 ELSE values[k - 1] + 1]
(* unalias_bitmask(), emit_bitmask(), and the bound of an enum.            *)
BitWidth(bound) ==
    IF bound > 32 THEN 64 ELSE IF bound > 16 THEN 32 ELSE IF bound > 8 THEN 16 ELSE 8

(* What the header declares of each kind.                                  *)
Item(what, d) == [item |-> what, name |-> d.name]
TypedefItem(d) == [item |-> "typedef", name |-> d.name, type |-> CppHeld(Head(d.members))]
EnumItem(d) == [item |-> "enum", name |-> d.name, explicit |-> ExplicitValue(d.values)]
BitmaskItem(d) == [item |-> "bitmask", name |-> d.name, width |-> BitWidth(d.bound)]
ForwardItem(d) == Item("forward", d)
ConstItem(d) ==
    [item |-> "const", name |-> d.name, type |-> CppHeld(Head(d.members)), value |-> <<"given">>]
Declared(d) ==
    CASE d.kind = "struct"  -> ClassItem(d)
      [] d.kind = "typedef" -> TypedefItem(d)
      [] d.kind = "enum"    -> EnumItem(d)
      [] d.kind = "bitmask" -> BitmaskItem(d)
      [] d.kind = "forward" -> ForwardItem(d)
      [] d.kind = "const"   -> ConstItem(d)
      [] d.kind = "union"   -> Item("union", d)

-----------------------------------------------------------------------------
(***************************************************************************)
(* generate(): a stage after the other, a declaration after the other. It  *)
(* stops where memory runs out and leaves what it has written.             *)
(***************************************************************************)
Streamable == SelectSeq(OwnDecls, LAMBDA d : d.kind \in {"struct", "union", "typedef", "enum"})
TopicTypes == SelectSeq(OwnDecls, LAMBDA d : d.kind \in {"struct", "union"} /\ ~d.nested)

Items(what, decls) == [k \in DOMAIN decls |-> Item(what, decls[k])]
NothingPending == [header |-> << >>, impl |-> << >>]
GoesTo(to) == stage' = to /\ at' = 1 /\ result' = result
Stops(code) == stage' = "done" /\ at' = at /\ result' = code
Puts(h, i) == header' = header \o h /\ impl' = impl \o i

(* Both files are made empty before anything is looked at.                 *)
OpenFiles ==
    /\ stage = "open" /\ header' = << >> /\ impl' = << >>
    /\ GoesTo("validate") /\ UNCHANGED <<idl, pending>>

ValidateTypes ==
    /\ stage = "validate"
    /\ IF Refusals THEN Stops("SEMANTIC_ERROR") /\ UNCHANGED <<header, impl>>
       ELSE GoesTo("includes") /\ Puts(<<[item |-> "guard", name |-> << >>]>>, << >>)
    /\ UNCHANGED <<idl, pending>>

GenerateIncludes ==
    /\ stage = "includes"
    /\ Puts(<<[item |-> "includes", name |-> << >>, headers |-> Headers]>>, << >>)
    /\ GoesTo("types") /\ UNCHANGED <<idl, pending>>

GenerateType ==
    /\ stage = "types"
    /\ LET d == OwnDecls[at]
       IN  IF at > Len(OwnDecls) THEN GoesTo("traits") /\ UNCHANGED <<header, impl>>
           ELSE IF Unsupported(d)
           THEN Stops("UNSUPPORTED") /\ Puts(<<Item("begins", d)>>, <<Item("prints", d)>>)
           ELSE /\ Puts(<<Declared(d)>>,
                        IF d.kind \in {"struct", "union", "enum"} THEN <<Item("prints", d)>> ELSE << >>)
                /\ at' = at + 1 /\ UNCHANGED <<stage, result>>
    /\ UNCHANGED <<idl, pending>>

GenerateTraits ==
    /\ stage = "traits"
    /\ Puts([k \in DOMAIN TopicTypes |-> Traits(TopicTypes[k])]
              \o Items("topic_type_name", TopicTypes) \o Items("registers", TopicTypes), << >>)
    /\ GoesTo("streamers") /\ UNCHANGED <<idl, pending>>

(* The declaration goes to the header at once, the definitions wait in     *)
(* buffers until the type is complete; those of an enum for the next one.  *)
MultiPutf(h, i) ==
    pending' = [header |-> pending.header \o h, impl |-> pending.impl \o i]
EntryPoints(d) == IF d.nested THEN << >> ELSE <<Item("entry", d)>>

StructStreamers(d) ==
    /\ d.kind \in {"struct", "union"}
    /\ Puts(<<Item("declares", d)>>, << >>)
    /\ MultiPutf(<<Item("functions", d)>> \o EntryPoints(d), <<Item("properties", d)>>)

TypedefStreamers(d) ==
    d.kind = "typedef" /\ Puts(<< >>, << >>) /\ MultiPutf(<<Item("functions", d)>>, << >>)

EnumConversion(d) ==
    d.kind = "enum" /\ Puts(<<Item("declares", d)>>, << >>) /\ MultiPutf(<< >>, <<Item("conversion", d)>>)

OpenStreamer ==
    /\ stage = "streamers" /\ at <= Len(Streamable)
    /\ \/ StructStreamers(Streamable[at])
       \/ TypedefStreamers(Streamable[at])
       \/ EnumConversion(Streamable[at])
    /\ stage' = "streamer" /\ UNCHANGED <<idl, at, result>>

Builds(d) == IF d.kind \in {"struct", "union"} THEN <<Item("builds", d)>> ELSE << >>
Flush(last) == Puts(last \o pending.header, pending.impl) /\ pending' = NothingPending
CloseStreamer ==
    /\ stage = "streamer"
    /\ IF Streamable[at].kind # "enum" THEN Flush(Builds(Streamable[at]))
       ELSE UNCHANGED <<header, impl, pending>>
    /\ stage' = "streamers" /\ at' = at + 1 /\ UNCHANGED <<idl, result>>

EndFile ==
    /\ stage = "streamers" /\ at > Len(Streamable)
    /\ Puts(pending.header \o <<[item |-> "endif", name |-> << >>]>>, pending.impl)
    /\ pending' = NothingPending /\ Stops("OK") /\ UNCHANGED idl

NoMemory ==
    /\ stage # "done" /\ Stops("NO_MEMORY")
    /\ UNCHANGED <<idl, header, impl, pending>>

IdlInit ==
    /\ idl \in IdlFiles /\ stage = "open" /\ at = 1 /\ result = "none"
    /\ header = << >> /\ impl = << >> /\ pending = NothingPending

IdlNext ==
    \/ OpenFiles \/ ValidateTypes \/ GenerateIncludes \/ GenerateType \/ GenerateTraits
    \/ OpenStreamer \/ CloseStreamer \/ EndFile \/ NoMemory

-----------------------------------------------------------------------------
(***************************************************************************)
(* Properties.                                                             *)
(***************************************************************************)
IdlTypeOK ==
    /\ idl \in IdlFiles /\ at \in Nat
    /\ stage \in {"open", "validate", "includes", "types", "traits", "streamers", "streamer", "done"}
    /\ result \in {"none", "OK", "SEMANTIC_ERROR", "UNSUPPORTED", "NO_MEMORY"}

(* What C++ makes of the types it was given.                               *)
DeclNamed(n) == idl[CHOOSE k \in DOMAIN idl : ScopedName(idl[k].name) = n /\ idl[k].kind # "forward"]

RECURSIVE Classes(_), Shape(_), Needs(_), HasPointers(_), Followed(_)
ClassesOf(d) ==
    UNION {Classes(CppHeld(m)) : m \in {h \in Held(d) : ~h.external}}
    \cup (IF d.base = NoBase THEN {} ELSE {d.base})
Classes(c) ==
    CASE c[1] = "array" -> Classes(c[2])
      [] c[1] = "name"  -> LET d == DeclNamed(c[2]) IN IF d.kind = "typedef" THEN ClassesOf(d) ELSE {d.name}
      [] OTHER          -> {}

RECURSIVE ClassesWithin(_)
ClassesWithin(S) ==
    LET more == S \cup UNION {ClassesOf(Decl(n)) : n \in S} IN IF more = S THEN S ELSE ClassesWithin(more)

HoldsItself(d) == d.kind \in {"struct", "union"} /\ d.name \in ClassesWithin(ClassesOf(d))

Shape(c) ==
    CASE c[1] = "array"  -> <<"array", c[3], Shape(c[2])>>
      [] c[1] \in {"sequence", "bounded_sequence"} -> <<"loop", c[3], Shape(c[2])>>
      [] c[1] = "string" -> c
      [] c[1] = "name"   -> LET d == DeclNamed(c[2])
                            IN  CASE d.kind = "typedef" -> Shape(CppHeld(Head(d.members)))
                                  [] d.kind \in {"struct", "union"} -> <<d.kind, d.name>>
                                  [] OTHER -> <<"value">>
      [] OTHER -> <<"value">>

Needs(c) ==
    CASE c[1] \in {"array", "sequence", "bounded_sequence"} -> {c[1]} \cup Needs(c[2])
      [] c[1] = "string"         -> {"string"}
      [] c[1] \in {"int", "octet"} -> {"integers"}
      [] OTHER                   -> {}

HasPointers(c) ==
    CASE c[1] = "array" -> HasPointers(c[2])
      [] c[1] \in {"sequence", "bounded_sequence", "string"} -> TRUE
      [] c[1] = "name"  ->
            LET d == DeclNamed(c[2])
            IN  \/ \E m \in Held(d) : m.external \/ HasPointers(CppHeld(m))
                \/ d.base # NoBase /\ HasPointers(<<"name", ScopedName(d.base)>>)
      [] OTHER -> FALSE

(* A stream whose calls of the streamers of typedefs are followed.         *)
Followed(s) ==
    CASE s[1] \in {"array", "loop"} -> <<s[1], s[2], Followed(s[3])>>
      [] s[1] = "typedef" ->
            Followed(StreamedHeld(Head(idl[CHOOSE k \in DOMAIN idl : /\ idl[k].kind = "typedef"
                                                                     /\ NameTypedef(idl[k].name) = s[2]].members)))
      [] OTHER -> s

ValuesOf(values) ==
    LET f[k \in 1 .. Len(values)] ==
            IF ExplicitValue(values)[k] THEN values[k] ELSE IF k = 1 THEN 0 ELSE f[k - 1] + 1
    IN  f

(* The declaration that the header makes of d is sound.                    *)
TypeIsSound(d) ==
    /\ ~HoldsItself(d)
    /\ UNION {Needs(CppHeld(m)) : m \in Held(d)} \subseteq Headers
    /\ \A m \in Held(d) : Followed(StreamedHeld(m)) = Shape(CppHeld(m))
    /\ d.kind = "struct" => \A m \in Held(d) :
           ~m.optional /\ ~m.external /\ Shape(CppHeld(m))[1] \in {"array", "value"} => Initializer(m) # << >>
    /\ d.kind \in {"struct", "union"} /\ SelfContained(Named(d.name)) =>
           ~HasPointers(<<"name", ScopedName(d.name)>>)
    /\ d.kind = "struct" => (Keyless(d) <=> \A k \in DOMAIN AllMembers(d) : ~AllMembers(d)[k].key)
    /\ d.kind = "enum" => ValuesOf(d.values) = d.values
    /\ d.kind = "bitmask" => d.bound <= BitWidth(d.bound)

(* What the header declares of each type is what was asked.                *)
ClassIsRight(item) ==
    LET members == Decl(item.name).members
    IN  \A k \in DOMAIN members :
            /\ item.constructor[k].type = item.members[k].type
            /\ item.methods[k].type = item.members[k].type
            /\ item.constructor[k].byValue => Shape(CppHeld(members[k])) = <<"value">>
            /\ \A j \in DOMAIN members : item.members[j].name = item.members[k].name => j = k
            /\ \E j \in DOMAIN item.compares : item.compares[j] = item.members[k].name

(* A file that is compiled has for every type the declaration, and for     *)
(* every topic type all that makes it one, in the order in which C++ needs *)
(* them; the tables are defined for all that the header declares.          *)
Written(file, what) == SelectSeq(file, LAMBDA i : i.item = what)
NamesOf(items) == [k \in DOMAIN items |-> items[k].name]
Before(first, second) ==
    \A k \in DOMAIN header : header[k].item = second =>
        \E j \in 1 .. k - 1 : header[j].item = first /\ header[j].name = header[k].name

FileIsWhole ==
    /\ Last(header).item = "endif" /\ pending = NothingPending
    /\ \A what \in {"traits", "topic_type_name", "registers", "entry"} :
           NamesOf(Written(header, what)) = NamesOf(TopicTypes)
    /\ \A k \in DOMAIN OwnDecls : NamesOf(Written(header, OwnDecls[k].kind)) =
           NamesOf(SelectSeq(OwnDecls, LAMBDA d : d.kind = OwnDecls[k].kind))
    /\ ToSet(NamesOf(Written(header, "declares"))) =
           ToSet(NamesOf(Written(impl, "properties") \o Written(impl, "conversion")))
    /\ \A k \in DOMAIN header : header[k].item = "struct" => ClassIsRight(header[k])
    /\ Before("declares", "builds") /\ Before("builds", "entry") /\ Before("traits", "registers")

(* A file is refused for a reason and compiled otherwise; what is compiled *)
(* is a program whose types are complete, initialized, streamed as they    *)
(* are declared, and found under their traits.                             *)
CompilerAgrees ==
    CASE result = "OK" ->
            FileIsWhole /\ \A k \in DOMAIN OwnDecls : OwnDecls[k].kind # "forward" => TypeIsSound(OwnDecls[k])
      [] result = "SEMANTIC_ERROR" ->
            \E k \in DOMAIN idl :
               LET d == idl[k]
               IN  d.kind # "forward" /\
                   (\/ HoldsItself(d) \/ VisitedFrom(d.name) > ReachMax
                    \/ \E m \in Held(d) : m.external /\ (m.optional \/ d.kind = "union"))
      [] OTHER -> \A k \in DOMAIN header : header[k].item # "endif"
=============================================================================
