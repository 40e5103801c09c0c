----------------------------- MODULE MCExchanges -----------------------------
(***************************************************************************)
(* The types and samples that are streamed: pairs of members of every      *)
(* size, every kind of member between two others, types that evolve, and   *)
(* keys in every order.                                                    *)
(***************************************************************************)
EXTENDS CdrStream

Extensibilities == {"final", "appendable", "mutable"}
Encodings == {"xcdr1", "xcdr2"}

M(id, kind, size, of, flags) ==
    [id |-> id, kind |-> kind, size |-> size, of |-> of, optional |-> "optional" \in flags,
     must |-> "must" \in flags, key |-> "key" \in flags]
P(id, size) == M(id, "prim", size, NoType, {})
K(id, size) == M(id, "prim", size, NoType, {"key"})
Type(ext, ms) == [ext |-> ext, members |-> ms, switchKey |-> FALSE]

Sampled(gone, b) == [absent |-> gone, branch |-> b]
X(v, k, w, r, given) ==
    [version |-> v, key |-> k, writer |-> w, reader |-> r, given |-> given,
     earlier |-> given, compact |-> FALSE]

-----------------------------------------------------------------------------
(* Two members of every size, either of which may be optional.             *)
OptionalIds(t) == {t.members[j].id : j \in {k \in DOMAIN t.members : t.members[k].optional}}
Pairs ==
    {Type(e, <<M(1, "prim", a, NoType, f), M(2, "prim", b, NoType, g)>>) :
        e \in Extensibilities, a \in {1, 8}, b \in {2, 4, 8},
        f \in {{}, {"optional"}}, g \in {{}, {"optional"}}}
PairExchanges ==
    UNION {{X(v, "not_key", t, t, Sampled(gone, 0)) : gone \in SUBSET OptionalIds(t)} :
              v \in Encodings, t \in Pairs}

(* A member of every kind between an octet and a long.                     *)
Inner(e) == Type(e, <<P(11, 1), P(12, 8)>>)
MiddleUnion == M(2, "union", 0, Type("appendable", <<P(13, 8), P(14, 1)>>), {})
Middles(e) ==
    {M(2, "string", 2, NoType, {}), M(2, "string", 2, NoType, {"optional"}),
     M(2, "seq", 1, NoType, {}), M(2, "seq", 8, NoType, {}), M(2, "array", 4, NoType, {}),
     M(2, "struct", 0, Inner(e), {"optional"})}
        \cup {M(2, k, 0, Inner(e), {}) : k \in {"struct", "seq", "array"}}
Around(e, m) == Type(e, <<P(1, 1), m, P(3, 4)>>)
ShapeExchanges ==
    {X(v, "not_key", t, t, Sampled(gone, 0)) :
        v \in Encodings, gone \in {{}, {2}},
        t \in UNION {{Around(e, m) : m \in Middles(n)} : e \in Extensibilities, n \in Extensibilities}}
        \cup {X(v, "not_key", Around(e, MiddleUnion), Around(e, MiddleUnion), Sampled({}, b)) :
                 v \in Encodings, e \in Extensibilities, b \in {0, 1, 2}}

-----------------------------------------------------------------------------
(* Mutable types with some of the same members, in any order.              *)
Full == <<P(1, 8), M(2, "prim", 1, NoType, {"must"}), M(3, "string", 3, NoType, {"optional"}), P(4, 4)>>
Selected(ids) == Type("mutable", [j \in DOMAIN ids |-> Full[ids[j]]])
Selections == {<<4, 1>>, <<3, 2, 1>>, <<2, 4>>, <<1, 2, 3, 4>>, <<4, 3, 2, 1>>}
MutableExchanges ==
    {X(v, "not_key", Selected(p), Selected(q), Sampled(gone, 0)) :
        v \in Encodings, p \in Selections, q \in Selections, gone \in {{}, {3}}}

(* Appendable types with more or fewer members at the end, alone or nested.*)
Growing(n) ==
    Type("appendable",
         SubSeq(<<P(1, 1), P(2, 4), M(3, "prim", 2, NoType, {"optional"}), P(4, 1),
                  M(5, "prim", 1, NoType, {"must"})>>, 1, n))
AppendedExchanges ==
    {X("xcdr2", "not_key", Growing(n), Growing(m), Sampled(gone, 0)) :
        n \in 1 .. 5, m \in 1 .. 5, gone \in {{}, {3}}}

Holding(e, k, inner) == Type(e, <<P(21, 1), M(22, k, 0, inner, {}), P(23, 4)>>)
Holders == {"struct", "seq", "array"}
NestedExchanges ==
    {X("xcdr2", "not_key", Holding(e, k, Growing(n)), Holding(e, k, Growing(m)), Sampled({}, 0)) :
        e \in Extensibilities, k \in Holders, n \in 1 .. 4, m \in 1 .. 4}

(* The same with optional members first, or no member at all.              *)
Leading(n) ==
    Type("appendable",
         SubSeq(<<M(1, "prim", 4, NoType, {"optional"}), M(2, "prim", 1, NoType, {"optional"}),
                  P(3, 4), P(4, 1)>>, 1, n))
LeadingExchanges ==
    {X("xcdr2", "not_key", Leading(n), Leading(m), Sampled(gone, 0)) :
        n \in 0 .. 4, m \in 0 .. 4, gone \in SUBSET {1, 2}}
        \cup {X("xcdr1", "not_key", Leading(n), Leading(m), Sampled(gone, 0)) :
                 n \in 0 .. 2, m \in 0 .. 4, gone \in {{2}, {1, 2}}}
        \cup {X("xcdr2", "not_key", Holding(e, k, Leading(n)), Holding(e, k, Leading(m)), Sampled(gone, 0)) :
                 e \in Extensibilities, k \in Holders, n \in 0 .. 3, m \in 1 .. 3,
                 gone \in {{1}, {1, 2}}}

(* Lists whose header also is their length.                                *)
CompactExchanges ==
    LET List(n) == M(2, "seq", n, NoType, {})
        Mutable(ms) == Type("mutable", ms)
        Writer(n) == Mutable(<<P(1, 1), List(n), P(3, 8), P(4, 2)>>)
        Readers(n) == {Writer(n), Mutable(<<P(4, 2), P(3, 8)>>), Mutable(<<P(4, 2), List(n)>>)}
    IN  UNION {{[X("xcdr2", "not_key", Writer(n), r, Sampled(gone, 0)) EXCEPT !.compact = TRUE] :
                   r \in Readers(n), gone \in {{}, {2}}} : n \in {1, 4, 8}}

-----------------------------------------------------------------------------
(* The same keys in every order and extensibility.                         *)
Point == M(5, "struct", 0, Type("final", <<P(52, 4), P(51, 1)>>), {"key"})
KeyedTypes ==
    {Type(e, ms) : e \in Extensibilities,
        ms \in {<<K(3, 8), P(1, 4), K(2, 1), Point>>, <<K(2, 1), Point, K(3, 8)>>,
                <<Point, K(3, 8), P(7, 4), K(2, 1)>>}}
MutableKeyed == {t \in KeyedTypes : t.ext = "mutable"}
KeyExchanges ==
    {X("basic", "sorted", t, u, Sampled({}, 0)) : t \in KeyedTypes, u \in KeyedTypes}
        \cup {X(v, "unsorted", t, t, Sampled({}, 0)) : v \in Encodings, t \in KeyedTypes}
        \cup {X("xcdr2", "unsorted", t, u, Sampled({}, 0)) : t \in MutableKeyed, u \in MutableKeyed}

(* No members at all.                                                      *)
Empty == Type("final", << >>)
EmptyExchanges == {X(v, "not_key", Empty, Empty, Sampled({}, 0)) : v \in Encodings}

AllExchanges ==
    EmptyExchanges \cup PairExchanges \cup ShapeExchanges \cup MutableExchanges \cup AppendedExchanges
        \cup NestedExchanges \cup LeadingExchanges \cup CompactExchanges \cup KeyExchanges

(* A key that is a union, hashed after a sample with another branch.       *)
UnionKeyed(e) ==
    Type(e, <<M(1, "union", 0, Type("final", <<P(13, 1), P(14, 8)>>), {"key"})>>)
UnionKeyExchanges ==
    {[X("basic", "sorted", UnionKeyed(e), UnionKeyed(e), Sampled({}, b))
        EXCEPT !.earlier = Sampled({}, c)] :
        e \in Extensibilities, b \in 1 .. 2, c \in 1 .. 2}
=============================================================================
