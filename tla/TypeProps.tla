----------------------------- MODULE TypeProps -----------------------------
(***************************************************************************)
(* The table of a type's members that the streamers walk: get_type_props() *)
(* as idlc generates it (streamers.c), built by the first thread that      *)
(* calls it, from the tables of the types of the members, and finished by  *)
(* entity_properties.cpp: the flat list gets the links of a tree and of    *)
(* its keys. A pointer is an index in the list, or 0.                      *)
(*                                                                         *)
(* A graph gives each struct its base, its members in order (aliases and   *)
(* sequences are stripped from their types) and the paths of its keys.     *)
(* The test that precedes the lock is a relaxed load of a flag that is     *)
(* stored with release; loads are taken in order here, as on x86.          *)
(***************************************************************************)
EXTENDS Integers, Sequences, SequencesExt, FiniteSets, FiniteSetsExt

CONSTANTS
    PropThreads,       \* threads that stream
    Graphs,            \* the types of a program
    Leaf,              \* of a member that is no struct, and of no base
    VisitedMax,        \* type_references_type() gives up after as many types
    Nobody             \* the owner of a free mutex

ASSUME PropsAssumption ==
    /\ VisitedMax \in Nat /\ Nobody \notin PropThreads
    /\ \A g \in Graphs : \A t \in DOMAIN g :
           /\ Leaf # t /\ g[t].base \in (DOMAIN g \cup {Leaf}) \ {t}
           /\ \A k \in DOMAIN g[t].members : g[t].members[k].of \in DOMAIN g \cup {Leaf}
           /\ \A path \in g[t].keys : path # << >>

VARIABLES
    graph,         \* the types
    calls,         \* calls[h]: the calls of get_type_props() thread h is in
    tables,        \* tables[t]: "props" of t
    initialized,   \* initialized[t]
    propOwner      \* propOwner[t]: the owner of "mtx" of t

propVars == <<graph, calls, tables, initialized, propOwner>>

-----------------------------------------------------------------------------
(***************************************************************************)
(* What the compiler knows: the members of a struct follow those of its    *)
(* base, and the contents of a member's type are left out where the type   *)
(* refers to the struct, by whatever way except through a union.           *)
(***************************************************************************)
RECURSIVE MembersOf(_), Referenced(_), KeyPaths(_)
MembersOf(t) == (IF graph[t].base = Leaf THEN << >> ELSE MembersOf(graph[t].base)) \o graph[t].members
KeyPaths(t) == graph[t].keys \cup (IF graph[t].base = Leaf THEN {} ELSE KeyPaths(graph[t].base))

DirectMembers(t) == {graph[t].members[k].of : k \in DOMAIN graph[t].members}
Refers(t) == (DirectMembers(t) \cup {graph[t].base}) \ {Leaf}

Referenced(S) ==
    LET more == S \cup UNION {Refers(t) : t \in S} IN IF more = S THEN S ELSE Referenced(more)

(* The types it visits; every member that is no struct is one of its own.  *)
Leaves(t) == Cardinality({k \in DOMAIN graph[t].members : graph[t].members[k].of = Leaf})
Visited(t) == Cardinality(Referenced({t})) + MapThenSumSet(Leaves, Referenced({t}))

ReferencesNothing(t, target) == t = target                  \* mutant
ReferencesType(t, target) == target \in Referenced({t}) \/ Visited(t) > VisitedMax

(* generate_member_properties()                                            *)
Appended(t, m) == m.of # Leaf /\ ~ReferencesType(m.of, t)

-----------------------------------------------------------------------------
(***************************************************************************)
(* entity_properties_t.                                                    *)
(***************************************************************************)
NoLinks == [parent |-> 0, first |-> 0, next |-> 0, unsorted |-> << >>, sorted |-> << >>]
Entry(depth, id, of) == [depth |-> depth, id |-> id, of |-> of, key |-> FALSE, links |-> NoLinks]

(* append_struct_contents()                                                *)
AppendContents(p, q) ==
    p \o [k \in 1 .. Len(q) - 1 |-> [q[k + 1] EXCEPT !.depth = @ + 1, !.links = NoLinks]]

(* finish(): the next entry of the same depth, before one of a lower.      *)
NextOnLevel(p, i) ==
    LET upTo == {j \in i + 1 .. Len(p) : p[j].depth <= p[i].depth}
    IN  IF upTo = {} \/ p[Min(upTo)].depth < p[i].depth THEN 0 ELSE Min(upTo)

PrevOnLevel(p, i) == {j \in 1 .. i - 1 : NextOnLevel(p, j) = i}
IsFirst(p, i) == PrevOnLevel(p, i) = {}

RECURSIVE ParentOf(_, _)
ParentOf(p, i) ==
    IF ~IsFirst(p, i) THEN ParentOf(p, Max(PrevOnLevel(p, i)))
    ELSE IF p[i].depth > 0 THEN i - 1 ELSE 0

FirstMember(p, i) == {j \in DOMAIN p : IsFirst(p, j) /\ ParentOf(p, j) = i}

(* A pointer for which there is nothing keeps its value.                   *)
Or(found, old) == IF found = {} THEN old ELSE Max(found)
Linked(p) ==
    [i \in DOMAIN p |->
        [p[i] EXCEPT !.links.parent = ParentOf(p, i),
                     !.links.next = Or({NextOnLevel(p, i)} \ {0}, @),
                     !.links.first = Or(FirstMember(p, i), @)]]

(* The entries from i on along next_on_level.                              *)
RECURSIVE Level(_, _)
Level(p, i) == IF i = 0 THEN << >> ELSE <<i>> \o Level(p, p[i].links.next)
Below(p, i) == Level(p, p[i].links.first)

(* add_key(): what is_key becomes of the entries it meets. Where keys are  *)
(* named no others remain; a key whose own are not named has those that it *)
(* has already, or all its members, set_key_values().                      *)
RECURSIVE KeyValues(_, _), AddKey(_, _, _)
KeyValues(p, i) ==
    LET below == ToSet(Below(p, i))
        has == {j \in below : p[j].key}
        keys == IF has = {} THEN below ELSE has
    IN  {<<j, j \in keys>> : j \in below} \cup UNION {KeyValues(p, j) : j \in keys}

Heads(paths) == {Head(path) : path \in paths}
Tails(paths, id) == {Tail(path) : path \in {q \in paths : Head(q) = id}} \ {<< >>}

AddKey(p, i, paths) ==
    LET below == ToSet(Below(p, i))
        named == {j \in below : p[j].id \in Heads(paths)}
    IN  IF paths # {}
        THEN {<<j, j \in named>> : j \in below}
             \cup UNION {AddKey(p, j, Tails(paths, p[j].id)) : j \in named}
        ELSE IF p[i].links.parent # 0 THEN KeyValues(p, i) ELSE {}

Keyed(p, paths) ==
    LET values == AddKey(p, 1, paths)
    IN  [i \in DOMAIN p |->
            [p[i] EXCEPT !.key = <<i, TRUE>> \in values \/ (@ /\ <<i, FALSE>> \notin values)]]

(* link_keys_unsorted() and _sorted(); the lists as sequences.             *)
KeysOf(p, i) == SelectSeq(Below(p, i), LAMBDA j : p[j].key)
KeysSortedByPosition(p, keys) == keys                       \* mutant
KeysSorted(p, keys) == SortSeq(keys, LAMBDA i, j : p[i].id < p[j].id)

RECURSIVE KeyTree(_, _)
KeyTree(p, i) == {i} \cup UNION {KeyTree(p, j) : j \in ToSet(KeysOf(p, i))}

KeysLinked(p) ==
    LET tree == KeyTree(p, 1)
    IN  [i \in DOMAIN p |->
            IF i \notin tree THEN p[i]
            ELSE [p[i] EXCEPT !.links.unsorted = KeysOf(p, i),
                              !.links.sorted = KeysSorted(p, KeysOf(p, i))]]

-----------------------------------------------------------------------------
(***************************************************************************)
(* get_type_props().                                                       *)
(***************************************************************************)
Top(h) == calls[h][Len(calls[h])]
At(h, pc) == calls[h] # << >> /\ Top(h).pc = pc
Frame(t) == [type |-> t, pc |-> "test", at |-> 1]
Goes(h, pc) == [calls EXCEPT ![h][Len(calls[h])].pc = pc]
Returned(h) == [calls EXCEPT ![h] = SubSeq(@, 1, Len(@) - 1)]

CallGetTypeProps(h, t) ==
    /\ calls[h] = << >> /\ ~initialized[t]
    /\ calls' = [calls EXCEPT ![h] = <<Frame(t)>>]
    /\ UNCHANGED <<graph, tables, initialized, propOwner>>

(* The first look at the flag is without the lock.                         *)
TestInitialized(h) ==
    /\ At(h, "test")
    /\ calls' = IF initialized[Top(h).type] THEN Returned(h) ELSE Goes(h, "lock")
    /\ UNCHANGED <<graph, tables, initialized, propOwner>>

(* Under the lock the flag is looked at again, and the table cleared.      *)
NotTestedAgain(t) == FALSE                                  \* mutant
TestedAgain(t) == initialized[t]

LockTable(h) ==
    /\ At(h, "lock")
    /\ LET t == Top(h).type
       IN  /\ propOwner[t] = Nobody
           /\ IF TestedAgain(t)
              THEN calls' = Returned(h) /\ UNCHANGED <<tables, propOwner>>
              ELSE /\ propOwner' = [propOwner EXCEPT ![t] = h]
                   /\ tables' = [tables EXCEPT ![t] = <<Entry(0, 0, t)>>]
                   /\ calls' = Goes(h, "members")
    /\ UNCHANGED <<graph, initialized>>

(* A member's entry; the contents of its type need the type's table first. *)
PutMember(h) ==
    /\ At(h, "members") /\ Top(h).at <= Len(MembersOf(Top(h).type))
    /\ LET t == Top(h).type
           m == MembersOf(t)[Top(h).at]
       IN  /\ tables' = [tables EXCEPT ![t] = Append(@, Entry(1, m.id, m.of))]
           /\ calls' = IF Appended(t, m)
                       THEN [calls EXCEPT ![h] = Append(Goes(h, "append")[h], Frame(m.of))]
                       ELSE [calls EXCEPT ![h][Len(calls[h])].at = @ + 1]
    /\ UNCHANGED <<graph, initialized, propOwner>>

PutContents(h) ==
    /\ At(h, "append")
    /\ LET t == Top(h).type
           m == MembersOf(t)[Top(h).at]
       IN  tables' = [tables EXCEPT ![t] = AppendContents(@, tables[m.of])]
    /\ calls' = [Goes(h, "members") EXCEPT ![h][Len(calls[h])].at = @ + 1]
    /\ UNCHANGED <<graph, initialized, propOwner>>

(* finish() and the flag, under the lock.                                  *)
LinkProps(h) ==
    /\ At(h, "members") /\ Top(h).at > Len(MembersOf(Top(h).type))
    /\ tables' = [tables EXCEPT ![Top(h).type] = Linked(@)]
    /\ calls' = Goes(h, "keys")
    /\ UNCHANGED <<graph, initialized, propOwner>>

MarkKeys(h) ==
    /\ At(h, "keys")
    /\ tables' = [tables EXCEPT ![Top(h).type] = Keyed(@, KeyPaths(Top(h).type))]
    /\ calls' = Goes(h, "finish")
    /\ UNCHANGED <<graph, initialized, propOwner>>

FinishProps(h) ==
    /\ At(h, "finish")
    /\ LET t == Top(h).type
       IN  /\ tables' = [tables EXCEPT ![t] = KeysLinked(@)]
           /\ initialized' = [initialized EXCEPT ![t] = TRUE]
           /\ propOwner' = [propOwner EXCEPT ![t] = Nobody]
    /\ calls' = Returned(h)
    /\ UNCHANGED graph

PropsStep(h) ==
    \/ TestInitialized(h) \/ LockTable(h) \/ PutMember(h) \/ PutContents(h)
    \/ LinkProps(h) \/ MarkKeys(h) \/ FinishProps(h)

PropsInit ==
    /\ graph \in Graphs
    /\ calls = [h \in PropThreads |-> << >>]
    /\ tables = [t \in DOMAIN graph |-> << >>]
    /\ initialized = [t \in DOMAIN graph |-> FALSE]
    /\ propOwner = [t \in DOMAIN graph |-> Nobody]

PropsNext ==
    \E h \in PropThreads : (\E t \in DOMAIN graph : CallGetTypeProps(h, t)) \/ PropsStep(h)

(* Threads that build a table run on; nothing is assumed of the mutexes.   *)
PropsFairness == \A h \in PropThreads : WF_propVars(PropsStep(h))

-----------------------------------------------------------------------------
(***************************************************************************)
(* Properties.                                                             *)
(***************************************************************************)
PropsTypeOK ==
    /\ graph \in Graphs
    /\ \A h \in PropThreads : \A k \in DOMAIN calls[h] :
           /\ calls[h][k].type \in DOMAIN graph /\ calls[h][k].at \in Nat
           /\ calls[h][k].pc \in {"test", "lock", "members", "append", "keys", "finish"}
    /\ initialized \in [DOMAIN graph -> BOOLEAN]
    /\ propOwner \in [DOMAIN graph -> PropThreads \cup {Nobody}]

(* The entries below i in the tree that the depths describe.               *)
Children(p, i) ==
    {j \in i + 1 .. Len(p) : p[j].depth = p[i].depth + 1
                             /\ \A k \in i + 1 .. j : p[k].depth > p[i].depth}

(* The types of the entries above i, the table's own included.             *)
RECURSIVE Enclosing(_, _)
Enclosing(p, i) == IF i = 0 THEN {} ELSE {p[i].of} \cup Enclosing(p, p[i].links.parent)

(* Who walks the links meets each member of each type once, in order; only *)
(* a member whose type leads back to a type around it, or to too many, has *)
(* none (the streamer then asks for the type's own table).                 *)
IsTree(t) ==
    LET p == tables[t]
    IN  /\ p[1].of = t
        /\ \A i \in DOMAIN p :
               /\ ToSet(Below(p, i)) = Children(p, i)
               /\ \A k \in 2 .. Len(Below(p, i)) : Below(p, i)[k - 1] < Below(p, i)[k]
               /\ \A j \in Children(p, i) : p[j].links.parent = i
               /\ LET expanded == [k \in DOMAIN Below(p, i) |->
                                      [id |-> p[Below(p, i)[k]].id, of |-> p[Below(p, i)[k]].of]]
                  IN  IF p[i].of = Leaf THEN expanded = << >>
                      ELSE \/ expanded = MembersOf(p[i].of)
                           \/ /\ expanded = << >>
                              /\ \/ Enclosing(p, p[i].links.parent) \cap Referenced({p[i].of}) # {}
                                 \/ Visited(p[i].of) > VisitedMax

(* The keys of a struct: those named, or those of its type, or all; what   *)
(* is below a key likewise.                                                *)
RECURSIVE Intended(_, _, _)
Intended(p, i, paths) ==
    LET named == IF paths # {} THEN paths ELSE IF p[i].of = Leaf THEN {} ELSE KeyPaths(p[i].of)
        keys == {j \in Children(p, i) : named = {} \/ p[j].id \in Heads(named)}
    IN  keys \cup UNION {Intended(p, j, Tails(named, p[j].id)) : j \in keys}

RECURSIVE Walked(_, _, _)
Walked(p, i, sorted) ==
    LET list == IF sorted THEN p[i].links.sorted ELSE p[i].links.unsorted
    IN  ToSet(list) \cup UNION {Walked(p, list[k], sorted) : k \in DOMAIN list}

(* Writers of keys and of key hashes walk the same members, the latter by  *)
(* their identifiers.                                                      *)
KeysAreIntended(t) ==
    LET p == tables[t]
        keys == IF KeyPaths(t) = {} THEN {} ELSE Intended(p, 1, KeyPaths(t))
    IN  /\ Walked(p, 1, TRUE) = keys /\ Walked(p, 1, FALSE) = keys
        /\ \A i \in DOMAIN p : LET s == p[i].links.sorted
                               IN  \A k \in 1 .. Len(s) - 1 : p[s[k]].id < p[s[k + 1]].id

(* A table that a thread may use is complete, whoever built it and however *)
(* many built others meanwhile, and stays so.                              *)
TablesAreRight == \A t \in DOMAIN graph : initialized[t] => IsTree(t) /\ KeysAreIntended(t)

(* Types that refer to each other, and threads that build their tables at  *)
(* the same time, do not wait for each other for ever.                     *)
TablesAreBuilt == \A h \in PropThreads : calls[h] # << >> ~> calls[h] = << >>
=============================================================================
