--------------------------- MODULE EntitiesProofs ---------------------------
(***************************************************************************)
(* Proofs about an entity and what it shares with its container: the       *)
(* domains of participants (DomainRegistry), for any sets of both; the     *)
(* callbacks for statuses (StatusDelivery), for any callback threads and   *)
(* masks; and the qos of an entity, policy objects, durations and times    *)
(* (EntityQos, PolicyObjects, DurationTime), for any durations and lists   *)
(* an application passes and any number of edits.                          *)
(*                                                                         *)
(* The invariant of the domains relates four records of the same fact:     *)
(* which constructor holds the lock, what a participant refers to, what    *)
(* the registry has, and what exists in the C layer. That of the callbacks *)
(* relates a callback that runs to the listener it will call, to the       *)
(* setter that waits for it, and to the place of the source in its life.   *)
(* Each policy comes back from the C library as it was written (Faithful), *)
(* hence what an entity holds is what was checked and what is in force;    *)
(* and durations and times are what the calls on them promise. The last    *)
(* theorem is about the parts together.                                    *)
(***************************************************************************)
EXTENDS MCEntities, DurationTime, FiniteSetTheorems, TLAPS

-----------------------------------------------------------------------------
(***************************************************************************)
(* Domains, and the delivery of statuses.                                  *)
(***************************************************************************)
(* The lock is held exactly while a constructor creates and registers.     *)
LockInv ==
    \A p \in Participants : pc[p] \in {"create", "register"} <=> lock = p

(* What domain_ref_ of p may be at each place of its life.                 *)
RefInv ==
    \A p \in Participants :
        /\ pc[p] \in {"unborn", "lock", "closed", "failed"} => domainRef[p] = Nil
        /\ pc[p] \in {"create", "register"} => domainRef[p] \in {Nil, p}
        /\ pc[p] = "unwind" => domainRef[p] = p
        /\ pc[p] \in {"open", "release"} =>
               registry[id[p]] # Nil /\ registry[id[p]] = domainRef[p]

(* A participant that created its domain and has not registered it yet.    *)
Creating(p) == pc[p] \in {"create", "register", "unwind"} /\ domainRef[p] = p

CreatingInv ==
    \A p \in Participants : Creating(p) =>
        /\ p \in explicit
        /\ id[p] \in Domains
        /\ pc[p] # "unwind" => registry[id[p]] = Nil

(* An entry is named after a participant of that domain, and some          *)
(* participant refers to it.                                               *)
RegistryInv ==
    \A dm \in Domains : registry[dm] # Nil =>
        /\ pc[registry[dm]] \in {"open", "release", "closed"}
        /\ id[registry[dm]] = dm
        /\ \E p \in Members(dm) : domainRef[p] = registry[dm]

(* Only what a constructor has created, or the registry has, is explicit.  *)
ExplicitInv ==
    /\ \A p \in explicit : pc[p] \notin {"unborn", "lock"}
    /\ \A dm \in Domains : domain[dm] = "explicit" =>
           \/ registry[dm] \in explicit
           \/ \E p \in Participants : Creating(p) /\ id[p] = dm

(* An implicit domain has a C participant; each is of one that is open.    *)
AliveInv ==
    /\ \A dm \in Domains : domain[dm] = "implicit" => \E a \in alive : a.d = dm
    /\ \A a \in alive : pc[a.p] \in {"register", "open"} /\ id[a.p] = a.d

Inv == TypeOK /\ LockInv /\ RefInv /\ CreatingInv /\ RegistryInv /\ ExplicitInv /\ AliveInv

(* What makes a step of the constructor or close() of p.                   *)
Step(p) ==
    \/ \E i \in Domains \cup {AnyId}, g \in BOOLEAN : Construct(p, i, g)
    \/ Reject(p) \/ UseDomain(p) \/ CreateDomain(p) \/ Create(p) \/ Register(p)
    \/ Fail(p) \/ Unwind(p) \/ Close(p) \/ Release(p)

-----------------------------------------------------------------------------
(* Types: every step keeps them, given that only a created domain makes a  *)
(* participant open.                                                       *)
LEMMA TypeStep == TypeOK /\ [Next]_vars => TypeOK'
<1> SUFFICES ASSUME TypeOK, [Next]_vars PROVE TypeOK'
    OBVIOUS
<1> USE NilAssumption DEF TypeOK
<1>1. CASE UNCHANGED vars
    BY <1>1 DEF vars
<1>2. ASSUME NEW p \in Participants, NEW i \in Domains \cup {AnyId}, NEW g \in BOOLEAN,
             Construct(p, i, g)
      PROVE  TypeOK'
    BY <1>2 DEF Construct, Goto
<1>3. ASSUME NEW p \in Participants, Reject(p) PROVE TypeOK'
    BY <1>3 DEF Reject, Locking, Goto
<1>4. ASSUME NEW p \in Participants, UseDomain(p) PROVE TypeOK'
    BY <1>4 DEF UseDomain, Locking, Goto
<1>5. ASSUME NEW p \in Participants, CreateDomain(p) PROVE TypeOK'
    BY <1>5 DEF CreateDomain, Locking, Goto
<1>6. ASSUME NEW p \in Participants, Create(p) PROVE TypeOK'
    BY <1>6 DEF Create, ResolvedId, Goto
<1>7. ASSUME NEW p \in Participants, Register(p) PROVE TypeOK'
    BY <1>7 DEF Register, WrapFor, Goto
<1>8. ASSUME NEW p \in Participants, Fail(p) PROVE TypeOK'
    BY <1>8 DEF Fail, Goto
<1>9. ASSUME NEW p \in Participants, Unwind(p) PROVE TypeOK'
    BY <1>9 DEF Unwind, DeleteDomain, Goto
<1>10. ASSUME NEW p \in Participants, Close(p) PROVE TypeOK'
    BY <1>10 DEF Close, Goto
<1>11. ASSUME NEW p \in Participants, Release(p) PROVE TypeOK'
    BY <1>11 DEF Release, DeleteDomain, Goto
<1>12. QED
    BY <1>1, <1>2, <1>3, <1>4, <1>5, <1>6, <1>7, <1>8, <1>9, <1>10, <1>11 DEF Next

(* Initially no participant exists, and nothing is registered.             *)
LEMMA InitInv == Init => Inv
BY NilAssumption DEF Init, Inv, TypeOK, LockInv, RefInv, CreatingInv, Creating, RegistryInv,
                     Members, ExplicitInv, AliveInv

(* The invariant depends on nothing but the variables.                     *)
LEMMA StutterInv == Inv /\ UNCHANGED vars => Inv'
BY DEF Inv, vars, TypeOK, LockInv, RefInv, CreatingInv, Creating, RegistryInv,
       Members, ExplicitInv, AliveInv

(* The steps of a constructor before it creates the C participant.         *)
LEMMA ConstructInv ==
    ASSUME Inv, NEW p \in Participants,
           \/ \E i \in Domains \cup {AnyId}, g \in BOOLEAN : Construct(p, i, g)
           \/ Reject(p) \/ UseDomain(p) \/ CreateDomain(p),
           TypeOK'
    PROVE  Inv'
<1> USE NilAssumption DEF Inv, TypeOK, Locking, Goto, Creating, Members, Known
<1>1. CASE \E i \in Domains \cup {AnyId}, g \in BOOLEAN : Construct(p, i, g)
  <2>1. PICK i \in Domains \cup {AnyId}, g \in BOOLEAN : Construct(p, i, g)
      BY <1>1
  <2>2. LockInv' /\ RefInv'
      BY <2>1 DEF Construct, LockInv, RefInv
  <2>3. CreatingInv' /\ ExplicitInv'
      BY <2>1 DEF Construct, CreatingInv, ExplicitInv
  <2>4. RegistryInv' /\ AliveInv'
      BY <2>1 DEF Construct, RegistryInv, AliveInv
  <2>5. QED
      BY <2>2, <2>3, <2>4
<1>2. CASE Reject(p)
  <2>1. LockInv' /\ RefInv'
      BY <1>2 DEF Reject, LockInv, RefInv
  <2>2. CreatingInv' /\ ExplicitInv'
      BY <1>2 DEF Reject, CreatingInv, ExplicitInv
  <2>3. RegistryInv' /\ AliveInv'
      BY <1>2 DEF Reject, RegistryInv, AliveInv
  <2>4. QED
      BY <2>1, <2>2, <2>3
<1>3. CASE UseDomain(p)
  <2>1. LockInv' /\ RefInv'
      BY <1>3 DEF UseDomain, LockInv, RefInv
  <2>2. CreatingInv' /\ ExplicitInv'
      BY <1>3 DEF UseDomain, CreatingInv, ExplicitInv, RefInv
  <2>3. RegistryInv' /\ AliveInv'
      BY <1>3 DEF UseDomain, RegistryInv, AliveInv
  <2>4. QED
      BY <2>1, <2>2, <2>3
<1>4. CASE CreateDomain(p)
  <2>1. LockInv' /\ RefInv'
      BY <1>4 DEF CreateDomain, LockInv, RefInv
  <2>2. CreatingInv'
      BY <1>4 DEF CreateDomain, CreatingInv
  <2>3. ExplicitInv'
      BY <1>4 DEF CreateDomain, ExplicitInv
  <2>4. RegistryInv' /\ AliveInv'
      BY <1>4 DEF CreateDomain, RegistryInv, AliveInv
  <2>5. QED
      BY <2>1, <2>2, <2>3, <2>4
<1>5. QED
    BY <1>1, <1>2, <1>3, <1>4

(* The constructor creates the C participant, registers it, or fails.      *)
LEMMA CreateInv ==
    ASSUME Inv, NEW p \in Participants, Create(p) \/ Register(p) \/ Fail(p) \/ Unwind(p),
           TypeOK'
    PROVE  Inv'
<1> USE NilAssumption DEF Inv, TypeOK, Goto, Creating, Members
<1>1. CASE Create(p)
  <2> USE <1>1 DEF Create
  <2>1. PICK dm \in Domains :
          /\ Resolves(id[p], dm)
          /\ id' = [id EXCEPT ![p] = dm]
          /\ alive' = alive \cup {[p |-> p, d |-> dm]}
          /\ domain' = IF domain[dm] # "none" THEN domain
                       ELSE [domain EXCEPT ![dm] = "implicit"]
      BY DEF ResolvedId
  <2>2. id[p] \in Domains => dm = id[p]
      BY <2>1 DEF Resolves
  <2>3. LockInv' /\ RefInv'
      BY <2>1 DEF LockInv, RefInv
  <2>4. CreatingInv'
      BY <2>1, <2>2 DEF CreatingInv
  <2>5. ExplicitInv'
      BY <2>1, <2>2 DEF ExplicitInv, CreatingInv
  <2>6. RegistryInv'
      BY <2>1 DEF RegistryInv
  <2>7. AliveInv'
    <3>1. ASSUME NEW e \in Domains, domain'[e] = "implicit" PROVE \E a \in alive' : a.d = e
      <4>1. CASE e = dm
        <5>1. [p |-> p, d |-> dm] \in alive'
            BY <2>1
        <5>2. QED
            BY <4>1, <5>1
      <4>2. CASE e # dm
          BY <2>1, <3>1, <4>2 DEF AliveInv
      <4>3. QED
          BY <4>1, <4>2
    <3>2. ASSUME NEW a \in alive' PROVE pc'[a.p] \in {"register", "open"} /\ id'[a.p] = a.d
      <4>1. CASE a \in alive
          BY <2>1, <4>1 DEF AliveInv
      <4>2. CASE a = [p |-> p, d |-> dm]
          BY <2>1, <4>2
      <4>3. QED
          BY <2>1, <4>1, <4>2
    <3>3. QED
        BY <3>1, <3>2 DEF AliveInv
  <2>8. QED
      BY <2>3, <2>4, <2>5, <2>6, <2>7
<1>2. CASE Register(p)
  <2> USE <1>2 DEF Register
  <2>1. id[p] \in Domains /\ lock = p
      BY DEF LockInv
  <2>2. domainRef[p] = p => registry[id[p]] = Nil /\ p \in explicit
      BY DEF CreatingInv
  <2>3. WrapFor(p) = IF registry[id[p]] # Nil THEN registry[id[p]] ELSE p
      BY <2>2 DEF WrapFor, RefInv
  <2>4. LockInv' /\ RefInv'
    <3>1. LockInv'
        BY DEF LockInv
    <3>2. RefInv'
        BY <2>1, <2>3 DEF RefInv
    <3>3. QED
        BY <3>1, <3>2
  <2>5. CreatingInv'
    <3>1. ASSUME NEW q \in Participants, q # p, Creating(q) PROVE pc[q] = "unwind"
        BY <3>1, <2>1 DEF LockInv
    <3>2. QED
        BY <3>1 DEF CreatingInv
  <2>6. RegistryInv'
      BY <2>1, <2>3 DEF RegistryInv
  <2>7. ExplicitInv'
      BY <2>1, <2>2, <2>3 DEF ExplicitInv, CreatingInv
  <2>8. AliveInv'
      BY DEF AliveInv
  <2>9. QED
      BY <2>4, <2>5, <2>6, <2>7, <2>8
<1>3. CASE Fail(p)
  <2>1. LockInv' /\ RefInv'
      BY <1>3 DEF Fail, LockInv, RefInv
  <2>2. CreatingInv' /\ ExplicitInv'
      BY <1>3 DEF Fail, CreatingInv, ExplicitInv
  <2>3. RegistryInv' /\ AliveInv'
      BY <1>3 DEF Fail, RegistryInv, AliveInv
  <2>4. QED
      BY <2>1, <2>2, <2>3
<1>4. CASE Unwind(p)
  <2> USE <1>4 DEF Unwind, DeleteDomain
  <2>1. LockInv' /\ RefInv'
      BY DEF LockInv, RefInv
  <2>2. CreatingInv' /\ ExplicitInv'
      BY DEF CreatingInv, ExplicitInv, RefInv
  <2>3. RegistryInv' /\ AliveInv'
      BY DEF RegistryInv, AliveInv
  <2>4. QED
      BY <2>1, <2>2, <2>3
<1>5. QED
    BY <1>1, <1>2, <1>3, <1>4

(* Different domains have different entries.                               *)
LEMMA EntriesDiffer ==
    ASSUME Inv, NEW dm \in Domains, NEW e \in Domains,
           registry[dm] # Nil, registry[dm] = registry[e]
    PROVE  dm = e
BY DEF Inv, RegistryInv

(* Whoever refers to an entry is a member of its domain.                   *)
LEMMA ReferringIsMember ==
    ASSUME Inv, NEW dm \in Domains, registry[dm] # Nil,
           NEW q \in Participants, domainRef[q] = registry[dm]
    PROVE  q \in Members(dm)
<1> USE NilAssumption DEF Inv, TypeOK
<1>1. pc[q] \in {"open", "release"}
    BY DEF RefInv, RegistryInv
<1>2. id[q] \in Domains /\ registry[id[q]] = registry[dm]
    BY <1>1 DEF RefInv
<1>3. QED
    BY <1>1, <1>2, EntriesDiffer DEF Members

(* close().                                                                *)
LEMMA CloseInv ==
    ASSUME Inv, NEW p \in Participants, Close(p) \/ Release(p), TypeOK'
    PROVE  Inv'
<1> USE NilAssumption DEF Inv, TypeOK, Goto, Creating, Members
<1>1. CASE Close(p)
  <2> USE <1>1 DEF Close
  <2>1. LockInv' /\ RefInv'
      BY DEF LockInv, RefInv
  <2>2. CreatingInv' /\ ExplicitInv'
      BY DEF CreatingInv, ExplicitInv
  <2>3. RegistryInv'
      BY DEF RegistryInv
  <2>4. ASSUME NEW dm \in Domains, domain'[dm] = "implicit" PROVE \E a \in alive' : a.d = dm
    <3>1. domain[dm] = "implicit" /\ ~(dm = id[p] /\ Others(p, dm) = {})
        BY <2>4
    <3>2. PICK a \in alive : a.d = dm
        BY <3>1 DEF AliveInv
    <3>3. CASE dm = id[p]
        BY <3>1, <3>3 DEF Others
    <3>4. CASE dm # id[p]
        BY <3>2, <3>4 DEF AliveInv
    <3>5. QED
        BY <3>3, <3>4
  <2>5. AliveInv'
      BY <2>4 DEF AliveInv
  <2>6. QED
      BY <2>1, <2>2, <2>3, <2>5
<1>2. CASE Release(p)
  <2> DEFINE dm == id[p]
  <2> USE <1>2 DEF Release
  <2>1. dm \in Domains /\ registry[dm] # Nil /\ registry[dm] = domainRef[p]
      BY DEF RefInv
  <2>2. LockInv'
      BY DEF LockInv
  <2>3. CASE ~LastReference(p)
    <3>1. UNCHANGED <<registry, domain, alive>>
        BY <2>3
    <3>2. PICK q \in Participants \ {p} : domainRef[q] = registry[dm]
        BY <2>3 DEF LastReference
    <3>3. q \in Members(dm)
        BY <2>1, <3>2, ReferringIsMember
    <3>4. RefInv'
        BY <3>1 DEF RefInv
    <3>5. CreatingInv' /\ ExplicitInv'
        BY <3>1 DEF CreatingInv, ExplicitInv
    <3>6. RegistryInv'
        BY <3>1, <3>2, <3>3 DEF RegistryInv
    <3>7. AliveInv'
        BY <3>1 DEF AliveInv
    <3>8. QED
        BY <2>2, <3>4, <3>5, <3>6, <3>7
  <2>4. CASE LastReference(p)
    <3>1. registry' = [registry EXCEPT ![dm] = Nil]
        BY <2>4
    <3>2. \A q \in Members(dm) : q = p
        BY <2>1, <2>4 DEF LastReference, RefInv
    <3>3. RefInv'
        BY <3>1, <3>2 DEF RefInv
    <3>4. CreatingInv'
        BY <3>1 DEF CreatingInv
    <3>5. RegistryInv'
        BY <3>1, <2>1 DEF RegistryInv
    <3>6. CASE registry[dm] \in explicit
      <4>1. /\ domain' = [domain EXCEPT ![dm] = "none"]
            /\ alive' = {a \in alive : a.d # dm}
          BY <2>4, <3>6 DEF DeleteDomain
      <4>2. ExplicitInv'
          BY <3>1, <4>1 DEF ExplicitInv
      <4>3. AliveInv'
          BY <4>1 DEF AliveInv
      <4>4. QED
          BY <2>2, <3>3, <3>4, <3>5, <4>2, <4>3
    <3>7. CASE registry[dm] \notin explicit
      <4>1. UNCHANGED <<domain, alive>>
          BY <2>4, <3>7
      <4>2. ExplicitInv' /\ AliveInv'
          BY <3>1, <3>7, <4>1 DEF ExplicitInv, AliveInv
      <4>3. QED
          BY <2>2, <3>3, <3>4, <3>5, <4>2
    <3>8. QED
        BY <2>2, <3>3, <3>4, <3>5, <3>6, <3>7
  <2>5. QED
      BY <2>3, <2>4
<1>3. QED
    BY <1>1, <1>2

LEMMA NextInv == Inv /\ [Next]_vars => Inv'
<1> SUFFICES ASSUME Inv, [Next]_vars PROVE Inv'
    OBVIOUS
<1>1. TypeOK'
    BY TypeStep DEF Inv
<1>2. CASE UNCHANGED vars
    BY <1>2, StutterInv
<1>3. ASSUME NEW p \in Participants, Step(p) PROVE Inv'
    BY <1>1, <1>3, ConstructInv, CreateInv, CloseInv DEF Step
<1>4. QED
    BY <1>2, <1>3 DEF Next, Step

(* The inductive invariant of constructors, failures and close(): who      *)
(* has the lock and the domain, and why the registry has its entries.      *)
THEOREM Invariance == Spec => []Inv
BY InitInv, NextInv, PTL DEF Spec

-----------------------------------------------------------------------------
(* Every variable has its type.                                            *)
THEOREM TypeCorrect == Spec => []TypeOK
<1>1. Inv => TypeOK
    BY DEF Inv
<1>2. QED
    BY <1>1, Invariance, PTL

(* The assertion in close() holds: a participant finds its domain in the   *)
(* registry, and its own domain_ref_ there.                                *)
THEOREM AssertHolds == Spec => []ClosingFindsDomain
<1>1. Inv => ClosingFindsDomain
    BY DEF Inv, RefInv, ClosingFindsDomain
<1>2. QED
    BY <1>1, Invariance, PTL

(* Without participants nothing is registered and no domain is left.       *)
THEOREM NothingIsLeftBehind == Spec => []NothingLeftBehind
<1>1. Inv => NothingLeftBehind
  <2> SUFFICES ASSUME Inv, NEW dm \in Domains,
                      \A p \in Participants : pc[p] \in {"unborn", "lock", "closed", "failed"}
               PROVE  registry[dm] = Nil /\ domain[dm] = "none"
      BY DEF NothingLeftBehind
  <2> USE DEF Inv, TypeOK
  <2>1. registry[dm] = Nil
      BY DEF RegistryInv, Members
  <2>2. domain[dm] # "implicit"
      BY DEF AliveInv
  <2>3. domain[dm] # "explicit"
      BY <2>1, NilAssumption DEF ExplicitInv, Creating
  <2>4. QED
      BY <2>1, <2>2, <2>3
<1>2. QED
    BY <1>1, Invariance, PTL

-----------------------------------------------------------------------------
(* The registry implements DomainContract: registering is joining, and the *)
(* release of domain_ref_ is leaving; no other step changes either.        *)
Config == [dm \in Domains |-> IF registry[dm] = Nil THEN "none"
                             ELSE IF registry[dm] \in explicit THEN "given" ELSE "default"]
Membership == [dm \in Domains |-> Members(dm)]

(* A domain has members when it is registered.                             *)
LEMMA RegisteredHasMembers ==
    ASSUME Inv, NEW dm \in Domains
    PROVE  Members(dm) # {} <=> registry[dm] # Nil
BY DEF Inv, RegistryInv, RefInv, Members

(* Initially no domain has a member.                                       *)
LEMMA InitContract == Init => Contract!Init
BY DEF Init, Contract!Init, Members

(* A participant that joins or leaves makes a step of the contract.        *)
LEMMA JoinIsStep ==
    ASSUME NEW p \in Participants, NEW dm \in Domains, NEW g \in BOOLEAN, Contract!Join(p, dm, g)
    PROVE  Contract!Next
BY DEF Contract!Next

LEMMA LeaveIsStep ==
    ASSUME NEW p \in Participants, NEW dm \in Domains, Contract!Leave(p, dm)
    PROVE  Contract!Next
BY DEF Contract!Next

(* Register(p) is a Join: the first participant settles the configuration. *)
LEMMA RegisterJoins ==
    ASSUME Inv, Inv', NEW p \in Participants, Register(p)
    PROVE  Contract!Next
<1> USE NilAssumption DEF Inv, TypeOK, Register, Goto
<1>0. id[p] \in Domains /\ pc[p] = "register"
    OBVIOUS
<1> SUFFICES ASSUME NEW dm \in Domains, dm = id[p], NEW g \in BOOLEAN, g <=> p \in explicit
             PROVE  Contract!Next
    BY <1>0
<1>1. dm \in Domains /\ pc[p] = "register" /\ dm = id[p]
    BY <1>0
<1>2. \A e \in Domains : p \notin Members(e)
    BY <1>1 DEF Members
<1>3. Membership' = [Membership EXCEPT ![dm] = @ \cup {p}]
  <2>1. ASSUME NEW e \in Domains, e # dm PROVE Members(e)' = Members(e)
      BY <2>1 DEF Members
  <2>2. Members(dm)' = Members(dm) \cup {p}
      BY DEF Members
  <2>3. QED
      BY <2>1, <2>2, <1>1 DEF Membership
<1>4. CASE registry[dm] # Nil
  <2>1. WrapFor(p) = registry[dm]
      BY <1>4 DEF WrapFor, RefInv, CreatingInv, Creating
  <2>2. registry' = registry
      BY <1>1, <2>1
  <2>3. Members(dm) # {}
      BY <1>1, <1>4, RegisteredHasMembers
  <2>4. Contract!Join(p, dm, g)
      BY <1>1, <1>2, <1>3, <2>2, <2>3 DEF Contract!Join, Membership
  <2>5. QED
      BY <1>1, <2>4, JoinIsStep
<1>5. CASE registry[dm] = Nil
  <2>1. WrapFor(p) = p
      BY <1>5 DEF WrapFor, RefInv
  <2>2. registry' = [registry EXCEPT ![dm] = p]
      BY <2>1
  <2>3. Members(dm) = {}
      BY <1>1, <1>5, RegisteredHasMembers
  <2>4. Config' = [Config EXCEPT ![dm] = IF g THEN "given" ELSE "default"]
    <3>1. ASSUME NEW e \in Domains, e # dm PROVE Config'[e] = Config[e]
        BY <1>1, <2>2, <3>1 DEF Config
    <3>2. p # Nil /\ registry'[dm] = p /\ explicit' = explicit
        BY <1>1, <2>2
    <3>3. Config'[dm] = IF g THEN "given" ELSE "default"
        BY <1>1, <3>2 DEF Config
    <3>4. /\ Config \in [Domains -> {"none", "given", "default"}]
          /\ Config' \in [Domains -> {"none", "given", "default"}]
        BY DEF Config
    <3>5. QED
        BY <1>1, <3>1, <3>3, <3>4
  <2>5. Contract!Join(p, dm, g)
      BY <1>1, <1>2, <1>3, <2>3, <2>4 DEF Contract!Join, Membership, Config
  <2>6. QED
      BY <1>1, <2>5, JoinIsStep
<1>6. QED
    BY <1>4, <1>5

(* Release(p) is a Leave: the configuration goes with the last one.        *)
LEMMA ReleaseLeaves ==
    ASSUME Inv, Inv', NEW p \in Participants, Release(p)
    PROVE  Contract!Next
<1> USE NilAssumption DEF Inv, TypeOK, Release, Goto
<1>0. id[p] \in Domains /\ pc[p] = "release"
    OBVIOUS
<1> SUFFICES ASSUME NEW dm \in Domains, dm = id[p] PROVE Contract!Next
    BY <1>0
<1>1. dm \in Domains /\ pc[p] = "release" /\ dm = id[p] /\ p \in Members(dm)
    BY <1>0 DEF Members
<1>2. Membership' = [Membership EXCEPT ![dm] = @ \ {p}]
  <2>1. ASSUME NEW e \in Domains, e # dm PROVE Members(e)' = Members(e)
      BY <2>1 DEF Members
  <2>2. Members(dm)' = Members(dm) \ {p}
      BY DEF Members
  <2>3. QED
      BY <2>1, <2>2, <1>1 DEF Membership
<1>3. registry[dm] # Nil /\ registry[dm] = domainRef[p]
    BY <1>1 DEF RefInv
<1>4. CASE LastReference(p)
  <2>1. registry' = [registry EXCEPT ![dm] = Nil]
      BY <1>4
  <2>2. Members(dm) = {p}
      BY <1>1, <1>3, <1>4 DEF LastReference, RefInv, Members
  <2>3. Config' = [Config EXCEPT ![dm] = "none"]
      BY <1>1, <2>1 DEF Config
  <2>4. Contract!Leave(p, dm)
      BY <1>1, <1>2, <2>2, <2>3 DEF Contract!Leave, Membership, Config
  <2>5. QED
      BY <1>1, <2>4, LeaveIsStep
<1>5. CASE ~LastReference(p)
  <2>1. registry' = registry
      BY <1>5
  <2>2. PICK q \in Participants \ {p} : domainRef[q] = registry[dm]
      BY <1>5 DEF LastReference
  <2>3. q \in Members(dm)
      BY <1>1, <1>3, <2>2, ReferringIsMember
  <2>4. Contract!Leave(p, dm)
      BY <1>1, <1>2, <2>1, <2>2, <2>3 DEF Contract!Leave, Membership
  <2>5. QED
      BY <1>1, <2>4, LeaveIsStep
<1>6. QED
    BY <1>4, <1>5

(* No other step changes the members or the configuration of a domain.     *)
LEMMA OthersStutter ==
    ASSUME Inv, NEW p \in Participants,
           \/ \E i \in Domains \cup {AnyId}, g \in BOOLEAN : Construct(p, i, g)
           \/ Reject(p) \/ UseDomain(p) \/ CreateDomain(p) \/ Create(p)
           \/ Fail(p) \/ Unwind(p) \/ Close(p)
    PROVE  UNCHANGED <<Membership, Config>>
<1> USE DEF Inv, TypeOK, Goto
<1>1. ASSUME NEW dm \in Domains PROVE Members(dm)' = Members(dm)
    BY DEF Members, Construct, Reject, UseDomain, CreateDomain, Create, Fail, Unwind, Close,
           Locking
<1>2. registry' = registry
    BY DEF Construct, Reject, UseDomain, CreateDomain, Create, Fail, Unwind, Close
<1>3. ASSUME NEW dm \in Domains, registry[dm] # Nil
      PROVE  registry[dm] \in explicit' <=> registry[dm] \in explicit
    BY <1>3 DEF RegistryInv, Construct, Reject, UseDomain, CreateDomain, Create, Fail, Unwind,
                Close, Locking
<1>4. QED
    BY <1>1, <1>2, <1>3 DEF Membership, Config

(* The constructor and close() of participants keep DomainContract.        *)
THEOREM Implements == Spec => KeepsContract
<1>1. Inv /\ Inv' /\ [Next]_vars => [Contract!Next]_(Contract!vars)
  <2> SUFFICES ASSUME Inv, Inv', [Next]_vars PROVE [Contract!Next]_(Contract!vars)
      OBVIOUS
  <2>1. CASE UNCHANGED vars
      BY <2>1 DEF vars, Contract!vars, Members
  <2>2. ASSUME NEW p \in Participants, Step(p) PROVE [Contract!Next]_(Contract!vars)
    <3>1. CASE Register(p)
        BY <3>1, RegisterJoins
    <3>2. CASE Release(p)
        BY <3>2, ReleaseLeaves
    <3>3. CASE ~Register(p) /\ ~Release(p)
        BY <2>2, <3>3, OthersStutter DEF Step, Contract!vars, Membership, Config
    <3>4. QED
        BY <3>1, <3>2, <3>3
  <2>3. QED
      BY <2>1, <2>2 DEF Next, Step
<1>2. QED
    BY <1>1, InitContract, Invariance, PTL DEF Spec, KeepsContract, Contract!Spec

-----------------------------------------------------------------------------
(* As long as no constructor has failed after it created its domain, what  *)
(* is registered as explicit exists, and so does the domain of each        *)
(* participant of the C layer.                                             *)
WrapInv ==
    \A p \in Participants :
        /\ p \in explicit /\ pc[p] \in {"create", "register"} => domainRef[p] = p
        /\ pc[p] # "unborn" => id[p] \in Domains \cup {AnyId}

ExistsInv ==
    Clean =>
        /\ \A dm \in Domains : registry[dm] \in explicit => domain[dm] = "explicit"
        /\ \A p \in Participants : Creating(p) => domain[id[p]] = "explicit"
        /\ \A p \in Participants : pc[p] \in {"register", "open"} =>
               [p |-> p, d |-> id[p]] \in alive /\ domain[id[p]] # "none"

(* Every step keeps WrapInv: only CreateDomain adds to explicit.           *)
LEMMA WrapStep == Inv /\ WrapInv /\ [Next]_vars => WrapInv'
<1> SUFFICES ASSUME Inv, WrapInv, [Next]_vars PROVE WrapInv'
    OBVIOUS
<1> USE NilAssumption DEF Inv, TypeOK, WrapInv, Goto
<1>1. CASE UNCHANGED vars
    BY <1>1 DEF vars
<1>2. ASSUME NEW p \in Participants, NEW i \in Domains \cup {AnyId}, NEW g \in BOOLEAN,
             Construct(p, i, g)
      PROVE  WrapInv'
    BY <1>2 DEF Construct
<1>3. ASSUME NEW p \in Participants, Reject(p) PROVE WrapInv'
    BY <1>3 DEF Reject, Locking
<1>4. ASSUME NEW p \in Participants, UseDomain(p) PROVE WrapInv'
    BY <1>4 DEF UseDomain, Locking, ExplicitInv
<1>5. ASSUME NEW p \in Participants, CreateDomain(p) PROVE WrapInv'
    BY <1>5 DEF CreateDomain, Locking
<1>6. ASSUME NEW p \in Participants, Create(p) PROVE WrapInv'
    BY <1>6 DEF Create, ResolvedId
<1>7. ASSUME NEW p \in Participants, Register(p) PROVE WrapInv'
    BY <1>7 DEF Register
<1>8. ASSUME NEW p \in Participants, Fail(p) PROVE WrapInv'
    BY <1>8 DEF Fail
<1>9. ASSUME NEW p \in Participants, Unwind(p) PROVE WrapInv'
    BY <1>9 DEF Unwind
<1>10. ASSUME NEW p \in Participants, Close(p) PROVE WrapInv'
    BY <1>10 DEF Close
<1>11. ASSUME NEW p \in Participants, Release(p) PROVE WrapInv'
    BY <1>11 DEF Release
<1>12. QED
    BY <1>1, <1>2, <1>3, <1>4, <1>5, <1>6, <1>7, <1>8, <1>9, <1>10, <1>11 DEF Next

(* A constructor that failed after it created its domain stays failed.     *)
LEMMA CleanBackwards == Inv /\ [Next]_vars /\ Clean' => Clean
<1> SUFFICES ASSUME Inv, [Next]_vars, ~Clean PROVE ~Clean'
    OBVIOUS
<1>1. PICK q \in explicit : pc[q] \in {"unwind", "failed"}
    BY DEF Clean
<1> USE DEF Inv, TypeOK, Goto
<1>2. q \in explicit' /\ pc'[q] \in {"unwind", "failed"}
  <2>1. CASE UNCHANGED vars
      BY <1>1, <2>1 DEF vars
  <2>2. ASSUME NEW p \in Participants, Step(p) PROVE q \in explicit' /\ pc'[q] \in {"unwind", "failed"}
      BY <1>1, <2>2 DEF Step, Construct, Reject, UseDomain, CreateDomain, Create, Register,
                       Fail, Unwind, Close, Release, Locking
  <2>3. QED
      BY <2>1, <2>2 DEF Next, Step
<1>3. QED
    BY <1>2 DEF Clean

(* Every step keeps ExistsInv.                                             *)
LEMMA ExistsStep == Inv /\ WrapInv /\ ExistsInv /\ [Next]_vars => ExistsInv'
<1> SUFFICES ASSUME Inv, WrapInv, ExistsInv, [Next]_vars, Clean' PROVE ExistsInv'
    BY DEF ExistsInv
<1>0. Clean
    BY CleanBackwards
<1> USE NilAssumption DEF Inv, TypeOK, ExistsInv, Creating, Goto
<1>1. CASE UNCHANGED vars
    BY <1>0, <1>1 DEF vars
<1>2. ASSUME NEW p \in Participants, NEW i \in Domains \cup {AnyId}, NEW g \in BOOLEAN,
             Construct(p, i, g)
      PROVE  ExistsInv'
    BY <1>0, <1>2 DEF Construct
<1>3. ASSUME NEW p \in Participants, Reject(p) PROVE ExistsInv'
    BY <1>0, <1>3 DEF Reject, Locking
<1>4. ASSUME NEW p \in Participants, UseDomain(p) PROVE ExistsInv'
    BY <1>0, <1>4 DEF UseDomain, Locking, RefInv
<1>5. ASSUME NEW p \in Participants, CreateDomain(p) PROVE ExistsInv'
  <2>1. \A dm \in Domains : registry[dm] # p
      BY <1>5 DEF CreateDomain, Locking, RegistryInv
  <2>2. QED
      BY <1>0, <1>5, <2>1 DEF CreateDomain, Locking, WrapInv, RefInv
<1>6. ASSUME NEW p \in Participants, Create(p) PROVE ExistsInv'
  <2> USE <1>6 DEF Create
  <2>1. PICK dm \in Domains :
          /\ Resolves(id[p], dm)
          /\ id' = [id EXCEPT ![p] = dm]
          /\ alive' = alive \cup {[p |-> p, d |-> dm]}
          /\ domain' = IF domain[dm] # "none" THEN domain
                       ELSE [domain EXCEPT ![dm] = "implicit"]
      BY DEF ResolvedId
  <2>2. id[p] \in Domains => dm = id[p]
      BY <2>1 DEF Resolves
  <2>3. \A e \in Domains : domain[e] # "none" => domain'[e] = domain[e]
      BY <2>1
  <2>4. [p |-> p, d |-> dm] \in alive' /\ domain'[dm] # "none"
      BY <2>1
  <2>5. QED
      BY <1>0, <2>1, <2>2, <2>3, <2>4 DEF CreatingInv
<1>7. ASSUME NEW p \in Participants, Register(p) PROVE ExistsInv'
  <2> USE <1>7 DEF Register
  <2>1. id[p] \in Domains /\ pc[p] = "register"
      OBVIOUS
  <2>2. WrapFor(p) \in explicit => domain[id[p]] = "explicit"
    <3>1. CASE domainRef[p] = p
        BY <1>0, <2>1, <3>1 DEF WrapFor
    <3>2. CASE domainRef[p] = Nil /\ p \notin explicit
        BY <1>0, <2>1, <3>2 DEF WrapFor
    <3>3. QED
        BY <2>1, <3>1, <3>2 DEF RefInv, WrapInv
  <2>3. QED
      BY <1>0, <2>1, <2>2
<1>8. ASSUME NEW p \in Participants, Fail(p) PROVE ExistsInv'
    BY <1>0, <1>8 DEF Fail
<1>9. ASSUME NEW p \in Participants, Unwind(p) PROVE ExistsInv'
    BY <1>0, <1>9 DEF Unwind, Clean, CreatingInv, RefInv
<1>10. ASSUME NEW p \in Participants, Close(p) PROVE ExistsInv'
  <2> USE <1>10 DEF Close
  <2>1. ASSUME NEW q \in Participants, q # p, pc[q] \in {"register", "open"}
        PROVE  domain'[id[q]] # "none"
    <3>1. [p |-> q, d |-> id[q]] \in alive /\ domain[id[q]] # "none"
        BY <1>0, <2>1
    <3>2. id[q] = id[p] => [p |-> q, d |-> id[q]] \in Others(p, id[p])
        BY <2>1, <3>1 DEF Others
    <3>3. QED
        BY <3>1, <3>2
  <2>2. \A e \in Domains : domain[e] = "explicit" => domain'[e] = "explicit"
      OBVIOUS
  <2>3. QED
      BY <1>0, <2>1, <2>2 DEF CreatingInv
<1>11. ASSUME NEW p \in Participants, Release(p) PROVE ExistsInv'
  <2> USE <1>11 DEF Release
  <2>1. id[p] \in Domains /\ registry[id[p]] # Nil /\ registry[id[p]] = domainRef[p]
      BY DEF RefInv
  <2>2. CASE ~LastReference(p)
      BY <1>0, <2>2
  <2>3. CASE LastReference(p)
    <3>1. registry' = [registry EXCEPT ![id[p]] = Nil]
        BY <2>3
    <3>2. \A e \in Domains : e # id[p] => domain'[e] = domain[e]
        BY <2>3 DEF DeleteDomain
    <3>3. ASSUME NEW q \in Participants, pc'[q] \in {"register", "open"}
          PROVE  q # p /\ id[q] \in Domains /\ id[q] # id[p]
        BY <2>1, <2>3, <3>3 DEF LastReference, RefInv, LockInv
    <3>4. ASSUME NEW q \in Participants, Creating(q)' PROVE FALSE
        BY <1>0, <3>4 DEF LockInv, CreatingInv, Clean
    <3>5. \A a \in alive : a.d # id[p] => a \in alive'
        BY <2>3 DEF DeleteDomain
    <3>6. QED
        BY <1>0, <3>1, <3>2, <3>3, <3>4, <3>5
  <2>4. QED
      BY <2>2, <2>3
<1>12. QED
    BY <1>1, <1>2, <1>3, <1>4, <1>5, <1>6, <1>7, <1>8, <1>9, <1>10, <1>11 DEF Next

(* Both hold initially, and so always.                                     *)
LEMMA ExistsAlways == Spec => [](Inv /\ WrapInv /\ ExistsInv)
<1>1. Init => WrapInv /\ ExistsInv
    BY NilAssumption DEF Init, WrapInv, ExistsInv, Creating
<1>2. QED
    BY <1>1, WrapStep, ExistsStep, InitInv, NextInv, PTL DEF Spec

(* No other participant's constructor or close() takes the domain of an    *)
(* open participant away.                                                  *)
THEOREM OpenStaysInItsDomain == Spec => []OpenIsInItsDomain
<1>1. Inv /\ ExistsInv => OpenIsInItsDomain
  <2> SUFFICES ASSUME Inv, ExistsInv, Clean, NEW p \in Participants, pc[p] = "open"
               PROVE  /\ [p |-> p, d |-> id[p]] \in alive
                      /\ domain[id[p]] = IF registry[id[p]] \in explicit
                                         THEN "explicit" ELSE "implicit"
      BY DEF OpenIsInItsDomain
  <2> USE DEF Inv, TypeOK
  <2>1. id[p] \in Domains /\ [p |-> p, d |-> id[p]] \in alive /\ domain[id[p]] # "none"
      BY DEF ExistsInv
  <2>2. registry[id[p]] # Nil
      BY DEF RefInv
  <2>3. ASSUME domain[id[p]] = "explicit" PROVE registry[id[p]] \in explicit
      BY <2>1, <2>2, <2>3 DEF ExplicitInv, CreatingInv, Creating, Clean
  <2>4. registry[id[p]] \in explicit => domain[id[p]] = "explicit"
      BY <2>1 DEF ExistsInv
  <2>5. QED
      BY <2>1, <2>3, <2>4
<1>2. QED
    BY <1>1, ExistsAlways, PTL

(* The three together, as the run checks them.                             *)
THEOREM DomainsAlwaysAgree == Spec => []DomainsAgree
<1>1. DomainsAgree <=> (OpenIsInItsDomain /\ ClosingFindsDomain /\ NothingLeftBehind)
    BY DEF DomainsAgree
<1>2. QED
    BY <1>1, OpenStaysInItsDomain, AssertHolds, NothingIsLeftBehind, PTL

(* A configuration is refused only after another constructor has failed.   *)
THEOREM ConfigurationIsAccepted == Spec => ExistingDomainIsUsed
<1>1. Inv /\ WrapInv /\ [Next]_vars =>
          [Clean => \A p \in Participants : ~Refused(p)]_vars
  <2> SUFFICES ASSUME Inv, WrapInv, [Next]_vars, Clean, NEW p \in Participants, Refused(p)
               PROVE  FALSE
      OBVIOUS
  <2> USE NilAssumption DEF Inv, TypeOK, Goto
  <2>1. Reject(p)
    <3>1. ~UNCHANGED vars
        BY DEF Refused, vars
    <3>2. PICK q \in Participants : Step(q)
        BY <3>1 DEF Next, Step
    <3>3. q = p
        BY <3>2 DEF Refused, Step, Construct, Reject, UseDomain, CreateDomain, Create, Register,
                    Fail, Unwind, Close, Release, Locking
    <3>4. QED
        BY <3>2, <3>3 DEF Refused, Step, Construct, UseDomain, CreateDomain, Create, Register, Fail,
                    Unwind, Close, Release, Locking
  <2>2. id[p] \in Domains /\ lock = Nil /\ registry[id[p]] = Nil /\ domain[id[p]] # "none"
      BY <2>1 DEF Reject, Refused, Known, Locking, WrapInv
  <2>3. domain[id[p]] # "implicit"
      BY <2>2 DEF AliveInv, LockInv, RefInv
  <2>4. domain[id[p]] # "explicit"
      BY <2>2 DEF ExplicitInv, CreatingInv, Creating, LockInv, Clean
  <2>5. QED
      BY <2>2, <2>3, <2>4
<1>2. QED
    BY <1>1, ExistsAlways, PTL DEF Spec, ExistingDomainIsUsed

-----------------------------------------------------------------------------
(* How a status reaches the application (StatusDelivery).                  *)
Phases == {"created", "mapped", "ready", "closing", "unmapped", "gone"}
CallbackRecords ==
    [at : {"idle", "called", "entered", "resolved"}, level : {0} \cup Levels,
     status : AllStatuses \cup {"none"}, n : Nat]

DeliveryTyped ==
    /\ line \in Lines /\ phase \in Phases
    /\ registered \in [Levels -> BOOLEAN] /\ noop \in [Levels -> BOOLEAN]
    /\ mask \in [Levels -> Masks] /\ hooks \in [Levels -> SUBSET AllStatuses]
    /\ owned \in BOOLEAN /\ mapped \in BOOLEAN /\ shut \in BOOLEAN
    /\ setter \in {0} \cup Levels
    /\ cb \in [Deliverers -> CallbackRecords]
    /\ unread \in [Counted -> Nat]
    /\ failure \in {"none", "no entry", "null source", "null listener", "not handled"}

Runs(dl) == cb[dl].at # "idle"

(* A status that the source raises, or data that is offered to a container.*)
RaisedBy(sort) ==
    CASE sort = "reader" -> ReaderStatuses
      [] sort = "writer" -> WriterStatuses
      [] sort = "topic" -> {"inconsistent_topic"}
Meant(k, s) ==
    /\ k \in Levels
    /\ \/ s \in RaisedBy(line[1]) /\ s # "data_on_readers"
       \/ s = "data_on_readers" /\ k # 1 /\ line[1] = "reader"

(* A container whose callback is called has a listener, unless the setter  *)
(* that has taken it away still waits for the callback.                    *)
Listens(k) == ~noop[k] /\ (registered[k] \/ setter = k)

CallbacksAreMeant ==
    \A dl \in Deliverers : Runs(dl) =>
        Meant(cb[dl].level, cb[dl].status) /\ (cb[dl].level # 1 => Listens(cb[dl].level))

ContainersAreHooked ==
    \A k \in Levels \ {1} :
        /\ mask[k] # {} => registered[k]
        /\ noop[k] => hooks[k] = {}
        /\ hooks[k] # {} => registered[k] \/ setter = k

(* The C layer asks nothing about an entity that is not in the map yet, and*)
(* none is left when it has been deleted.                                  *)
PhasesAreKept ==
    /\ mapped <=> phase \in {"mapped", "ready", "closing"}
    /\ phase = "gone" => \A dl \in Deliverers : ~Runs(dl)
    /\ phase = "created" /\ line[1] # "topic" =>
          noop[1] /\ \A dl \in Deliverers : Runs(dl) => cb[dl].status = "data_on_readers"

DeliveryInv ==
    DeliveryTyped /\ CallbacksAreMeant /\ ContainersAreHooked /\ PhasesAreKept

(* The chains of entities.                                                 *)
LEMMA Chain ==
    ASSUME line \in Lines
    PROVE  /\ 1 \in Levels /\ Levels \subseteq {1, 2, 3} /\ Len(line) + 1 \notin Levels
           /\ 0 \notin Levels
           /\ line[1] \in {"reader", "writer", "topic"}
           /\ \A k \in Levels \ {1} : \/ line[k] = "participant"
                                      \/ line[1] = "reader" /\ line[k] = "subscriber"
                                      \/ line[1] = "writer" /\ line[k] = "publisher"
<1>1. CASE line = <<"reader", "subscriber", "participant">>
  <2>1. Levels = 1 .. 3 /\ Len(line) = 3
    BY <1>1 DEF Levels
  <2> QED
    BY <1>1, <2>1
<1>2. CASE line = <<"writer", "publisher", "participant">>
  <2>1. Levels = 1 .. 3 /\ Len(line) = 3
    BY <1>2 DEF Levels
  <2> QED
    BY <1>2, <2>1
<1>3. CASE line = <<"topic", "participant">>
  <2>1. Levels = 1 .. 2 /\ Len(line) = 2
    BY <1>3 DEF Levels
  <2> QED
    BY <1>3, <2>1
<1> QED
  BY <1>1, <1>2, <1>3, LinesAssumption

(* Every class but the participant overrides the callbacks that are meant  *)
(* for it, and a participant does but for an inconsistent topic.           *)
LEMMA MeantIsHandled ==
    ASSUME line \in Lines, NEW k, NEW s, Meant(k, s)
    PROVE  \/ s \in Handles(line[k])
           \/ s = "inconsistent_topic" /\ line[k] = "participant"
<1>1. CASE k = 1
  <2>1. s \in RaisedBy(line[1])
    BY <1>1 DEF Meant
  <2> QED
    BY <1>1, <2>1, Chain DEF RaisedBy, Handles, ReaderHandles, WriterHandles, TopicHandles
<1>2. CASE k # 1
  <2>1. s \in RaisedBy(line[1]) \/ (s = "data_on_readers" /\ line[1] = "reader")
    BY DEF Meant
  <2>2. k \in Levels \ {1}
    BY <1>2 DEF Meant
  <2>3. CASE line[1] = "reader"
    <3>1. s \in ReaderStatuses \cup {"data_on_readers"}
      BY <2>1, <2>3 DEF RaisedBy
    <3>2. line[k] \in {"subscriber", "participant"}
      BY <2>2, <2>3, Chain
    <3> QED
      BY <3>1, <3>2 DEF Handles, SubscriberHandles, ParticipantHandles
  <2>4. CASE line[1] = "writer"
    <3>1. s \in WriterStatuses
      BY <2>1, <2>4 DEF RaisedBy
    <3>2. line[k] \in {"publisher", "participant"}
      BY <2>2, <2>4, Chain
    <3> QED
      BY <3>1, <3>2 DEF Handles, PublisherHandles, ParticipantHandles
  <2>5. CASE line[1] = "topic"
    BY <2>1, <2>2, <2>5, Chain DEF RaisedBy
  <2> QED
    BY <2>3, <2>4, <2>5, Chain
<1> QED
  BY <1>1, <1>2

(* The nearest entity that asks for a status.                              *)
LEMMA Nearest ==
    ASSUME line \in Lines, NEW s, NEW L \in SUBSET Levels
    PROVE  /\ NearestOf(s, L) \in Levels => NearestOf(s, L) \in L /\ Asks(NearestOf(s, L), s)
           /\ 1 \in L /\ Asks(1, s) => NearestOf(s, L) = 1
<1> DEFINE asked == {k \in L : Asks(k, s)}
<1>1. asked \subseteq {1, 2, 3}
  BY Chain
<1>2. CASE asked = {}
  <2>1. NearestOf(s, L) = Len(line) + 1
    BY <1>2 DEF NearestOf
  <2> QED
    BY <1>2, <2>1, Chain
<1>3. CASE asked # {}
  <2> DEFINE first(k) == k \in asked /\ \A j \in asked : k <= j
  <2>1. \E k : first(k)
    <3>1. CASE 1 \in asked
      BY <1>1, <3>1
    <3>2. CASE 1 \notin asked /\ 2 \in asked
      BY <1>1, <3>2
    <3>3. CASE 1 \notin asked /\ 2 \notin asked
      BY <1>1, <1>3, <3>3
    <3> QED
      BY <3>1, <3>2, <3>3
  <2>2. NearestOf(s, L) = CHOOSE k \in asked : \A j \in asked : k <= j
    BY <1>3 DEF NearestOf
  <2>3. first(NearestOf(s, L))
    BY <2>1, <2>2
  <2> DEFINE n == NearestOf(s, L)
  <2>4. n \in asked /\ \A j \in asked : n <= j
    BY <2>3
  <2>5. 1 \in asked => n = 1
    <3>1. n \in {1, 2, 3}
      BY <1>1, <2>4
    <3>2. 1 \in asked => n <= 1
      BY <2>4
    <3> HIDE DEF n, asked
    <3> QED
      BY <3>1, <3>2
  <2> QED
    BY <2>4, <2>5
<1> QED
  BY <1>2, <1>3

(* Whom the C layer calls.                                                 *)
LEMMA OfferIsMeant ==
    ASSUME DeliveryInv, NEW s \in Raises(line[1]), Offer(s).level \in Levels,
           ~noop[Offer(s).level]
    PROVE  /\ Meant(Offer(s).level, Offer(s).status)
           /\ Offer(s).level # 1 => Listens(Offer(s).level)
           /\ Offer(s).status \in AllStatuses
           /\ phase = "created" /\ line[1] # "topic" => Offer(s).status = "data_on_readers"
<1> DEFINE k == Offer(s).level
           inner == NearestOf("data_on_readers", Levels \ {1})
<1>1. line \in Lines /\ s \in RaisedBy(line[1]) /\ s \in AllStatuses /\ s # "data_on_readers"
  <2>1. line \in Lines
    BY DEF DeliveryInv, DeliveryTyped
  <2> QED
    BY <2>1, Chain, StatusesAssumption
       DEF Raises, RaisedBy, AllStatuses, ReaderStatuses, WriterStatuses
<1>2. CASE s = "data_available" /\ inner \in Levels
  <2>1. k = inner /\ Offer(s).status = "data_on_readers"
    BY <1>2 DEF Offer
  <2>2. inner \in Levels \ {1} /\ Asks(inner, "data_on_readers")
    BY <1>1, <1>2, Nearest
  <2>3. line[1] = "reader"
    BY <1>1, <1>2, Chain DEF RaisedBy, WriterStatuses
  <2>4. hooks[k] # {}
    BY <2>1, <2>2 DEF Asks
  <2> HIDE DEF inner
  <2>5. Listens(k)
    BY <2>1, <2>2, <2>4 DEF Listens, DeliveryInv, ContainersAreHooked
  <2> QED
    BY <2>1, <2>2, <2>3, <2>5 DEF Meant, AllStatuses
<1>3. CASE ~(s = "data_available" /\ inner \in Levels)
  <2>1. k = NearestOf(s, Levels) /\ Offer(s).status = s
    BY <1>3 DEF Offer
  <2>2. k \in Levels /\ Asks(k, s)
    BY <1>1, <2>1, Nearest
  <2>3. hooks[k] # {}
    BY <2>2 DEF Asks
  <2>4. k # 1 => Listens(k)
    BY <2>2, <2>3 DEF Listens, DeliveryInv, ContainersAreHooked
  <2>5. ~(phase = "created" /\ line[1] # "topic")
    <3> SUFFICES ASSUME noop[1] PROVE FALSE
      BY DEF DeliveryInv, PhasesAreKept
    <3>1. k = 1
      BY <1>1, <2>1, Nearest, Chain DEF Asks
    <3> QED
      BY <3>1
  <2> QED
    BY <1>1, <2>1, <2>2, <2>4, <2>5 DEF Meant
<1> QED
  BY <1>2, <1>3

-----------------------------------------------------------------------------
LEMMA DeliveryInvInit == ASSUME DeliveryInit PROVE DeliveryInv
<1>1. line \in Lines
  BY DEF DeliveryInit
<1>2. \A k \in Levels : mask[k] \in Masks /\ mask[k] \subseteq AllStatuses
  BY StatusesAssumption DEF DeliveryInit
<1>3. \A k \in Levels : hooks[k] = IF k > 1 /\ ~noop[k] THEN Callbacks(mask[k])
                                   ELSE CreatedListener(k, mask[k])
  BY DEF DeliveryInit
<1>4. \A k \in Levels \ {1} : hooks[k] = IF ~noop[k] THEN Callbacks(mask[k]) ELSE {}
  <2> SUFFICES ASSUME NEW k \in Levels \ {1}
               PROVE  hooks[k] = IF ~noop[k] THEN Callbacks(mask[k]) ELSE {}
    OBVIOUS
  <2>1. k > 1
    BY <1>1, Chain
  <2> QED
    BY <1>3, <2>1 DEF CreatedListener
<1>5. hooks \in [Levels -> SUBSET AllStatuses]
  BY <1>2 DEF DeliveryInit, Callbacks, CreatedListener
<1>6. cb \in [Deliverers -> CallbackRecords] /\ \A dl \in Deliverers : ~Runs(dl)
  BY DEF DeliveryInit, NoCallback, CallbackRecords, Runs
<1>7. DeliveryTyped
  BY <1>1, <1>2, <1>5, <1>6 DEF DeliveryInit, DeliveryTyped, Phases
<1>8. ContainersAreHooked
  BY <1>4 DEF ContainersAreHooked, Callbacks, DeliveryInit
<1>9. PhasesAreKept
  BY <1>1, <1>6, Chain DEF PhasesAreKept, DeliveryInit, CreatedNoop
<1> QED
  BY <1>6, <1>7, <1>8, <1>9 DEF DeliveryInv, CallbacksAreMeant

(* What depends on the chain only.                                         *)
LEMMA OfTheChain ==
    ASSUME UNCHANGED line
    PROVE  Levels' = Levels /\ CallbackRecords' = CallbackRecords
  BY DEF Levels, CallbackRecords

(* A callback that ends, or goes a step on its way.                        *)
LEMMA CallbackMoves ==
    ASSUME DeliveryInv, NEW dl \in Deliverers, NEW at \in {"entered", "resolved"}, Runs(dl),
           cb' = [cb EXCEPT ![dl] = NoCallback] \/ Move(dl, at)
    PROVE  /\ cb' \in [Deliverers -> CallbackRecords]
           /\ \A e \in Deliverers : Runs(e)' =>
                  Runs(e) /\ cb'[e].level = cb[e].level /\ cb'[e].status = cb[e].status
<1>1. cb \in [Deliverers -> CallbackRecords]
  BY DEF DeliveryInv, DeliveryTyped
<1>2. CASE cb' = [cb EXCEPT ![dl] = NoCallback]
  <2>1. NoCallback \in CallbackRecords /\ NoCallback.at = "idle"
    BY DEF NoCallback, CallbackRecords
  <2> QED
    BY <1>1, <1>2, <2>1 DEF Runs
<1>3. CASE Move(dl, at)
  <2> DEFINE r == cb[dl]
             q == [r EXCEPT !.at = at]
  <2>1. r \in CallbackRecords /\ r.at # "idle"
    BY <1>1 DEF Runs
  <2>2. cb' = [cb EXCEPT ![dl] = q]
    BY <1>3 DEF Move
  <2>3. q \in CallbackRecords /\ q.level = r.level /\ q.status = r.status
    <3> HIDE DEF r
    <3> QED
      BY <2>1 DEF CallbackRecords
  <2>4. cb'[dl] = q /\ \A e \in Deliverers \ {dl} : cb'[e] = cb[e]
    BY <1>1, <2>2
  <2>5. cb' \in [Deliverers -> CallbackRecords]
    <3> HIDE DEF q
    <3> QED
      BY <1>1, <2>2, <2>3
  <2>6. Runs(dl)
    OBVIOUS
  <2> HIDE DEF q
  <2> QED
    BY <2>3, <2>4, <2>5, <2>6 DEF Runs
<1> QED
  BY <1>2, <1>3

(* A step of a callback that runs, which changes nothing else that the     *)
(* invariant is about.                                                     *)
LEMMA CallbackStep ==
    ASSUME DeliveryInv, cb' \in [Deliverers -> CallbackRecords],
           \A e \in Deliverers : Runs(e)' =>
               Runs(e) /\ cb'[e].level = cb[e].level /\ cb'[e].status = cb[e].status,
           unread' \in [Counted -> Nat],
           failure' \in {"none", "no entry", "null source", "null listener", "not handled"},
           UNCHANGED <<sourceVars, listenerVars>>
    PROVE  DeliveryInv'
<1> USE DEF sourceVars, listenerVars
<1>1. DeliveryTyped'
  BY OfTheChain DEF DeliveryInv, DeliveryTyped
<1>2. CallbacksAreMeant'
  BY OfTheChain DEF DeliveryInv, CallbacksAreMeant, Meant, Listens
<1>3. ContainersAreHooked'
  BY OfTheChain DEF DeliveryInv, ContainersAreHooked
<1>4. PhasesAreKept'
  BY DEF DeliveryInv, PhasesAreKept
<1> QED
  BY <1>1, <1>2, <1>3, <1>4 DEF DeliveryInv

LEMMA EnterKeeps == ASSUME DeliveryInv, NEW dl \in Deliverers, Enter(dl) PROVE DeliveryInv'
<1>1. Runs(dl) /\ (cb' = [cb EXCEPT ![dl] = NoCallback] \/ Move(dl, "entered"))
  BY DEF Enter, Runs
<1> QED
  BY <1>1, CallbackMoves, CallbackStep DEF Enter, counterVars, DeliveryInv, DeliveryTyped

LEMMA FindsOrNot ==
    ASSUME NEW dl PROVE FindSource(dl) \in {"none", "null source", "no entry"}
  BY DEF FindSource, FoundByContainer

LEMMA ResolveKeeps == ASSUME DeliveryInv, NEW dl \in Deliverers, Resolve(dl) PROVE DeliveryInv'
<1>1. Runs(dl) /\ (cb' = [cb EXCEPT ![dl] = NoCallback] \/ Move(dl, "resolved"))
  BY DEF Resolve, Runs
<1>2. /\ failure' \in {"none", "no entry", "null source", "null listener", "not handled"}
      /\ UNCHANGED <<sourceVars, listenerVars, counterVars>>
  BY FindsOrNot DEF Resolve, DeliveryInv, DeliveryTyped
<1> QED
  BY <1>1, <1>2, CallbackMoves, CallbackStep DEF counterVars, DeliveryInv, DeliveryTyped

LEMMA DeliverKeeps == ASSUME DeliveryInv, NEW dl \in Deliverers, Deliver(dl) PROVE DeliveryInv'
<1>1. Runs(dl) /\ cb' = [cb EXCEPT ![dl] = NoCallback]
  BY DEF Deliver, Runs
<1>2. failure' \in {"none", "no entry", "null source", "null listener", "not handled"}
  BY DEF Deliver, DeliveryInv, DeliveryTyped
<1> QED
  BY <1>1, <1>2, CallbackMoves, CallbackStep DEF Deliver, DeliveryInv, DeliveryTyped

LEMMA RaiseKeeps ==
    ASSUME DeliveryInv, NEW dl \in Deliverers, NEW s \in AllStatuses, Raise(dl, s)
    PROVE  DeliveryInv'
<1> DEFINE k == Offer(s).level
           n == IF s \in Counted THEN unread[s] + 1 ELSE 0
           r == [at |-> "called", level |-> k, status |-> Offer(s).status, n |-> n]
<1> USE DEF sourceVars, listenerVars
<1>1. /\ phase # "gone" /\ s \in Raises(line[1]) /\ cb[dl] = NoCallback
      /\ UNCHANGED <<sourceVars, listenerVars, failure>>
  BY DEF Raise
<1>2. n \in Nat /\ unread' \in [Counted -> Nat]
  <2>1. unread \in [Counted -> Nat]
    BY DEF DeliveryInv, DeliveryTyped
  <2>2. n \in Nat
    BY <2>1
  <2>3. unread' = unread \/ (s \in Counted /\ \E m \in {0, n} : unread' = [unread EXCEPT ![s] = m])
    BY DEF Raise
  <2> HIDE DEF n
  <2> QED
    BY <2>1, <2>2, <2>3
<1>3. CASE UNCHANGED cb
  BY <1>1, <1>2, <1>3, CallbackStep DEF DeliveryInv, DeliveryTyped, Runs
<1>4. CASE k \in Levels /\ ~noop[k] /\ cb' = [cb EXCEPT ![dl] = r]
  <2>1. /\ Meant(k, Offer(s).status) /\ (k # 1 => Listens(k)) /\ Offer(s).status \in AllStatuses
        /\ phase = "created" /\ line[1] # "topic" => Offer(s).status = "data_on_readers"
    BY <1>1, <1>4, OfferIsMeant
  <2>2. r \in CallbackRecords /\ r.level = k /\ r.status = Offer(s).status
    <3> HIDE DEF k, n
    <3> QED
      BY <1>2, <1>4, <2>1 DEF CallbackRecords
  <2> HIDE DEF r, k
  <2>3. cb'[dl] = r /\ \A e \in Deliverers \ {dl} : cb'[e] = cb[e]
    BY <1>4 DEF DeliveryInv, DeliveryTyped
  <2>4. DeliveryTyped'
    BY <1>1, <1>2, <1>4, <2>2, OfTheChain DEF DeliveryInv, DeliveryTyped
  <2>5. CallbacksAreMeant'
    BY <1>1, <2>1, <2>2, <2>3, OfTheChain DEF DeliveryInv, CallbacksAreMeant, Meant, Listens, Runs
  <2>6. ContainersAreHooked'
    BY <1>1, OfTheChain DEF DeliveryInv, ContainersAreHooked
  <2>7. PhasesAreKept'
    BY <1>1, <2>1, <2>2, <2>3 DEF DeliveryInv, PhasesAreKept, Runs
  <2> QED
    BY <2>4, <2>5, <2>6, <2>7 DEF DeliveryInv
<1> QED
  BY <1>3, <1>4 DEF Raise

(* A step that leaves the callbacks, the chain and the statuses alone.     *)
LEMMA NoCallbackMoves ==
    ASSUME DeliveryInv, UNCHANGED <<line, cb, unread, failure>>,
           phase' \in Phases, setter' \in {0} \cup Levels,
           owned' \in BOOLEAN, shut' \in BOOLEAN, mapped' \in BOOLEAN,
           registered' \in [Levels -> BOOLEAN], noop' \in [Levels -> BOOLEAN],
           mask' \in [Levels -> Masks], hooks' \in [Levels -> SUBSET AllStatuses],
           PhasesAreKept',
           \A k \in Levels \ {1} :
               /\ mask'[k] # {} => registered'[k]
               /\ noop'[k] => hooks'[k] = {}
               /\ hooks'[k] # {} => registered'[k] \/ setter' = k,
           \A dl \in Deliverers : Runs(dl) /\ cb[dl].level # 1 /\ Listens(cb[dl].level) =>
               Listens(cb[dl].level)'
    PROVE  DeliveryInv'
<1>1. DeliveryTyped'
  BY OfTheChain DEF DeliveryInv, DeliveryTyped
<1>2. CallbacksAreMeant'
  BY OfTheChain DEF DeliveryInv, CallbacksAreMeant, Meant, Listens, Runs
<1>3. ContainersAreHooked'
  BY OfTheChain DEF ContainersAreHooked
<1> QED
  BY <1>1, <1>2, <1>3 DEF DeliveryInv

LEMMA SetListenerKeeps ==
    ASSUME DeliveryInv, NEW k \in Levels, NEW some \in BOOLEAN, NEW m \in Masks,
           SetListener(k, some, m)
    PROVE  DeliveryInv'
<1> USE DEF sourceVars, counterVars
<1>1. /\ setter = 0 /\ setter' = k /\ (m # {} => some)
      /\ registered' = [registered EXCEPT ![k] = some] /\ mask' = [mask EXCEPT ![k] = m]
      /\ UNCHANGED <<sourceVars, hooks, noop, cb, unread, failure>>
  BY DEF SetListener, ReadyToSet
<1>2. 0 \notin Levels
  BY Chain DEF DeliveryInv, DeliveryTyped
<1>3. PhasesAreKept'
  BY <1>1 DEF DeliveryInv, PhasesAreKept, Runs
<1>4. ASSUME NEW j \in Levels \ {1}
      PROVE  /\ mask'[j] # {} => registered'[j]
             /\ noop'[j] => hooks'[j] = {}
             /\ hooks'[j] # {} => registered'[j] \/ setter' = j
  BY <1>1, <1>2, <1>4 DEF DeliveryInv, DeliveryTyped, ContainersAreHooked
<1>5. ASSUME NEW j \in Levels, Listens(j) PROVE Listens(j)'
  BY <1>1, <1>2, <1>5 DEF DeliveryInv, DeliveryTyped, Listens
<1>6. \A dl \in Deliverers : Runs(dl) => cb[dl].level \in Levels
  BY DEF DeliveryInv, CallbacksAreMeant, Meant
<1>7. \A dl \in Deliverers : Runs(dl) /\ Listens(cb[dl].level) => Listens(cb[dl].level)'
  BY <1>1, <1>5, <1>6 DEF Listens
<1>8. /\ registered' \in [Levels -> BOOLEAN] /\ noop' \in [Levels -> BOOLEAN]
      /\ mask' \in [Levels -> Masks] /\ hooks' \in [Levels -> SUBSET AllStatuses]
      /\ phase' \in Phases /\ owned' \in BOOLEAN /\ shut' \in BOOLEAN /\ mapped' \in BOOLEAN
  BY <1>1 DEF DeliveryInv, DeliveryTyped
<1> QED
  BY <1>1, <1>3, <1>4, <1>7, <1>8, NoCallbackMoves

LEMMA InstallKeeps == ASSUME DeliveryInv, Install PROVE DeliveryInv'
<1> USE DEF sourceVars, counterVars
<1>1. /\ setter \in Levels /\ setter' = 0
      /\ UNCHANGED <<sourceVars, registered, mask, noop, cb, unread, failure>>
  BY DEF Install, DeliveryInv, DeliveryTyped
<1>2. \/ ~noop[setter] /\ (\A dl \in Deliverers : ~Runs(dl))
           /\ hooks' = [hooks EXCEPT ![setter] = Callbacks(mask[setter])]
      \/ noop[setter] /\ hooks' = hooks
  BY DEF Install, Enabled, Pending, Busy, Runs
<1>3. PhasesAreKept'
  BY <1>1 DEF DeliveryInv, PhasesAreKept, Runs
<1>4. ASSUME NEW j \in Levels \ {1}
      PROVE  /\ mask'[j] # {} => registered'[j]
             /\ noop'[j] => hooks'[j] = {}
             /\ hooks'[j] # {} => registered'[j]
  <2>1. /\ mask[j] # {} => registered[j]
        /\ noop[j] => hooks[j] = {}
        /\ hooks[j] # {} => registered[j] \/ setter = j
    BY DEF DeliveryInv, ContainersAreHooked
  <2>2. CASE j = setter
    BY <1>1, <1>2, <2>1, <2>2 DEF DeliveryInv, DeliveryTyped, Callbacks
  <2>3. CASE j # setter
    BY <1>1, <1>2, <2>1, <2>3 DEF DeliveryInv, DeliveryTyped
  <2> QED
    BY <2>2, <2>3
<1>5. \A dl \in Deliverers : Runs(dl) /\ Listens(cb[dl].level) => Listens(cb[dl].level)'
  BY <1>1, <1>2 DEF Listens
<1>6. hooks' \in [Levels -> SUBSET AllStatuses]
  <2>1. Callbacks(mask[setter]) \in SUBSET AllStatuses
    BY DEF Callbacks
  <2> QED
    BY <1>1, <1>2, <2>1 DEF DeliveryInv, DeliveryTyped
<1>7. /\ registered' \in [Levels -> BOOLEAN] /\ noop' \in [Levels -> BOOLEAN]
      /\ mask' \in [Levels -> Masks]
      /\ phase' \in Phases /\ owned' \in BOOLEAN /\ shut' \in BOOLEAN /\ mapped' \in BOOLEAN
  BY <1>1 DEF DeliveryInv, DeliveryTyped
<1> QED
  BY <1>1, <1>3, <1>4, <1>5, <1>6, <1>7, NoCallbackMoves

LEMMA EnableKeeps == ASSUME DeliveryInv, NEW k \in Levels, Enable(k) PROVE DeliveryInv'
<1> USE DEF counterVars
<1>1. /\ setter = 0 /\ \A dl \in Deliverers : ~Runs(dl)
      /\ noop' = [noop EXCEPT ![k] = FALSE]
      /\ hooks' = [hooks EXCEPT ![k] = Callbacks(mask[k])]
      /\ phase' = IF k = 1 THEN "ready" ELSE phase
      /\ phase = IF k = 1 THEN "mapped" ELSE "ready"
      /\ UNCHANGED <<line, owned, mapped, shut, registered, mask, setter, cb, unread, failure>>
  BY DEF Enable, Pending, Busy, Runs
<1>2. PhasesAreKept'
  BY <1>1 DEF DeliveryInv, PhasesAreKept, Runs
<1>3. ASSUME NEW j \in Levels \ {1}
      PROVE  /\ mask'[j] # {} => registered'[j]
             /\ noop'[j] => hooks'[j] = {}
             /\ hooks'[j] # {} => registered'[j] \/ setter' = j
  BY <1>1, <1>3 DEF DeliveryInv, DeliveryTyped, ContainersAreHooked, Callbacks
<1>4. hooks' \in [Levels -> SUBSET AllStatuses]
  <2>1. Callbacks(mask[k]) \in SUBSET AllStatuses
    BY DEF Callbacks
  <2> QED
    BY <1>1, <2>1 DEF DeliveryInv, DeliveryTyped
<1>5. /\ registered' \in [Levels -> BOOLEAN] /\ noop' \in [Levels -> BOOLEAN]
      /\ mask' \in [Levels -> Masks] /\ setter' \in {0} \cup Levels
      /\ phase' \in Phases /\ owned' \in BOOLEAN /\ shut' \in BOOLEAN /\ mapped' \in BOOLEAN
  BY <1>1 DEF DeliveryInv, DeliveryTyped, Phases
<1> QED
  BY <1>1, <1>2, <1>3, <1>4, <1>5, NoCallbackMoves

(* A step that changes the life of the source only.                        *)
LEMMA SourceMoves ==
    ASSUME DeliveryInv, UNCHANGED <<line, listenerVars, cb, counterVars, failure>>,
           phase' \in Phases, owned' \in BOOLEAN, shut' \in BOOLEAN, mapped' \in BOOLEAN,
           PhasesAreKept'
    PROVE  DeliveryInv'
<1> USE DEF counterVars, listenerVars
<1>1. \A j \in Levels \ {1} :
          /\ mask'[j] # {} => registered'[j]
          /\ noop'[j] => hooks'[j] = {}
          /\ hooks'[j] # {} => registered'[j] \/ setter' = j
  BY DEF DeliveryInv, ContainersAreHooked
<1>2. \A dl \in Deliverers : Listens(cb[dl].level) => Listens(cb[dl].level)'
  BY DEF Listens
<1>3. /\ registered' \in [Levels -> BOOLEAN] /\ noop' \in [Levels -> BOOLEAN]
      /\ mask' \in [Levels -> Masks] /\ hooks' \in [Levels -> SUBSET AllStatuses]
      /\ setter' \in {0} \cup Levels
  BY DEF DeliveryInv, DeliveryTyped
<1> QED
  BY <1>1, <1>2, <1>3, NoCallbackMoves

LEMMA LifeKeeps ==
    ASSUME DeliveryInv, EnterMap \/ LeaveMap \/ DeleteSource
    PROVE  DeliveryInv'
<1>1. CASE EnterMap
  <2>1. PhasesAreKept'
    BY <1>1 DEF EnterMap, PhasesAreKept
  <2> QED
    BY <1>1, <2>1, SourceMoves DEF EnterMap, Phases, DeliveryInv, DeliveryTyped
<1>2. CASE LeaveMap
  <2>1. PhasesAreKept'
    BY <1>2 DEF LeaveMap, PhasesAreKept
  <2> QED
    BY <1>2, <2>1, SourceMoves DEF LeaveMap, Phases, DeliveryInv, DeliveryTyped
<1>3. CASE DeleteSource
  <2>1. PhasesAreKept'
    BY <1>3 DEF DeleteSource, PhasesAreKept, DeliveryInv, Pending, Busy, Runs
  <2> QED
    BY <1>3, <2>1, SourceMoves DEF DeleteSource, Phases, DeliveryInv, DeliveryTyped
<1> QED
  BY <1>1, <1>2, <1>3

LEMMA BeginCloseKeeps ==
    ASSUME DeliveryInv, NEW gone \in BOOLEAN, BeginClose(gone) PROVE DeliveryInv'
<1> USE DEF counterVars
<1>1. /\ phase = "ready" /\ setter = 0 /\ setter' = 1 /\ phase' = "closing"
      /\ owned' = ~gone /\ shut' = (line[1] = "reader")
      /\ registered' = [registered EXCEPT ![1] = FALSE] /\ mask' = [mask EXCEPT ![1] = {}]
      /\ UNCHANGED <<line, mapped, hooks, noop, cb, unread, failure>>
  BY DEF BeginClose
<1>2. 0 \notin Levels /\ 1 \in Levels
  BY Chain DEF DeliveryInv, DeliveryTyped
<1>3. PhasesAreKept'
  BY <1>1 DEF DeliveryInv, PhasesAreKept
<1>4. ASSUME NEW j \in Levels \ {1}
      PROVE  /\ mask'[j] # {} => registered'[j]
             /\ noop'[j] => hooks'[j] = {}
             /\ hooks'[j] # {} => registered'[j] \/ setter' = j
  BY <1>1, <1>2 DEF DeliveryInv, DeliveryTyped, ContainersAreHooked
<1>5. \A dl \in Deliverers : Runs(dl) => cb[dl].level \in Levels
  BY DEF DeliveryInv, CallbacksAreMeant, Meant
<1>6. \A dl \in Deliverers : Runs(dl) /\ cb[dl].level # 1 /\ Listens(cb[dl].level) =>
          Listens(cb[dl].level)'
  BY <1>1, <1>2, <1>5 DEF Listens, DeliveryInv, DeliveryTyped
<1>7. /\ registered' \in [Levels -> BOOLEAN] /\ noop' \in [Levels -> BOOLEAN]
      /\ mask' \in [Levels -> Masks] /\ hooks' \in [Levels -> SUBSET AllStatuses]
      /\ setter' \in {0} \cup Levels
      /\ phase' \in Phases /\ owned' \in BOOLEAN /\ shut' \in BOOLEAN /\ mapped' \in BOOLEAN
  BY <1>1, <1>2, StatusesAssumption DEF DeliveryInv, DeliveryTyped, Phases
<1> QED
  BY <1>1, <1>3, <1>4, <1>6, <1>7, NoCallbackMoves

LEMMA GetKeeps ==
    ASSUME DeliveryInv, NEW s \in AllStatuses, GetStatus(s) \/ GetMatched(s)
    PROVE  DeliveryInv'
<1>1. /\ unread' = [unread EXCEPT ![s] = 0] /\ UNCHANGED <<sourceVars, listenerVars, cb, failure>>
  BY DEF GetStatus, GetMatched
<1> QED
  BY <1>1, CallbackStep DEF DeliveryInv, DeliveryTyped, Runs

LEMMA DeliveryInvNext == ASSUME DeliveryInv, [DeliveryNext]_deliveryVars PROVE DeliveryInv'
<1>1. CASE DeliveryNext
  <2>1. CASE \E dl \in Deliverers :
                 (\E s \in AllStatuses : Raise(dl, s)) \/ Enter(dl) \/ Resolve(dl) \/ Deliver(dl)
    BY <2>1, RaiseKeeps, EnterKeeps, ResolveKeeps, DeliverKeeps
  <2>2. CASE \E k \in Levels, some \in BOOLEAN, m \in Masks : SetListener(k, some, m)
    BY <2>2, SetListenerKeeps
  <2>3. CASE Install \/ EnterMap \/ (\E k \in Levels : Enable(k))
    BY <2>3, InstallKeeps, LifeKeeps, EnableKeeps
  <2>4. CASE \E s \in AllStatuses : GetStatus(s) \/ GetMatched(s)
    BY <2>4, GetKeeps
  <2>5. CASE (\E gone \in BOOLEAN : BeginClose(gone)) \/ LeaveMap \/ DeleteSource
    BY <2>5, BeginCloseKeeps, LifeKeeps
  <2> QED
    BY <1>1, <2>1, <2>2, <2>3, <2>4, <2>5 DEF DeliveryNext
<1>2. CASE UNCHANGED deliveryVars
  BY <1>2, CallbackStep DEF deliveryVars, sourceVars, listenerVars, DeliveryInv, DeliveryTyped, Runs
<1> QED
  BY <1>1, <1>2

(* The inductive invariant of the delivery of statuses.                    *)
THEOREM DeliveryInvariant == DeliverySpec => []DeliveryInv
  BY DeliveryInvInit, DeliveryInvNext, PTL DEF DeliverySpec

(* Every variable has its type.                                            *)
THEOREM DeliveryTypeCorrect == DeliverySpec => []DeliveryTypeOK
<1>1. DeliveryInv => DeliveryTypeOK
  BY DEF DeliveryInv, DeliveryTyped, DeliveryTypeOK, Phases, CallbackRecords
<1> QED
  BY <1>1, DeliveryInvariant, PTL

(* What can go wrong in a callback, and when.                              *)
LEMMA ResolveFails ==
    ASSUME DeliveryInv, NEW dl \in Deliverers, Resolve(dl), failure' # failure
    PROVE  \/ failure' = "no entry" /\ phase = "unmapped"
           \/ failure' = "null source" /\ (~owned \/ (line[1] = "topic" /\ phase = "created"))
           \/ /\ failure' = "not handled"
              /\ cb[dl].status = "inconsistent_topic" /\ line[cb[dl].level] = "participant"
<1>1. /\ Runs(dl) /\ Meant(cb[dl].level, cb[dl].status) /\ line \in Lines
      /\ phase \in Phases
  BY DEF Resolve, Runs, DeliveryInv, CallbacksAreMeant, DeliveryTyped
<1>2. CASE cb[dl].status \notin Handles(line[cb[dl].level])
  BY <1>1, <1>2, MeantIsHandled DEF Resolve
<1>3. CASE cb[dl].status \in Handles(line[cb[dl].level])
  <2>1. failure' = FindSource(dl) /\ FindSource(dl) # "none" /\ cb[dl].status # "data_on_readers"
    BY <1>3 DEF Resolve, FindSource
  <2>2. phase # "gone"
    BY <1>1 DEF DeliveryInv, PhasesAreKept
  <2>3. phase = "created" => line[1] = "topic"
    BY <1>1, <2>1 DEF DeliveryInv, PhasesAreKept
  <2>4. CASE cb[dl].level > 1
    <3>1. CASE ~mapped
      <4>1. phase = "created" \/ phase = "unmapped"
        BY <1>1, <2>2, <3>1 DEF DeliveryInv, PhasesAreKept, Phases
      <4>2. phase # "created"
        <5> SUFFICES ASSUME phase = "created" PROVE FALSE
          OBVIOUS
        <5>1. line[1] = "topic" /\ cb[dl].level \in Levels \ {1}
          BY <1>1, <2>3, <2>4 DEF Meant
        <5>2. line[cb[dl].level] = "participant" /\ cb[dl].status = "inconsistent_topic"
          BY <1>1, <5>1, Chain DEF Meant, RaisedBy
        <5> QED
          BY <1>3, <5>2
             DEF Handles, ParticipantHandles, ReaderStatuses, WriterStatuses
      <4> QED
        BY <2>1, <2>4, <3>1, <4>1, <4>2 DEF FindSource, FoundByContainer
    <3>2. CASE mapped
      BY <2>1, <2>4, <3>2 DEF FindSource, FoundByContainer
    <3> QED
      BY <3>1, <3>2
  <2>5. CASE ~(cb[dl].level > 1)
    BY <2>1, <2>3, <2>5 DEF FindSource
  <2> QED
    BY <2>4, <2>5
<1> QED
  BY <1>2, <1>3

(* A callback finds the entity it is about and the listener it is for, but *)
(* for the four cases that SourceIsFound names: for any number of callback *)
(* threads, any listeners and masks, and any number of changes.            *)
THEOREM SourceStaysFound == DeliverySpec => SourceIsFound
<1>1. ASSUME DeliveryInv, [DeliveryNext]_deliveryVars, failure' # failure
      PROVE  FailsForAReason
  <2>1. PICK dl \in Deliverers : Resolve(dl) \/ Deliver(dl)
    <3>1. DeliveryNext
      BY <1>1 DEF deliveryVars
    <3> QED
      BY <1>1, <3>1
         DEF DeliveryNext, Raise, Enter, SetListener, Install, EnterMap, Enable, GetStatus,
             GetMatched, BeginClose, LeaveMap, DeleteSource
  <2>2. CASE Resolve(dl)
    <3>1. dl \in Busy
      BY <2>2 DEF Resolve, Busy
    <3> QED
      BY <1>1, <2>2, <3>1, ResolveFails DEF FailsForAReason
  <2>3. CASE Deliver(dl)
    <3>1. Runs(dl) /\ cb[dl].level > 1 /\ ~registered[cb[dl].level] /\ failure' = "null listener"
      BY <1>1, <2>3 DEF Deliver, Runs
    <3>2. cb[dl].level \in Levels /\ 0 \notin Levels /\ cb[dl].level # 1
      <4>1. cb[dl].level \in Levels /\ line \in Lines
        BY <1>1, <3>1 DEF DeliveryInv, CallbacksAreMeant, DeliveryTyped, Meant
      <4>2. cb[dl].level \in {1, 2, 3} /\ 0 \notin Levels
        BY <4>1, Chain
      <4>3. \A k \in {1, 2, 3} : k > 1 => k # 1
        OBVIOUS
      <4> QED
        BY <3>1, <4>1, <4>2, <4>3
    <3>3. Listens(cb[dl].level)
      BY <1>1, <3>1, <3>2 DEF DeliveryInv, CallbacksAreMeant
    <3> QED
      BY <3>1, <3>2, <3>3 DEF Listens, FailsForAReason
  <2> QED
    BY <2>1, <2>2, <2>3
<1>2. DeliveryInv /\ [DeliveryNext]_deliveryVars =>
          [failure' # failure => FailsForAReason]_deliveryVars
  BY <1>1
<1> QED
  BY <1>2, DeliveryInvariant, PTL DEF DeliverySpec, SourceIsFound

-----------------------------------------------------------------------------
(***************************************************************************)
(* Policies, durations and times.                                          *)
(***************************************************************************)
(* The durations an application gives to policies have less than a second  *)
(* of nanoseconds, or are infinite; the defaults are among them. It is     *)
(* needed: the constructor also lets the reserved nanoseconds through with *)
(* any seconds, and check() compares the seconds first, so that a filter   *)
(* of 5 s and 0x7fffffff ns passes for shorter than a deadline of 6 s.     *)
ProperDurations ==
    /\ Zero \in SomeDurations /\ Infinite \in SomeDurations
    /\ \A v \in SomeDurations : v.nanosec < NS \/ v = Infinite

-----------------------------------------------------------------------------
(* The units of time are positive.                                        *)
LEMMA Units == NS \in Nat /\ NS > 0 /\ Reserved \in Nat /\ Reserved >= 2 * NS
<1>1. MS \in Nat /\ MS > 0
  BY UnitsAssumption
<1>2. MS * MS \in Nat /\ MS * MS > 0
  BY <1>1
<1>3. (MS * MS) * MS \in Nat /\ (MS * MS) * MS > 0
  BY <1>1, <1>2
<1> QED
  BY <1>3, UnitsAssumption DEF NS

(* Quotient and remainder of a sum of units.                              *)
LEMMA Division ==
    ASSUME NEW s \in Nat, NEW n \in Nat, NEW m \in Nat, n < m
    PROVE  (s * m + n) \div m = s /\ (s * m + n) % m = n
<1>1. s * m \in Nat
  OBVIOUS
<1>2. (s * m + n) = s * m + n /\ 0 <= n /\ n < m
  OBVIOUS
<1> QED
  BY <1>1, <1>2

(* A second more is a unit more.                                          *)
LEMMA LongerSeconds ==
    ASSUME NEW m \in Nat, NEW a \in Nat, NEW b \in Nat, a < b
    PROVE  a * m + m <= b * m
<1>1. PICK k \in Nat : b = a + 1 + k
  <2>1. b - a - 1 \in Nat /\ b = a + 1 + (b - a - 1)
    OBVIOUS
  <2> QED
    BY <2>1
<1>2. b * m = a * m + m + k * m
  BY <1>1
<1>3. k * m \in Nat
  OBVIOUS
<1> QED
  BY <1>2, <1>3

(* Seconds and nanoseconds come back from their sum.                      *)
LEMMA FiniteComesBack ==
    ASSUME NEW s \in Nat, NEW n \in Nat, s <= Reserved, n < NS
    PROVE  LET c == s * NS + n
           IN  /\ c \in Nat /\ c < CInfinity
               /\ FromC(c) = Returned([sec |-> s, nanosec |-> n])
               /\ FromC(c).value = [sec |-> s, nanosec |-> n]
<1> DEFINE c == s * NS + n
<1>1. c \in Nat /\ c \div NS = s /\ c % NS = n
  BY Units, Division
<1>2. c < CInfinity
  <2>1. s * NS <= Reserved * NS
    <3>1. CASE s = Reserved
      BY <3>1, Units
    <3>2. CASE s < Reserved
      BY <3>2, Units, LongerSeconds
    <3> QED
      BY <3>1, <3>2, Units
  <2>2. s * NS \in Nat /\ Reserved * NS \in Nat
    BY Units
  <2> QED
    BY <2>1, <2>2, Units DEF CInfinity
<1>3. Int32(s) = s
  BY Units DEF Int32
<1>4. SetSec(Zero, s) = Returned([sec |-> s, nanosec |-> 0])
  <2>1. [Zero EXCEPT !.sec = s] = [sec |-> s, nanosec |-> 0]
    BY DEF Zero
  <2> QED
    BY <2>1, <1>3 DEF SetSec
<1>5. SetNanosec([sec |-> s, nanosec |-> 0], n) = Returned([sec |-> s, nanosec |-> n])
  <2>1. [[sec |-> s, nanosec |-> 0] EXCEPT !.nanosec = n] = [sec |-> s, nanosec |-> n]
    OBVIOUS
  <2> QED
    BY <2>1, Units DEF SetNanosec
<1>6. ConstructDuration(s, n) = Returned([sec |-> s, nanosec |-> n])
  BY <1>4, <1>5 DEF ConstructDuration, Then, Returned
<1>7. FromC(c) = ConstructDuration(s, n)
  <2>1. CInfinity \in Nat
    BY Units DEF CInfinity
  <2>2. c # CInfinity
    BY <1>1, <1>2, <2>1
  <2> QED
    BY <2>2, <1>1 DEF FromC
<1> QED
  BY <1>1, <1>2, <1>6, <1>7 DEF Returned

(* A proper duration comes back from the C library as it was.              *)
LEMMA DurationComesBack ==
    ASSUME ProperDurations, NEW v \in SomeDurations
    PROVE  ToC(v) \in Nat /\ FromC(ToC(v)).value = v
<1>1. v \in [sec : 0 .. Reserved, nanosec : 0 .. Reserved]
  BY DurationsAssumption
<1>2. CASE v = Infinite
  <2>1. CInfinity \in Nat
    BY Units DEF CInfinity
  <2> QED
    BY <1>2, <2>1 DEF ToC, FromC, Returned
<1>3. CASE v # Infinite
  <2>1. PICK s \in Nat, n \in Nat :
            s <= Reserved /\ n < NS /\ v = [sec |-> s, nanosec |-> n]
    BY <1>1, <1>3, Units DEF ProperDurations
  <2>2. ToC(v) = s * NS + n
    BY <1>3, <2>1 DEF ToC, Total
  <2> QED
    BY <2>1, <2>2, FiniteComesBack
<1> QED
  BY <1>2, <1>3

(* check() compares durations as the C library would.                      *)
LEMMA LessIsLess ==
    ASSUME ProperDurations, NEW a \in SomeDurations, NEW b \in SomeDurations, ~Less(a, b)
    PROVE  ToC(b) <= ToC(a)
<1> DEFINE Finite(v, s, n) ==
               s <= Reserved /\ n < NS /\ v = [sec |-> s, nanosec |-> n] /\ ToC(v) = s * NS + n
<1>1. ASSUME NEW v \in SomeDurations, v # Infinite
      PROVE  /\ \E s \in Nat, n \in Nat : Finite(v, s, n)
             /\ ToC(v) \in Nat /\ ToC(v) < CInfinity
  <2>1. v \in [sec : 0 .. Reserved, nanosec : 0 .. Reserved]
    BY DurationsAssumption
  <2>2. PICK s \in Nat, n \in Nat :
            s <= Reserved /\ n < NS /\ v = [sec |-> s, nanosec |-> n]
    BY <1>1, <2>1, Units DEF ProperDurations
  <2>3. ToC(v) = s * NS + n
    BY <1>1, <2>2 DEF ToC, Total
  <2> QED
    BY <2>2, <2>3, FiniteComesBack
<1>2. CInfinity \in Nat /\ ToC(Infinite) = CInfinity
  BY Units DEF CInfinity, ToC
<1>3. CASE b = Infinite
  <2>1. a \in [sec : 0 .. Reserved, nanosec : 0 .. Reserved]
    BY DurationsAssumption
  <2>2. a.sec = Reserved /\ a.nanosec = Reserved
    BY <1>3, <2>1, Units DEF Less, Infinite
  <2>3. a = Infinite
    BY <2>1, <2>2 DEF Infinite
  <2> QED
    BY <1>2, <1>3, <2>3
<1>4. CASE b # Infinite /\ a = Infinite
  BY <1>1, <1>2, <1>4
<1>5. CASE b # Infinite /\ a # Infinite
  <2>1. PICK s \in Nat, n \in Nat : Finite(a, s, n)
    BY <1>1, <1>5
  <2>2. PICK r \in Nat, k \in Nat : Finite(b, r, k)
    BY <1>1, <1>5
  <2>3. ~(s < r) /\ ~(s = r /\ n < k)
    BY <2>1, <2>2 DEF Less
  <2>4. r * NS \in Nat /\ s * NS \in Nat
    BY Units
  <2>5. CASE s = r
    <3>1. k <= n
      BY <2>3, <2>5
    <3> QED
      BY <3>1, <2>1, <2>2, <2>4, <2>5
  <2>6. CASE r < s
    <3>1. r * NS + NS <= s * NS
      BY <2>6, Units, LongerSeconds
    <3>2. ToC(b) = r * NS + k /\ ToC(a) = s * NS + n /\ k < NS
      BY <2>1, <2>2
    <3> QED
      BY <3>1, <3>2, <2>4, Units
  <2> QED
    BY <2>3, <2>5, <2>6
<1> QED
  BY <1>3, <1>4, <1>5

-----------------------------------------------------------------------------
(* What set_c_policy() writes, set_iso_policy() reads back as it was.      *)
Faithful(P) == \A v \in P.values : P.toC[v] # Nothing => P.fromC[P.toC[v]] = v

(* A new object has a value that check() does not refuse.                  *)
StartsWell(P) == P.start \in P.values /\ P.start \notin P.refused

(* The policies, by what they consist of.                                 *)
LEMMA OneDurationFaithful ==
    ASSUME ProperDurations, NEW flag, NEW first \in SomeDurations
    PROVE  Faithful(OneDuration(flag, first)) /\ StartsWell(OneDuration(flag, first))
<1> DEFINE P == OneDuration(flag, first)
<1>1. P.values = SomeDurations /\ P.start = first /\ P.refused = {} /\ P.fromC = DurationOf
      /\ P.toC = [v \in SomeDurations |-> <<ToC(v)>>]
  BY DEF OneDuration
<1> HIDE DEF P
<1>2. ASSUME NEW v \in SomeDurations
      PROVE  P.fromC[P.toC[v]] = v
  <2>1. <<ToC(v)>> \in {<<ToC(w)>> : w \in SomeDurations}
    OBVIOUS
  <2>2. DurationOf[<<ToC(v)>>] = FromC(<<ToC(v)>>[1]).value
    BY <2>1 DEF DurationOf
  <2>3. DurationOf[<<ToC(v)>>] = v
    BY <2>2, DurationComesBack
  <2> QED
    BY <1>1, <2>3
<1> QED
  BY <1>1, <1>2 DEF Faithful, StartsWell, P

LEMMA OneKindFaithful ==
    ASSUME NEW flag, NEW toC, NEW fromC, NEW first \in DOMAIN toC,
           \A v \in DOMAIN toC : toC[v] \in DOMAIN fromC /\ fromC[toC[v]] = v
    PROVE  Faithful(OneKind(flag, first, toC, fromC)) /\ StartsWell(OneKind(flag, first, toC, fromC))
<1> DEFINE P == OneKind(flag, first, toC, fromC)
<1>1. P.values = DOMAIN toC /\ P.start = first /\ P.refused = {}
      /\ P.toC = [v \in DOMAIN toC |-> <<toC[v]>>]
      /\ P.fromC = [c \in {<<k>> : k \in DOMAIN fromC} |-> fromC[c[1]]]
  BY DEF OneKind
<1> HIDE DEF P
<1>2. ASSUME NEW v \in DOMAIN toC
      PROVE  P.fromC[P.toC[v]] = v
  <2>1. <<toC[v]>> \in {<<k>> : k \in DOMAIN fromC}
    OBVIOUS
  <2>2. P.fromC[<<toC[v]>>] = fromC[<<toC[v]>>[1]]
    BY <1>1, <2>1
  <2> QED
    BY <1>1, <2>2
<1> QED
  BY <1>1, <1>2 DEF Faithful, StartsWell, P

LEMMA OneScalarFaithful ==
    ASSUME NEW flag, NEW vs, NEW first \in vs
    PROVE  Faithful(OneScalar(flag, first, vs)) /\ StartsWell(OneScalar(flag, first, vs))
<1> DEFINE P == OneScalar(flag, first, vs)
<1>1. P.values = vs /\ P.start = first /\ P.refused = {}
      /\ P.toC = [v \in vs |-> <<v>>] /\ P.fromC = [c \in {<<v>> : v \in vs} |-> c[1]]
  BY DEF OneScalar
<1> HIDE DEF P
<1>2. ASSUME NEW v \in vs
      PROVE  P.fromC[P.toC[v]] = v
  <2>1. <<v>> \in {<<w>> : w \in vs}
    OBVIOUS
  <2>2. P.fromC[<<v>>] = <<v>>[1]
    BY <1>1, <2>1
  <2> QED
    BY <1>1, <2>2
<1> QED
  BY <1>1, <1>2 DEF Faithful, StartsWell, P

LEMMA OneListFaithful ==
    ASSUME NEW flag
    PROVE  Faithful(OneList(flag)) /\ StartsWell(OneList(flag))
<1> DEFINE P == OneList(flag)
<1>1. P.values = SomeLists /\ P.start = << >> /\ P.refused = {}
      /\ P.toC = [v \in SomeLists |-> Written(v)]
      /\ P.fromC = [c \in {<<v>> : v \in SomeLists} |-> c[1]]
  BY DEF OneList
<1> HIDE DEF P
<1>2. ASSUME NEW v \in SomeLists, P.toC[v] # Nothing
      PROVE  P.fromC[P.toC[v]] = v
  <2>1. P.toC[v] = <<v>>
    BY <1>1, <1>2 DEF Written
  <2>2. <<v>> \in {<<w>> : w \in SomeLists}
    OBVIOUS
  <2>3. P.fromC[<<v>>] = <<v>>[1]
    BY <1>1, <2>2
  <2> QED
    BY <2>1, <2>3
<1> QED
  BY <1>1, <1>2, ListsAssumption DEF Faithful, StartsWell, P

LEMMA NamedFaithful ==
    ASSUME NEW flag
    PROVE  Faithful(Named(flag)) /\ StartsWell(Named(flag))
<1> DEFINE P == Named(flag)
           Maps == [{"name"} -> [value : {"value", "other"}, propagate : BOOLEAN]] \cup {<< >>}
<1>1. P.values = Maps /\ P.start = << >> /\ P.refused = {}
      /\ P.toC = [v \in Maps |-> Written(v)]
      /\ P.fromC = [c \in {<<v>> : v \in Maps} |-> c[1]]
  BY DEF Named
<1>2. << >> \in Maps
  OBVIOUS
<1> HIDE DEF P, Maps
<1>3. ASSUME NEW v \in Maps, P.toC[v] # Nothing
      PROVE  P.fromC[P.toC[v]] = v
  <2>1. P.toC[v] = <<v>>
    BY <1>1, <1>3 DEF Written
  <2>2. <<v>> \in {<<w>> : w \in Maps}
    OBVIOUS
  <2>3. P.fromC[<<v>>] = <<v>>[1]
    BY <1>1, <2>2
  <2> QED
    BY <2>1, <2>3
<1> QED
  BY <1>1, <1>2, <1>3 DEF Faithful, StartsWell, P

(* The policies of one kind: the two switches are inverse.                *)
LEMMA DestinationOrderFaithful == Faithful(DestinationOrder) /\ StartsWell(DestinationOrder)
<1> DEFINE toC == [BY_RECEPTION_TIMESTAMP |-> "DDS_DESTINATIONORDER_BY_RECEPTION_TIMESTAMP",
                      BY_SOURCE_TIMESTAMP |-> "DDS_DESTINATIONORDER_BY_SOURCE_TIMESTAMP"]
           fromC == [DDS_DESTINATIONORDER_BY_RECEPTION_TIMESTAMP |-> "BY_RECEPTION_TIMESTAMP",
                        DDS_DESTINATIONORDER_BY_SOURCE_TIMESTAMP |-> "BY_SOURCE_TIMESTAMP"]
<1>1. /\ "BY_RECEPTION_TIMESTAMP" \in DOMAIN toC
      /\ \A v \in DOMAIN toC : toC[v] \in DOMAIN fromC /\ fromC[toC[v]] = v
  OBVIOUS
<1> QED
  BY <1>1, OneKindFaithful DEF DestinationOrder

LEMMA DurabilityFaithful == Faithful(Durability) /\ StartsWell(Durability)
<1> DEFINE toC == [VOLATILE |-> "DDS_DURABILITY_VOLATILE",
                      TRANSIENT_LOCAL |-> "DDS_DURABILITY_TRANSIENT_LOCAL",
                      TRANSIENT |-> "DDS_DURABILITY_TRANSIENT",
                      PERSISTENT |-> "DDS_DURABILITY_PERSISTENT"]
           fromC == [DDS_DURABILITY_VOLATILE |-> "VOLATILE",
                        DDS_DURABILITY_TRANSIENT |-> "TRANSIENT",
                        DDS_DURABILITY_TRANSIENT_LOCAL |-> "TRANSIENT_LOCAL",
                        DDS_DURABILITY_PERSISTENT |-> "PERSISTENT"]
<1>1. /\ "VOLATILE" \in DOMAIN toC
      /\ \A v \in DOMAIN toC : toC[v] \in DOMAIN fromC /\ fromC[toC[v]] = v
  OBVIOUS
<1> QED
  BY <1>1, OneKindFaithful DEF Durability

LEMMA OwnershipFaithful == Faithful(Ownership) /\ StartsWell(Ownership)
<1> DEFINE toC == [SHARED |-> "DDS_OWNERSHIP_SHARED",
                      EXCLUSIVE |-> "DDS_OWNERSHIP_EXCLUSIVE"]
           fromC == [DDS_OWNERSHIP_SHARED |-> "SHARED",
                        DDS_OWNERSHIP_EXCLUSIVE |-> "EXCLUSIVE"]
<1>1. /\ "SHARED" \in DOMAIN toC
      /\ \A v \in DOMAIN toC : toC[v] \in DOMAIN fromC /\ fromC[toC[v]] = v
  OBVIOUS
<1> QED
  BY <1>1, OneKindFaithful DEF Ownership

LEMMA IgnoreLocalFaithful == Faithful(IgnoreLocal) /\ StartsWell(IgnoreLocal)
<1> DEFINE toC == [NONE |-> "DDS_IGNORELOCAL_NONE",
                      PARTICIPANT |-> "DDS_IGNORELOCAL_PARTICIPANT",
                      PROCESS |-> "DDS_IGNORELOCAL_PROCESS"]
           fromC == [DDS_IGNORELOCAL_NONE |-> "NONE",
                        DDS_IGNORELOCAL_PARTICIPANT |-> "PARTICIPANT",
                        DDS_IGNORELOCAL_PROCESS |-> "PROCESS"]
<1>1. /\ "NONE" \in DOMAIN toC
      /\ \A v \in DOMAIN toC : toC[v] \in DOMAIN fromC /\ fromC[toC[v]] = v
  OBVIOUS
<1> QED
  BY <1>1, OneKindFaithful DEF IgnoreLocal

(* The policies of several members, and those with conversions of their own. *)
LEMMA ReaderDataLifecycleFaithful ==
    ASSUME ProperDurations
    PROVE  Faithful(ReaderDataLifecycle) /\ StartsWell(ReaderDataLifecycle)
<1> DEFINE P == ReaderDataLifecycle
           Delays == [nowriter : SomeDurations, disposed : {Infinite, Zero}]
           CDelays == {<<ToC(v.nowriter), ToC(v.disposed)>> : v \in Delays}
<1>1. /\ P.values = Delays /\ P.refused = {}
      /\ P.start = [nowriter |-> Infinite, disposed |-> Infinite]
      /\ P.toC = [v \in Delays |-> <<ToC(v.nowriter), ToC(v.disposed)>>]
      /\ P.fromC = [c \in CDelays |->
                       [nowriter |-> FromC(c[1]).value, disposed |-> FromC(c[2]).value]]
  BY DEF ReaderDataLifecycle
<1>2. P.start \in Delays
  BY <1>1 DEF ProperDurations
<1>3. ASSUME NEW v \in Delays
      PROVE  P.fromC[P.toC[v]] = v
  <2> DEFINE c == <<ToC(v.nowriter), ToC(v.disposed)>>
  <2>1. c \in CDelays
    OBVIOUS
  <2>2. v.nowriter \in SomeDurations /\ v.disposed \in SomeDurations
        /\ v = [nowriter |-> v.nowriter, disposed |-> v.disposed]
    BY DEF ProperDurations
  <2>3. FromC(c[1]).value = v.nowriter /\ FromC(c[2]).value = v.disposed
    BY <2>2, DurationComesBack
  <2>4. P.fromC[c] = [nowriter |-> FromC(c[1]).value, disposed |-> FromC(c[2]).value]
    <3> HIDE DEF P, c, CDelays
    <3> QED
      BY <1>1, <2>1
  <2>5. P.toC[v] = c
    <3> HIDE DEF P, Delays, CDelays
    <3> QED
      BY <1>1
  <2> QED
    BY <2>2, <2>3, <2>4, <2>5
<1> HIDE DEF P, Delays, CDelays
<1>4. P.values = Delays /\ P.refused = {}
  BY <1>1
<1>5. Faithful(P)
  BY <1>3, <1>4 DEF Faithful
<1>6. StartsWell(P)
  BY <1>2, <1>4 DEF StartsWell
<1> QED
  BY <1>5, <1>6 DEF P

LEMMA EntityFactoryFaithful == Faithful(EntityFactory) /\ StartsWell(EntityFactory)
BY DEF EntityFactory, Faithful, StartsWell

LEMMA PSMXInstancesFaithful == Faithful(PSMXInstances) /\ StartsWell(PSMXInstances)
<1> DEFINE P == PSMXInstances
<1>1. /\ P.values = SomeLists /\ P.start = << >>
      /\ P.refused = {v \in SomeLists : Len(v) > MaxInstances}
      /\ P.toC = [v \in SomeLists |-> <<v>>]
      /\ P.fromC = [c \in {<<v>> : v \in SomeLists} |-> c[1]]
  BY DEF PSMXInstances, OneList
<1> HIDE DEF P
<1>2. ASSUME NEW v \in SomeLists
      PROVE  P.fromC[P.toC[v]] = v
  <2>1. <<v>> \in {<<w>> : w \in SomeLists}
    OBVIOUS
  <2>2. P.fromC[<<v>>] = <<v>>[1]
    BY <1>1, <2>1
  <2> QED
    BY <1>1, <2>2
<1>3. << >> \notin P.refused
  <2>1. Len(<< >>) = 0
    OBVIOUS
  <2> QED
    BY <1>1, <2>1, InstancesAssumption
<1> QED
  BY <1>1, <1>2, <1>3, ListsAssumption DEF Faithful, StartsWell, P

LEMMA HistoryFaithful == Faithful(History) /\ StartsWell(History)
<1> DEFINE P == History
           Histories == [kind : DOMAIN CHistory, depth : 0 .. 2]
           CHistories == {<<CHistory[v.kind], v.depth>> : v \in Histories}
<1>1. /\ P.values = Histories /\ P.refused = {v \in Histories : NoHistory(v)}
      /\ P.start = [kind |-> "KEEP_LAST", depth |-> 1]
      /\ P.toC = [v \in Histories |-> <<CHistory[v.kind], v.depth>>]
      /\ P.fromC = [c \in CHistories |-> [kind |-> IsoHistory[c[1]], depth |-> c[2]]]
  BY DEF History
<1>2. P.start \in Histories /\ P.start \notin P.refused
  BY <1>1 DEF CHistory, NoHistory
<1>3. ASSUME NEW v \in Histories
      PROVE  P.fromC[P.toC[v]] = v
  <2> DEFINE c == <<CHistory[v.kind], v.depth>>
  <2>1. c \in CHistories
    OBVIOUS
  <2>2. v = [kind |-> v.kind, depth |-> v.depth] /\ v.kind \in DOMAIN CHistory
    OBVIOUS
  <2>3. IsoHistory[c[1]] = v.kind /\ c[2] = v.depth
    BY <2>2 DEF IsoHistory, CHistory
  <2>4. P.fromC[c] = [kind |-> IsoHistory[c[1]], depth |-> c[2]]
    <3> HIDE DEF P, c, CHistories
    <3> QED
      BY <1>1, <2>1
  <2>5. P.toC[v] = c
    <3> HIDE DEF P, Histories, CHistories
    <3> QED
      BY <1>1
  <2> QED
    BY <2>2, <2>3, <2>4, <2>5
<1> HIDE DEF P, Histories, CHistories
<1>4. P.values = Histories
  BY <1>1
<1>5. Faithful(P)
  BY <1>3, <1>4 DEF Faithful
<1>6. StartsWell(P)
  BY <1>2, <1>4 DEF StartsWell
<1> QED
  BY <1>5, <1>6 DEF P

LEMMA ResourceLimitsFaithful == Faithful(ResourceLimits) /\ StartsWell(ResourceLimits)
<1> DEFINE P == ResourceLimits
           Limit == {Unlimited, 0, 1}
           Limits == {v \in [max_samples : Limit, max_instances : Limit,
                             max_samples_per_instance : Limit] : v.max_samples = v.max_instances}
<1>1. /\ P.values = Limits /\ P.refused = {v \in Limits : NoLimit(v)}
      /\ P.start = [max_samples |-> Unlimited, max_instances |-> Unlimited,
                    max_samples_per_instance |-> Unlimited]
      /\ P.toC = [v \in Limits |-> <<v.max_samples, v.max_instances, v.max_samples_per_instance>>]
      /\ P.fromC = [c \in Limit \X Limit \X Limit |->
                       [max_samples |-> c[1], max_instances |-> c[2],
                        max_samples_per_instance |-> c[3]]]
  BY DEF ResourceLimits
<1>2. P.start \in Limits /\ P.start \notin P.refused
  <2>1. P.start \in Limits
    BY <1>1
  <2>2. ~NoLimit(P.start)
    BY <1>1 DEF NoLimit, Unlimited
  <2> QED
    BY <1>1, <2>1, <2>2
<1>3. ASSUME NEW v \in Limits
      PROVE  P.fromC[P.toC[v]] = v
  <2> DEFINE c == <<v.max_samples, v.max_instances, v.max_samples_per_instance>>
  <2>1. c \in Limit \X Limit \X Limit
    OBVIOUS
  <2>2. v = [max_samples |-> c[1], max_instances |-> c[2], max_samples_per_instance |-> c[3]]
    OBVIOUS
  <2>4. P.fromC[c] = [max_samples |-> c[1], max_instances |-> c[2],
                      max_samples_per_instance |-> c[3]]
    <3> HIDE DEF P, c, Limit
    <3> QED
      BY <1>1, <2>1
  <2>5. P.toC[v] = c
    <3> HIDE DEF P, Limits, Limit
    <3> QED
      BY <1>1
  <2> QED
    BY <2>2, <2>4, <2>5
<1> HIDE DEF P, Limits, Limit
<1>4. P.values = Limits
  BY <1>1
<1>5. Faithful(P)
  BY <1>3, <1>4 DEF Faithful
<1>6. StartsWell(P)
  BY <1>2, <1>4 DEF StartsWell
<1> QED
  BY <1>5, <1>6 DEF P

LEMMA DurabilityServiceFaithful ==
    ASSUME ProperDurations
    PROVE  Faithful(DurabilityService) /\ StartsWell(DurabilityService)
<1> DEFINE P == DurabilityService
           Services == [delay : {Zero, Infinite}, kind : DOMAIN CHistory, depth : 0 .. 1,
                        max_samples_per_instance : {Unlimited, -2, 0}]
           CServices == {0, CInfinity} \X (DOMAIN IsoHistory) \X (0 .. 1) \X {Unlimited, -2, 0}
<1>1. /\ P.values = Services
      /\ P.refused \subseteq {v \in Services :
                               \/ v.max_samples_per_instance # Unlimited
                               \/ NoHistory(v)}
      /\ P.start = [delay |-> Zero, kind |-> "KEEP_LAST", depth |-> 1,
                    max_samples_per_instance |-> Unlimited]
      /\ P.toC = [v \in Services |->
                     <<ToC(v.delay), CHistory[v.kind], v.depth, v.max_samples_per_instance>>]
      /\ P.fromC = [c \in CServices |->
                       [delay |-> FromC(c[1]).value, kind |-> IsoHistory[c[2]], depth |-> c[3],
                        max_samples_per_instance |-> c[4]]]
  BY DEF DurabilityService
<1>2. P.start \in Services /\ P.start \notin P.refused
  <2>1. P.start \in Services
    BY <1>1 DEF CHistory
  <2>2. ~NoHistory(P.start) /\ P.start.max_samples_per_instance = Unlimited
    BY <1>1 DEF NoHistory
  <2> HIDE DEF P
  <2> QED
    BY <1>1, <2>1, <2>2
<1>3. ASSUME NEW v \in Services
      PROVE  P.fromC[P.toC[v]] = v
  <2> DEFINE c == <<ToC(v.delay), CHistory[v.kind], v.depth, v.max_samples_per_instance>>
  <2>1. c \in CServices
    <3>1. ToC(Zero) = 0 /\ ToC(Infinite) = CInfinity
      BY Units DEF ToC, Total, Zero, Infinite
    <3>2. ToC(v.delay) \in {0, CInfinity}
      BY <3>1
    <3>3. CHistory[v.kind] \in DOMAIN IsoHistory
      BY DEF CHistory, IsoHistory
    <3>4. v.depth \in 0 .. 1 /\ v.max_samples_per_instance \in {Unlimited, -2, 0}
      OBVIOUS
    <3> QED
      BY <3>2, <3>3, <3>4
  <2>2. /\ v = [delay |-> v.delay, kind |-> v.kind, depth |-> v.depth,
                max_samples_per_instance |-> v.max_samples_per_instance]
        /\ v.delay \in SomeDurations /\ v.kind \in DOMAIN CHistory
    BY DEF ProperDurations
  <2>3. /\ FromC(c[1]).value = v.delay /\ IsoHistory[c[2]] = v.kind
        /\ c[3] = v.depth /\ c[4] = v.max_samples_per_instance
    BY <2>2, DurationComesBack DEF CHistory, IsoHistory
  <2>4. P.fromC[c] = [delay |-> FromC(c[1]).value, kind |-> IsoHistory[c[2]], depth |-> c[3],
                      max_samples_per_instance |-> c[4]]
    <3> HIDE DEF P, c, CServices
    <3> QED
      BY <1>1, <2>1
  <2>5. P.toC[v] = c
    <3> HIDE DEF P, Services, CServices
    <3> QED
      BY <1>1
  <2> QED
    BY <2>2, <2>3, <2>4, <2>5
<1> HIDE DEF P, Services, CServices
<1>4. P.values = Services
  BY <1>1
<1>5. Faithful(P)
  BY <1>3, <1>4 DEF Faithful
<1>6. StartsWell(P)
  BY <1>2, <1>4 DEF StartsWell
<1> QED
  BY <1>5, <1>6 DEF P

LEMMA LivelinessFaithful ==
    ASSUME ProperDurations
    PROVE  Faithful(Liveliness) /\ StartsWell(Liveliness)
<1> DEFINE P == Liveliness
           CKind == [AUTOMATIC |-> "DDS_LIVELINESS_AUTOMATIC",
                     MANUAL_BY_PARTICIPANT |-> "DDS_LIVELINESS_MANUAL_BY_PARTICIPANT",
                     MANUAL_BY_TOPIC |-> "DDS_LIVELINESS_MANUAL_BY_TOPIC"]
           IsoKind == [DDS_LIVELINESS_AUTOMATIC |-> "AUTOMATIC",
                       DDS_LIVELINESS_MANUAL_BY_PARTICIPANT |-> "MANUAL_BY_PARTICIPANT",
                       DDS_LIVELINESS_MANUAL_BY_TOPIC |-> "MANUAL_BY_TOPIC"]
           Lease == [kind : DOMAIN CKind, lease_duration : SomeDurations]
           CLease == {<<CKind[v.kind], ToC(v.lease_duration)>> : v \in Lease}
<1>1. /\ P.values = Lease /\ P.refused = {}
      /\ P.start = [kind |-> "AUTOMATIC", lease_duration |-> Infinite]
      /\ P.toC = [v \in Lease |-> <<CKind[v.kind], ToC(v.lease_duration)>>]
      /\ P.fromC = [c \in CLease |->
                       [kind |-> IsoKind[c[1]], lease_duration |-> FromC(c[2]).value]]
  BY DEF Liveliness
<1>2. P.start \in Lease
  BY <1>1 DEF ProperDurations
<1>3. ASSUME NEW v \in Lease
      PROVE  P.fromC[P.toC[v]] = v
  <2> DEFINE c == <<CKind[v.kind], ToC(v.lease_duration)>>
  <2>1. c \in CLease
    OBVIOUS
  <2>2. /\ v = [kind |-> v.kind, lease_duration |-> v.lease_duration]
        /\ v.kind \in DOMAIN CKind /\ v.lease_duration \in SomeDurations
    OBVIOUS
  <2>3. IsoKind[c[1]] = v.kind
    BY <2>2
  <2>4. FromC(c[2]).value = v.lease_duration
    BY <2>2, DurationComesBack
  <2>5. P.fromC[c] = [kind |-> IsoKind[c[1]], lease_duration |-> FromC(c[2]).value]
    <3> HIDE DEF P, c, CLease, IsoKind
    <3> QED
      BY <1>1, <2>1
  <2>6. P.toC[v] = c
    <3> HIDE DEF P, Lease, CLease, CKind
    <3> QED
      BY <1>1
  <2> QED
    BY <2>2, <2>3, <2>4, <2>5, <2>6
<1> HIDE DEF P, Lease, CLease
<1>4. P.values = Lease /\ P.refused = {}
  BY <1>1
<1>5. Faithful(P)
  BY <1>3, <1>4 DEF Faithful
<1>6. StartsWell(P)
  BY <1>2, <1>4 DEF StartsWell
<1> QED
  BY <1>5, <1>6 DEF P

LEMMA ReliabilityFaithful ==
    ASSUME ProperDurations
    PROVE  Faithful(Reliability) /\ StartsWell(Reliability)
<1> DEFINE P == Reliability
           CKind == [BEST_EFFORT |-> "DDS_RELIABILITY_BEST_EFFORT",
                     RELIABLE |-> "DDS_RELIABILITY_RELIABLE"]
           IsoKind == [DDS_RELIABILITY_RELIABLE |-> "RELIABLE",
                       DDS_RELIABILITY_BEST_EFFORT |-> "BEST_EFFORT"]
           Blockings == [kind : DOMAIN CKind, max_blocking_time : SomeDurations]
           CBlocking == {<<CKind[v.kind], ToC(v.max_blocking_time)>> : v \in Blockings}
<1>1. /\ P.values = Blockings /\ P.refused = {}
      /\ P.start = [kind |-> "BEST_EFFORT", max_blocking_time |-> Zero]
      /\ P.toC = [v \in Blockings |-> <<CKind[v.kind], ToC(v.max_blocking_time)>>]
      /\ P.fromC = [c \in CBlocking |->
                       [kind |-> IsoKind[c[1]], max_blocking_time |-> FromC(c[2]).value]]
  BY DEF Reliability
<1>2. P.start \in Blockings
  BY <1>1 DEF ProperDurations
<1>3. ASSUME NEW v \in Blockings
      PROVE  P.fromC[P.toC[v]] = v
  <2> DEFINE c == <<CKind[v.kind], ToC(v.max_blocking_time)>>
  <2>1. c \in CBlocking
    OBVIOUS
  <2>2. /\ v = [kind |-> v.kind, max_blocking_time |-> v.max_blocking_time]
        /\ v.kind \in DOMAIN CKind /\ v.max_blocking_time \in SomeDurations
    OBVIOUS
  <2>3. IsoKind[c[1]] = v.kind
    BY <2>2
  <2>4. FromC(c[2]).value = v.max_blocking_time
    BY <2>2, DurationComesBack
  <2>5. P.fromC[c] = [kind |-> IsoKind[c[1]], max_blocking_time |-> FromC(c[2]).value]
    <3> HIDE DEF P, c, CBlocking, IsoKind
    <3> QED
      BY <1>1, <2>1
  <2>6. P.toC[v] = c
    <3> HIDE DEF P, Blockings, CBlocking, CKind
    <3> QED
      BY <1>1
  <2> QED
    BY <2>2, <2>3, <2>4, <2>5, <2>6
<1> HIDE DEF P, Blockings, CBlocking
<1>4. P.values = Blockings /\ P.refused = {}
  BY <1>1
<1>5. Faithful(P)
  BY <1>3, <1>4 DEF Faithful
<1>6. StartsWell(P)
  BY <1>2, <1>4 DEF StartsWell
<1> QED
  BY <1>5, <1>6 DEF P

LEMMA TypeConsistencyEnforcementFaithful ==
    Faithful(TypeConsistencyEnforcement) /\ StartsWell(TypeConsistencyEnforcement)
<1> DEFINE P == TypeConsistencyEnforcement
           CKind == [DISALLOW_TYPE_COERCION |-> "DDS_TYPE_CONSISTENCY_DISALLOW_TYPE_COERCION",
                     ALLOW_TYPE_COERCION |-> "DDS_TYPE_CONSISTENCY_ALLOW_TYPE_COERCION"]
           IsoKind == [DDS_TYPE_CONSISTENCY_DISALLOW_TYPE_COERCION |-> "DISALLOW_TYPE_COERCION",
                       DDS_TYPE_CONSISTENCY_ALLOW_TYPE_COERCION |-> "ALLOW_TYPE_COERCION"]
           Rules == [kind : DOMAIN CKind, ignore : BOOLEAN, force : BOOLEAN]
           CRules == {<<CKind[v.kind], v.ignore, v.force>> : v \in Rules}
<1>1. /\ P.values = Rules /\ P.refused = {}
      /\ P.start = [kind |-> "ALLOW_TYPE_COERCION", ignore |-> TRUE, force |-> FALSE]
      /\ P.toC = [v \in Rules |-> <<CKind[v.kind], v.ignore, v.force>>]
      /\ P.fromC = [c \in CRules |->
                       [kind |-> IsoKind[c[1]], ignore |-> c[2], force |-> c[3]]]
  BY DEF TypeConsistencyEnforcement
<1>2. P.start \in Rules
  BY <1>1
<1>3. ASSUME NEW v \in Rules
      PROVE  P.fromC[P.toC[v]] = v
  <2> DEFINE c == <<CKind[v.kind], v.ignore, v.force>>
  <2>1. c \in CRules
    OBVIOUS
  <2>2. /\ v = [kind |-> v.kind, ignore |-> v.ignore, force |-> v.force]
        /\ v.kind \in DOMAIN CKind
    OBVIOUS
  <2>3. IsoKind[c[1]] = v.kind
    BY <2>2
  <2>4. c[2] = v.ignore /\ c[3] = v.force
    OBVIOUS
  <2>5. P.fromC[c] = [kind |-> IsoKind[c[1]], ignore |-> c[2], force |-> c[3]]
    <3> HIDE DEF P, c, CRules, IsoKind
    <3> QED
      BY <1>1, <2>1
  <2>6. P.toC[v] = c
    <3> HIDE DEF P, Rules, CRules, CKind
    <3> QED
      BY <1>1
  <2> QED
    BY <2>2, <2>3, <2>4, <2>5, <2>6
<1> HIDE DEF P, Rules, CRules
<1>4. P.values = Rules /\ P.refused = {}
  BY <1>1
<1>5. Faithful(P)
  BY <1>3, <1>4 DEF Faithful
<1>6. StartsWell(P)
  BY <1>2, <1>4 DEF StartsWell
<1> QED
  BY <1>5, <1>6 DEF P

LEMMA PresentationFaithful == Faithful(Presentation) /\ StartsWell(Presentation)
<1> DEFINE P == Presentation
           CScope(k) == CASE k = "INSTANCE" -> "DDS_PRESENTATION_INSTANCE"
                          [] k = "TOPIC" -> "DDS_PRESENTATION_TOPIC"
                          [] k = "GROUP" -> "DDS_PRESENTATION_GROUP"
           IsoScope == [DDS_PRESENTATION_INSTANCE |-> "INSTANCE",
                        DDS_PRESENTATION_TOPIC |-> "TOPIC",
                        DDS_PRESENTATION_GROUP |-> "GROUP"]
           Accesses == [scope : {"INSTANCE", "TOPIC", "GROUP"}, coherent : BOOLEAN,
                        ordered : BOOLEAN]
           CAccesses == {<<CScope(v.scope), v.coherent, v.ordered>> : v \in Accesses}
<1>1. /\ P.values = Accesses
      /\ P.refused = {v \in Accesses : v.scope \in {"TOPIC", "GROUP"} /\ v.ordered}
      /\ P.start = [scope |-> "INSTANCE", coherent |-> FALSE, ordered |-> FALSE]
      /\ P.toC = [v \in Accesses |-> <<CScope(v.scope), v.coherent, v.ordered>>]
      /\ P.fromC = [c \in CAccesses |->
                       [scope |-> IsoScope[c[1]], coherent |-> c[2], ordered |-> c[3]]]
  BY DEF Presentation
<1>2. P.start \in Accesses /\ P.start \notin P.refused
  BY <1>1
<1>3. ASSUME NEW v \in Accesses
      PROVE  P.fromC[P.toC[v]] = v
  <2> DEFINE c == <<CScope(v.scope), v.coherent, v.ordered>>
  <2>1. c \in CAccesses
    OBVIOUS
  <2>2. /\ v = [scope |-> v.scope, coherent |-> v.coherent, ordered |-> v.ordered]
        /\ v.scope \in {"INSTANCE", "TOPIC", "GROUP"}
    OBVIOUS
  <2>3. IsoScope[c[1]] = v.scope
    BY <2>2
  <2>4. c[2] = v.coherent /\ c[3] = v.ordered
    OBVIOUS
  <2>5. P.fromC[c] = [scope |-> IsoScope[c[1]], coherent |-> c[2], ordered |-> c[3]]
    <3> HIDE DEF P, c, CAccesses, IsoScope
    <3> QED
      BY <1>1, <2>1
  <2>6. P.toC[v] = c
    <3> HIDE DEF P, Accesses, CAccesses, CScope
    <3> QED
      BY <1>1
  <2> QED
    BY <2>2, <2>3, <2>4, <2>5, <2>6
<1> HIDE DEF P, Accesses, CAccesses
<1>4. P.values = Accesses
  BY <1>1
<1>5. Faithful(P)
  BY <1>3, <1>4 DEF Faithful
<1>6. StartsWell(P)
  BY <1>2, <1>4 DEF StartsWell
<1> QED
  BY <1>5, <1>6 DEF P

(* The table of the policies, by name.                                    *)
LEMMA PolicyTable ==
    /\ Policy["Deadline"] = Deadline
    /\ Policy["LatencyBudget"] = LatencyBudget
    /\ Policy["Lifespan"] = Lifespan
    /\ Policy["TimeBasedFilter"] = TimeBasedFilter
    /\ Policy["ReaderDataLifecycle"] = ReaderDataLifecycle
    /\ Policy["DestinationOrder"] = DestinationOrder
    /\ Policy["Durability"] = Durability
    /\ Policy["Ownership"] = Ownership
    /\ Policy["IgnoreLocal"] = IgnoreLocal
    /\ Policy["TransportPriority"] = TransportPriority
    /\ Policy["OwnershipStrength"] = OwnershipStrength
    /\ Policy["WriterDataLifecycle"] = WriterDataLifecycle
    /\ Policy["WriterBatching"] = WriterBatching
    /\ Policy["EntityName"] = EntityName
    /\ Policy["EntityFactory"] = EntityFactory
    /\ Policy["UserData"] = UserData
    /\ Policy["TopicData"] = TopicData
    /\ Policy["GroupData"] = GroupData
    /\ Policy["Partition"] = Partition
    /\ Policy["DataRepresentation"] = DataRepresentation
    /\ Policy["PSMXInstances"] = PSMXInstances
    /\ Policy["Property"] = Property
    /\ Policy["BinaryProperty"] = BinaryProperty
    /\ Policy["History"] = History
    /\ Policy["ResourceLimits"] = ResourceLimits
    /\ Policy["DurabilityService"] = DurabilityService
    /\ Policy["Liveliness"] = Liveliness
    /\ Policy["Reliability"] = Reliability
    /\ Policy["Presentation"] = Presentation
    /\ Policy["TypeConsistencyEnforcement"] = TypeConsistencyEnforcement
    /\ Policies = {"Deadline", "LatencyBudget", "Lifespan", "TimeBasedFilter",
                    "ReaderDataLifecycle", "DestinationOrder", "Durability", "Ownership",
                    "IgnoreLocal", "TransportPriority", "OwnershipStrength",
                    "WriterDataLifecycle", "WriterBatching", "EntityName", "EntityFactory",
                    "UserData", "TopicData", "GroupData", "Partition", "DataRepresentation",
                    "PSMXInstances", "Property", "BinaryProperty", "History", "ResourceLimits",
                    "DurabilityService", "Liveliness", "Reliability", "Presentation",
                    "TypeConsistencyEnforcement"}
BY DEF Policy, Policies

(* The policies of one duration, number, flag or list.                    *)
LEMMA SinglePolicies ==
    ASSUME ProperDurations
    PROVE  \A p \in {"Deadline", "LatencyBudget", "Lifespan", "TimeBasedFilter", "TransportPriority",
                    "OwnershipStrength", "WriterDataLifecycle", "WriterBatching", "EntityName",
                    "UserData", "TopicData", "GroupData", "Partition", "DataRepresentation",
                    "Property", "BinaryProperty"} :
               Faithful(Policy[p]) /\ StartsWell(Policy[p])
<1>1. Zero \in SomeDurations /\ Infinite \in SomeDurations
  BY DEF ProperDurations
<1>2. Faithful(Deadline) /\ StartsWell(Deadline)
  BY <1>1, OneDurationFaithful DEF Deadline
<1>3. Faithful(LatencyBudget) /\ StartsWell(LatencyBudget)
  BY <1>1, OneDurationFaithful DEF LatencyBudget
<1>4. Faithful(Lifespan) /\ StartsWell(Lifespan)
  BY <1>1, OneDurationFaithful DEF Lifespan
<1>5. Faithful(TimeBasedFilter) /\ StartsWell(TimeBasedFilter)
  BY <1>1, OneDurationFaithful DEF TimeBasedFilter
<1>6. 0 \in {0, -1, 1} /\ TRUE \in BOOLEAN /\ FALSE \in BOOLEAN /\ "" \in {"", "name"}
  OBVIOUS
<1>7. /\ Faithful(TransportPriority) /\ StartsWell(TransportPriority)
      /\ Faithful(OwnershipStrength) /\ StartsWell(OwnershipStrength)
  BY <1>6, OneScalarFaithful DEF TransportPriority, OwnershipStrength
<1>8. /\ Faithful(WriterDataLifecycle) /\ StartsWell(WriterDataLifecycle)
      /\ Faithful(WriterBatching) /\ StartsWell(WriterBatching)
  BY <1>6, OneScalarFaithful DEF WriterDataLifecycle, WriterBatching
<1>9. Faithful(EntityName) /\ StartsWell(EntityName)
  BY <1>6, OneScalarFaithful DEF EntityName
<1>10. /\ Faithful(UserData) /\ StartsWell(UserData)
       /\ Faithful(TopicData) /\ StartsWell(TopicData)
       /\ Faithful(GroupData) /\ StartsWell(GroupData)
       /\ Faithful(Partition) /\ StartsWell(Partition)
       /\ Faithful(DataRepresentation) /\ StartsWell(DataRepresentation)
  BY OneListFaithful DEF UserData, TopicData, GroupData, Partition, DataRepresentation
<1>11. /\ Faithful(Property) /\ StartsWell(Property)
       /\ Faithful(BinaryProperty) /\ StartsWell(BinaryProperty)
  BY NamedFaithful DEF Property, BinaryProperty
<1> QED
  BY <1>2, <1>3, <1>4, <1>5, <1>7, <1>8, <1>9, <1>10, <1>11, PolicyTable

(* Every policy is faithful, and starts with a value it takes.             *)
LEMMA PoliciesFaithful ==
    ASSUME ProperDurations, NEW p \in Policies
    PROVE  Faithful(Policy[p]) /\ StartsWell(Policy[p])
BY PolicyTable, SinglePolicies, ReaderDataLifecycleFaithful, DestinationOrderFaithful,
   DurabilityFaithful, OwnershipFaithful, IgnoreLocalFaithful, EntityFactoryFaithful,
   PSMXInstancesFaithful, HistoryFaithful, ResourceLimitsFaithful, DurabilityServiceFaithful,
   LivelinessFaithful, ReliabilityFaithful, PresentationFaithful,
   TypeConsistencyEnforcementFaithful

(* The kinds of entities, and their policies.                             *)
LEMMA KindsOfEntities ==
    /\ Kinds = {"reader", "writer", "topic", "publisher", "subscriber", "participant"}
    /\ \A k \in Kinds : PoliciesOf[k] \subseteq Policies /\ "absent" \notin PoliciesOf[k]
<1>1. Kinds = {"reader", "writer", "topic", "publisher", "subscriber", "participant"}
  BY DEF Kinds, PoliciesOf
<1>2. /\ PoliciesOf["reader"] = DataReaderQos /\ PoliciesOf["writer"] = DataWriterQos
      /\ PoliciesOf["topic"] = TopicQos /\ PoliciesOf["publisher"] = PublisherQos
      /\ PoliciesOf["subscriber"] = SubscriberQos
      /\ PoliciesOf["participant"] = DomainParticipantQos
  BY DEF PoliciesOf
<1>3. DataReaderQos \subseteq Policies /\ "absent" \notin DataReaderQos
  BY PolicyTable DEF DataReaderQos
<1>4. DataWriterQos \subseteq Policies /\ "absent" \notin DataWriterQos
  BY PolicyTable DEF DataWriterQos
<1>5. TopicQos \subseteq Policies /\ "absent" \notin TopicQos
  BY PolicyTable DEF TopicQos
<1>6. /\ PublisherQos \subseteq Policies /\ "absent" \notin PublisherQos
      /\ SubscriberQos \subseteq Policies /\ "absent" \notin SubscriberQos
      /\ DomainParticipantQos \subseteq Policies /\ "absent" \notin DomainParticipantQos
  BY PolicyTable DEF PublisherQos, SubscriberQos, DomainParticipantQos
<1> QED
  BY <1>1, <1>2, <1>3, <1>4, <1>5, <1>6

-----------------------------------------------------------------------------
(***************************************************************************)
(* The calls on a qos object keep it one.                                  *)
(***************************************************************************)
Bits(k) == {Policy[p].bit : p \in PoliciesOf[k]}
Values == UNION {Policy[p].values : p \in Policies}

(* A qos object of kind k, with the flags it is constructed with.          *)
QosObject(k, q) ==
    /\ q \in [present : SUBSET Bits(k), value : [PoliciesOf[k] -> Values], byRef : SUBSET PoliciesOf[k]]
    /\ \A p \in PoliciesOf[k] : q.value[p] \in Policy[p].values
    /\ DefaultFlags(k) \ {"DATA_REPRESENTATION"} \subseteq q.present

(* No refused value, unless by reference.                                  *)
Honest(k, q) == \A p \in PoliciesOf[k] : q.value[p] \in Policy[p].refused => p \in q.byRef

(* The C library has no default that check() refuses.                     *)
LEMMA DefaultValues ==
    ASSUME ProperDurations, NEW k \in Kinds, NEW p \in PoliciesOf[k]
    PROVE  /\ DefaultValue(k)[p] \in Policy[p].values
           /\ DefaultValue(k)[p] \notin Policy[p].refused
<1>1. p \in Policies
  BY KindsOfEntities
<1>2. CASE k = "writer" /\ p = "Reliability"
  <2>1. Reliability.values = [kind : {"BEST_EFFORT", "RELIABLE"}, max_blocking_time : SomeDurations]
        /\ Reliability.refused = {}
    BY DEF Reliability
  <2>2. DefaultValue(k)[p] = [kind |-> "RELIABLE", max_blocking_time |-> SomeBlocking]
    BY <1>2 DEF DefaultValue
  <2> QED
    BY <2>1, <2>2, <1>2, PolicyTable, BlockingAssumption
<1>3. CASE ~(k = "writer" /\ p = "Reliability")
  <2>1. DefaultValue(k)[p] = Policy[p].start
    BY <1>3 DEF DefaultValue
  <2> QED
    BY <2>1, <1>1, PoliciesFaithful DEF StartsWell
<1> QED
  BY <1>2, <1>3

(* The constructor makes a qos object.                                    *)
LEMMA DefaultIsQos ==
    ASSUME ProperDurations, NEW k \in Kinds
    PROVE  QosObject(k, Default(k)) /\ Honest(k, Default(k))
<1> DEFINE q == Default(k)
<1>1. /\ q.present = DefaultFlags(k) \ {"DATA_REPRESENTATION"} /\ q.value = DefaultValue(k)
      /\ q.byRef = {} /\ q = [present |-> q.present, value |-> q.value, byRef |-> q.byRef]
  BY DEF Default
<1>2. q.present \subseteq Bits(k)
  BY <1>1 DEF DefaultFlags, Bits
<1>3. \A p \in PoliciesOf[k] : q.value[p] \in Policy[p].values /\ q.value[p] \notin Policy[p].refused
  BY <1>1, DefaultValues
<1>4. q.value = [p \in PoliciesOf[k] |-> q.value[p]]
  BY <1>1 DEF DefaultValue
<1>5. q.value \in [PoliciesOf[k] -> Values]
  <2>1. \A p \in PoliciesOf[k] : q.value[p] \in Values
    BY <1>3, KindsOfEntities DEF Values
  <2> QED
    BY <1>4, <2>1
<1> HIDE DEF q
<1> QED
  BY <1>1, <1>2, <1>3, <1>5 DEF QosObject, Honest, q

(* A setter, or the reference, leaves a qos object with the new value.     *)
LEMMA EditIsQos ==
    ASSUME NEW k \in Kinds, NEW q, QosObject(k, q), NEW p \in PoliciesOf[k],
           NEW v \in Policy[p].values
    PROVE  /\ QosObject(k, EditReference(q, p, v)) /\ QosObject(k, Set(q, p, v))
           /\ Honest(k, q) => Honest(k, EditReference(q, p, v)) /\ Honest(k, Set(q, p, v))
<1> DEFINE vs == [q.value EXCEPT ![p] = v]
           ps == q.present \cup {Policy[p].bit}
<1>1. /\ q = [present |-> q.present, value |-> q.value, byRef |-> q.byRef]
      /\ q.present \subseteq Bits(k) /\ q.value \in [PoliciesOf[k] -> Values]
      /\ q.byRef \subseteq PoliciesOf[k]
      /\ \A r \in PoliciesOf[k] : q.value[r] \in Policy[r].values
      /\ DefaultFlags(k) \ {"DATA_REPRESENTATION"} \subseteq q.present
  BY DEF QosObject
<1>2. EditReference(q, p, v) = [present |-> ps, value |-> vs, byRef |-> q.byRef \cup {p}]
  BY <1>1 DEF EditReference
<1>3. Set(q, p, v) = IF v \in Policy[p].refused THEN q
                     ELSE [present |-> ps, value |-> vs, byRef |-> q.byRef \ {p}]
  BY <1>1 DEF Set
<1>4. /\ \A r \in PoliciesOf[k] : vs[r] = IF r = p THEN v ELSE q.value[r]
      /\ vs = [r \in PoliciesOf[k] |-> vs[r]]
  BY <1>1
<1>5. vs \in [PoliciesOf[k] -> Values]
  <2>1. v \in Values
    BY KindsOfEntities DEF Values
  <2> QED
    BY <2>1, <1>1
<1>6. Policy[p].bit \in Bits(k)
  BY DEF Bits
<1> HIDE DEF vs, ps
<1>7. ps \subseteq Bits(k) /\ q.present \subseteq ps
  BY <1>1, <1>6 DEF ps
<1>8. ASSUME NEW refs \in SUBSET PoliciesOf[k]
      PROVE  QosObject(k, [present |-> ps, value |-> vs, byRef |-> refs])
  <2>1. \A r \in PoliciesOf[k] : vs[r] \in Policy[r].values
    BY <1>1, <1>4
  <2> QED
    BY <2>1, <1>1, <1>5, <1>7 DEF QosObject
<1>9. QosObject(k, EditReference(q, p, v)) /\ QosObject(k, Set(q, p, v))
  BY <1>1, <1>2, <1>3, <1>8
<1>10. ASSUME Honest(k, q)
       PROVE  Honest(k, EditReference(q, p, v)) /\ Honest(k, Set(q, p, v))
  <2>1. Honest(k, EditReference(q, p, v))
    BY <1>2, <1>4, <1>10 DEF Honest
  <2>2. CASE v \in Policy[p].refused
    BY <2>1, <2>2, <1>3, <1>10
  <2>3. CASE v \notin Policy[p].refused
    <3>1. Set(q, p, v) = [present |-> ps, value |-> vs, byRef |-> q.byRef \ {p}]
      BY <2>3, <1>3
    <3> QED
      BY <3>1, <2>1, <2>3, <1>4, <1>10 DEF Honest
  <2> QED
    BY <2>1, <2>2, <2>3
<1> QED
  BY <1>9, <1>10

(* What is converted comes back, and defaults stand for the rest.          *)
LEMMA ReadIsQos ==
    ASSUME ProperDurations, NEW k \in Kinds, NEW c,
           \A p \in PoliciesOf[k] : c[p] # Nothing =>
               \E v \in Policy[p].values : v \notin Policy[p].refused /\ c[p] = Policy[p].toC[v]
    PROVE  LET q == Read(k, Default(k), c)
           IN  /\ QosObject(k, q) /\ Honest(k, q) /\ q.present = Default(k).present /\ q.byRef = {}
               /\ \A p \in PoliciesOf[k] :
                      /\ c[p] = Nothing => q.value[p] = DefaultValue(k)[p]
                      /\ c[p] # Nothing => /\ Policy[p].toC[q.value[p]] = c[p]
                                          /\ \A v \in Policy[p].values :
                                                 c[p] = Policy[p].toC[v] => q.value[p] = v
<1> DEFINE qos == Default(k)
           vs == [p \in PoliciesOf[k] |->
                     IF c[p] = Nothing THEN qos.value[p] ELSE Policy[p].fromC[c[p]]]
           q == Read(k, qos, c)
<1>1. /\ qos = [present |-> qos.present, value |-> DefaultValue(k), byRef |-> {}]
      /\ qos.value = DefaultValue(k)
  BY DEF Default
<1>2. QosObject(k, qos)
  BY DefaultIsQos
<1>3. q = [present |-> qos.present, value |-> vs, byRef |-> {}]
  <2> HIDE DEF qos, vs
  <2> DEFINE a == qos.present
             w == DefaultValue(k)
  <2>1. qos = [present |-> a, value |-> w, byRef |-> {}]
    BY <1>1
  <2> HIDE DEF a, w
  <2>2. [qos EXCEPT !.value = vs] = [present |-> a, value |-> vs, byRef |-> {}]
    BY <2>1
  <2> QED
    BY <2>2 DEF Read, vs, a
<1>4. ASSUME NEW p \in PoliciesOf[k], NEW v \in Policy[p].values, c[p] # Nothing,
             c[p] = Policy[p].toC[v]
      PROVE  vs[p] = v
  <2>1. vs[p] = Policy[p].fromC[c[p]]
    BY <1>4
  <2>2. Policy[p].fromC[Policy[p].toC[v]] = v
    BY <1>4, KindsOfEntities, PoliciesFaithful DEF Faithful
  <2> QED
    BY <2>1, <2>2, <1>4
<1>5. \A p \in PoliciesOf[k] : c[p] = Nothing => vs[p] = DefaultValue(k)[p]
  BY <1>1
<1> HIDE DEF qos, vs, q
<1>6. \A p \in PoliciesOf[k] : vs[p] \in Policy[p].values /\ vs[p] \notin Policy[p].refused
  BY <1>4, <1>5, DefaultValues
<1>7. vs \in [PoliciesOf[k] -> Values]
  <2>1. \A p \in PoliciesOf[k] : vs[p] \in Values
    BY <1>6, KindsOfEntities DEF Values
  <2> QED
    BY <2>1 DEF vs
<1>8. QosObject(k, q) /\ Honest(k, q)
  <2>1. qos.present \subseteq Bits(k) /\ DefaultFlags(k) \ {"DATA_REPRESENTATION"} \subseteq qos.present
    BY <1>2 DEF QosObject
  <2> QED
    BY <2>1, <1>3, <1>6, <1>7 DEF QosObject, Honest
<1> QED
  BY <1>3, <1>4, <1>5, <1>8 DEF q, qos

(* A profile was converted from a qos with no refused value.               *)
LEMMA ProfileIsQos ==
    ASSUME ProperDurations, NEW k \in Kinds, NEW c, DOMAIN c = PoliciesOf[k],
           \A p \in PoliciesOf[k] : c[p] # Nothing =>
               \E v \in Policy[p].values : v \notin Policy[p].refused /\ c[p] = Policy[p].toC[v]
    PROVE  LET q == FromProfile(k, c)
           IN  QosObject(k, q) /\ Honest(k, q)
<1> DEFINE r == Read(k, Default(k), c)
           q == FromProfile(k, c)
<1>1. QosObject(k, r) /\ Honest(k, r)
  BY ReadIsQos
<1>2. FlagsOf(c) \subseteq Bits(k)
  BY DEF FlagsOf, Bits
<1>3. q = [r EXCEPT !.present = @ \cup FlagsOf(c)]
  BY DEF FromProfile
<1> HIDE DEF r, q
<1>4. r = [present |-> r.present, value |-> r.value, byRef |-> r.byRef]
  BY <1>1 DEF QosObject
<1>5. q = [present |-> r.present \cup FlagsOf(c), value |-> r.value, byRef |-> r.byRef]
  BY <1>3, <1>4
<1>6. QosObject(k, q)
  BY <1>1, <1>2, <1>5 DEF QosObject
<1>7. Honest(k, q)
  BY <1>1, <1>5 DEF Honest
<1> QED
  BY <1>6, <1>7 DEF q

(* A reader or a writer takes over every policy its topic has.            *)
LEMMA DerivedIsQos ==
    ASSUME ProperDurations, NEW topic, QosObject("topic", topic), NEW k \in {"reader", "writer"},
           Derivable(k, topic)
    PROVE  /\ QosObject(k, Derived(k, topic)) /\ Honest(k, Derived(k, topic))
           /\ \A p \in PoliciesOf["topic"] \cap PoliciesOf[k] :
                  Policy[p].bit \in topic.present =>
                      /\ Policy[p].bit \in Derived(k, topic).present
                      /\ Derived(k, topic).value[p] = topic.value[p]
<1>1. Taken(k) \subseteq PoliciesOf["topic"] /\ Taken(k) \subseteq PoliciesOf[k]
      /\ PoliciesOf["topic"] \cap PoliciesOf[k] \subseteq Taken(k)
  <2>1. /\ PoliciesOf["topic"] = TopicQos /\ PoliciesOf["reader"] = DataReaderQos
        /\ PoliciesOf["writer"] = DataWriterQos
    BY DEF PoliciesOf
  <2>2. CASE k = "reader"
    BY <2>1, <2>2 DEF Taken, TopicQos, DataReaderQos
  <2>3. CASE k = "writer"
    BY <2>1, <2>3 DEF Taken, TopicQos, DataWriterQos
  <2> QED
    BY <2>2, <2>3
<1>2. k \in Kinds /\ "topic" \in Kinds
  BY KindsOfEntities
<1> DEFINE ps == {p \in Taken(k) : Policy[p].bit \in topic.present}
           qos == Default(k)
           vs == [p \in PoliciesOf[k] |-> IF p \in ps THEN topic.value[p] ELSE qos.value[p]]
           fs == qos.present \cup {Policy[p].bit : p \in ps}
           q == Derived(k, topic)
<1>3. QosObject(k, qos) /\ Honest(k, qos) /\ qos.byRef = {}
  BY <1>2, DefaultIsQos DEF Default
<1>4. q = [present |-> fs, value |-> vs, byRef |-> {}]
  BY <1>3 DEF Derived
<1>5. \A p \in PoliciesOf[k] : vs[p] = IF p \in ps THEN topic.value[p] ELSE qos.value[p]
  OBVIOUS
<1>6. \A p \in PoliciesOf["topic"] : topic.value[p] \in Policy[p].values
  BY DEF QosObject
<1>7. fs \subseteq Bits(k) /\ DefaultFlags(k) \ {"DATA_REPRESENTATION"} \subseteq fs
  <2>1. qos.present \subseteq Bits(k) /\ DefaultFlags(k) \ {"DATA_REPRESENTATION"} \subseteq qos.present
    BY <1>3 DEF QosObject
  <2>2. {Policy[p].bit : p \in ps} \subseteq Bits(k)
    BY <1>1 DEF Bits
  <2> QED
    BY <2>1, <2>2
<1>8. \A p \in ps : topic.value[p] \notin Policy[p].refused
  BY DEF Derivable
<1>9. \A p \in PoliciesOf[k] : qos.value[p] \in Policy[p].values /\ qos.value[p] \notin Policy[p].refused
  BY <1>3 DEF QosObject, Honest
<1>10. \A p \in ps : p \in PoliciesOf["topic"]
  BY <1>1
<1>11. \A p \in PoliciesOf[k] : Policy[p].bit \in topic.present /\ p \in PoliciesOf["topic"] =>
           p \in ps /\ Policy[p].bit \in fs
  BY <1>1
<1>12. vs = [p \in PoliciesOf[k] |-> vs[p]]
  OBVIOUS
<1> HIDE DEF ps, qos, vs, fs, q
<1>13. \A p \in PoliciesOf[k] : vs[p] \in Policy[p].values /\ vs[p] \notin Policy[p].refused
  BY <1>5, <1>6, <1>8, <1>9, <1>10
<1>14. vs \in [PoliciesOf[k] -> Values]
  <2>1. \A p \in PoliciesOf[k] : vs[p] \in Values
    BY <1>2, <1>13, KindsOfEntities DEF Values
  <2> QED
    BY <2>1, <1>12
<1>15. QosObject(k, q)
  BY <1>4, <1>7, <1>13, <1>14 DEF QosObject
<1>16. Honest(k, q)
  BY <1>4, <1>13 DEF Honest
<1> QED
  BY <1>4, <1>5, <1>11, <1>15, <1>16 DEF q

-----------------------------------------------------------------------------
(***************************************************************************)
(* The entity.                                                             *)
(***************************************************************************)
(* What an entity holds passed check(), and is what the C library has.     *)
Sound(k, q, c) ==
    /\ QosObject(k, q) /\ Honest(k, q) /\ Check(k, q)
    /\ DOMAIN c = PoliciesOf[k]
    /\ \A p \in PoliciesOf[k] :
           Policy[p].bit \in q.present /\ Policy[p].toC[q.value[p]] # Nothing =>
               c[p] = Policy[p].toC[q.value[p]]

QosInv ==
    /\ qosKind \in Kinds /\ edits \in 0 .. MaxEdits
    /\ QosObject(qosKind, app) /\ Honest(qosKind, app)
    /\ held = NoQos <=> installed = NoQos
    /\ held # NoQos => Sound(qosKind, held, installed)

(* NoQos stands for no qos object.                                        *)
LEMMA QosIsNotNone ==
    ASSUME NEW k \in Kinds, NEW q, NEW c, Sound(k, q, c)
    PROVE  q # NoQos /\ c # NoQos
<1>1. DOMAIN NoQos = {"absent"}
  BY DEF NoQos
<1>2. "absent" \notin DOMAIN c
  BY KindsOfEntities DEF Sound
<1>3. q \in [present : SUBSET Bits(k), value : [PoliciesOf[k] -> Values], byRef : SUBSET PoliciesOf[k]]
  BY DEF Sound, QosObject
<1>4. "present" \in DOMAIN q
  <2> DEFINE A == SUBSET Bits(k)
             B == [PoliciesOf[k] -> Values]
             C == SUBSET PoliciesOf[k]
  <2> HIDE DEF A, B, C
  <2>1. q \in [present : A, value : B, byRef : C]
    BY <1>3 DEF A, B, C
  <2> QED
    BY <2>1
<1> QED
  BY <1>1, <1>2, <1>4

(* What is set is in force: the C library keeps what is not given.         *)
LEMMA SetIsSound ==
    ASSUME NEW k \in Kinds, NEW q, QosObject(k, q), Honest(k, q), Check(k, q), NEW otherwise
    PROVE  Sound(k, q, Given(Converted(k, q), otherwise))
<1> DEFINE c == Converted(k, q)
<1>1. DOMAIN c = PoliciesOf[k]
  BY DEF Converted
<1>2. \A p \in PoliciesOf[k] : c[p] = IF Policy[p].bit \in q.present THEN Policy[p].toC[q.value[p]] ELSE Nothing
  BY DEF Converted
<1> HIDE DEF c
<1>3. DOMAIN Given(c, otherwise) = PoliciesOf[k]
  BY <1>1 DEF Given
<1>4. \A p \in PoliciesOf[k] : c[p] # Nothing => Given(c, otherwise)[p] = c[p]
  BY <1>1 DEF Given
<1> QED
  BY <1>2, <1>3, <1>4 DEF Sound, c

(* A topic that is found holds what the C library has, and a history and   *)
(* limits that were checked together.                                      *)
LEMMA DiscoveredIsSound ==
    ASSUME ProperDurations, NEW q, QosObject("topic", q), Honest("topic", q), Check("topic", q),
           q.byRef = {}
    PROVE  LET c == Given(Converted("topic", q), CDefault("topic"))
           IN  Sound("topic", Read("topic", Default("topic"), c), c)
<1> DEFINE handed == Converted("topic", q)
           c == Given(handed, CDefault("topic"))
           r == Read("topic", Default("topic"), c)
           ps == PoliciesOf["topic"]
<1>1. "topic" \in Kinds
  BY KindsOfEntities
<1>2. DOMAIN c = ps
  BY DEF Given, Converted
<1>3. \A p \in ps : c[p] = IF handed[p] # Nothing THEN handed[p] ELSE CDefault("topic")[p]
  BY DEF Given, Converted
<1>4. \A p \in ps : handed[p] = IF Policy[p].bit \in q.present THEN Policy[p].toC[q.value[p]] ELSE Nothing
  BY DEF Converted
<1>5. \A p \in ps : CDefault("topic")[p] =
          IF Policy[p].bit \in DefaultFlags("topic")
          THEN Policy[p].toC[DefaultValue("topic")[p]] ELSE Nothing
  BY DEF CDefault
<1>6. \A p \in ps : q.value[p] \in Policy[p].values /\ q.value[p] \notin Policy[p].refused
  BY DEF QosObject, Honest
<1> HIDE DEF handed, c, r, ps
<1>7. \A p \in ps : c[p] # Nothing =>
          \E v \in Policy[p].values : v \notin Policy[p].refused /\ c[p] = Policy[p].toC[v]
  BY <1>1, <1>3, <1>4, <1>5, <1>6, DefaultValues DEF ps
<1>8. /\ QosObject("topic", r) /\ Honest("topic", r) /\ r.present = Default("topic").present
      /\ \A p \in ps :
             /\ c[p] = Nothing => r.value[p] = DefaultValue("topic")[p]
             /\ c[p] # Nothing => /\ Policy[p].toC[r.value[p]] = c[p]
                                 /\ \A v \in Policy[p].values :
                                        c[p] = Policy[p].toC[v] => r.value[p] = v
  BY <1>1, <1>7, ReadIsQos DEF r, ps
<1>9. r.present \subseteq DefaultFlags("topic")
  BY <1>8 DEF Default
<1>10. \A p \in ps : Policy[p].bit \in r.present /\ Policy[p].toC[r.value[p]] # Nothing =>
           c[p] = Policy[p].toC[r.value[p]]
  BY <1>3, <1>5, <1>8, <1>9
<1>11. ASSUME NEW p \in {"History", "ResourceLimits"}
       PROVE  r.value[p] = q.value[p]
  <2>1. p \in ps
    BY DEF ps, PoliciesOf, TopicQos
  <2>2. Policy[p].bit \in {"HISTORY", "RESOURCE_LIMITS"}
    BY PolicyTable DEF History, ResourceLimits
  <2>3. Policy[p].bit \in q.present
    BY <2>1, <2>2 DEF QosObject, DefaultFlags, ps
  <2>4. Policy[p].toC[q.value[p]] # Nothing
    <3>1. \A v \in History.values : History.toC[v] = <<CHistory[v.kind], v.depth>>
      BY DEF History
    <3>2. \A v \in ResourceLimits.values :
              ResourceLimits.toC[v] = <<v.max_samples, v.max_instances, v.max_samples_per_instance>>
      BY DEF ResourceLimits
    <3>3. q.value[p] \in Policy[p].values
      BY <1>6, <2>1
    <3>4. CASE p = "History"
      <4>1. q.value[p] \in History.values
        BY <3>3, <3>4, PolicyTable
      <4>2. Policy[p].toC[q.value[p]] = <<CHistory[q.value[p].kind], q.value[p].depth>>
        BY <3>1, <3>4, <4>1, PolicyTable
      <4>3. \A a, b : <<a, b>> # << >>
        OBVIOUS
      <4> QED
        BY <4>2, <4>3 DEF Nothing
    <3>5. CASE p = "ResourceLimits"
      <4>1. q.value[p] \in ResourceLimits.values
        BY <3>3, <3>5, PolicyTable
      <4>2. Policy[p].toC[q.value[p]] = <<q.value[p].max_samples, q.value[p].max_instances,
                                          q.value[p].max_samples_per_instance>>
        BY <3>2, <3>5, <4>1, PolicyTable
      <4>3. \A a, b, e : <<a, b, e>> # << >>
        OBVIOUS
      <4> QED
        BY <4>2, <4>3 DEF Nothing
    <3> QED
      BY <3>4, <3>5
  <2>5. c[p] = Policy[p].toC[q.value[p]]
    BY <1>3, <1>4, <2>1, <2>3, <2>4
  <2> QED
    BY <1>6, <1>8, <2>1, <2>4, <2>5
<1>12. Check("topic", r)
  BY <1>11 DEF Check
<1> QED
  BY <1>2, <1>8, <1>10, <1>12 DEF Sound, ps, r, c, handed

(* The invariant of an entity and a qos object.                           *)
LEMMA QosInitially == ProperDurations /\ QosInit => QosInv
BY DefaultIsQos, EditsAssumption DEF QosInit, QosInv

LEMMA QosStep ==
    ASSUME ProperDurations, QosInv, [QosNext]_qosVars
    PROVE  QosInv'
<1>0. /\ qosKind \in Kinds /\ edits \in 0 .. MaxEdits
      /\ QosObject(qosKind, app) /\ Honest(qosKind, app)
      /\ held = NoQos <=> installed = NoQos
      /\ held # NoQos => Sound(qosKind, held, installed)
  BY DEF QosInv
<1>1. ASSUME NEW q, Change(q), UNCHANGED <<qosKind, held, installed>>,
             QosObject(qosKind, q), Honest(qosKind, q)
      PROVE  QosInv'
  <2>1. edits' \in 0 .. MaxEdits
    BY <1>0, <1>1, EditsAssumption DEF Change
  <2> QED
    BY <1>0, <1>1, <2>1 DEF Change, QosInv
<1>2. CASE SetPolicy
  BY <1>0, <1>1, <1>2, EditIsQos DEF SetPolicy
<1>3. CASE EditPolicy
  BY <1>0, <1>1, <1>3, EditIsQos DEF EditPolicy
<1>4. CASE LoadProfile
  <2>0. PICK p \in PoliciesOf[qosKind] : \E v \in Policy[p].values \ Policy[p].refused :
            /\ Change(FromProfile(qosKind, Converted(qosKind,
                         [present |-> {Policy[p].bit},
                          value |-> [DefaultValue(qosKind) EXCEPT ![p] = v]])))
            /\ UNCHANGED <<qosKind, held, installed>>
    BY <1>4 DEF LoadProfile
  <2>1. PICK v \in Policy[p].values \ Policy[p].refused :
            /\ Change(FromProfile(qosKind, Converted(qosKind,
                         [present |-> {Policy[p].bit},
                          value |-> [DefaultValue(qosKind) EXCEPT ![p] = v]])))
            /\ UNCHANGED <<qosKind, held, installed>>
    BY <2>0
  <2> DEFINE vs == [DefaultValue(qosKind) EXCEPT ![p] = v]
             c == Converted(qosKind, [present |-> {Policy[p].bit}, value |-> vs])
  <2>2. \A r \in PoliciesOf[qosKind] : vs[r] = IF r = p THEN v ELSE DefaultValue(qosKind)[r]
    BY DEF DefaultValue
  <2> HIDE DEF vs
  <2>3. DOMAIN c = PoliciesOf[qosKind]
    BY DEF Converted
  <2>4. \A r \in PoliciesOf[qosKind] : c[r] # Nothing => c[r] = Policy[r].toC[vs[r]]
    BY DEF Converted
  <2>5. \A r \in PoliciesOf[qosKind] : vs[r] \in Policy[r].values /\ vs[r] \notin Policy[r].refused
    BY <1>0, <2>2, DefaultValues
  <2> HIDE DEF c
  <2>6. QosObject(qosKind, FromProfile(qosKind, c)) /\ Honest(qosKind, FromProfile(qosKind, c))
    BY <1>0, <2>3, <2>4, <2>5, ProfileIsQos
  <2> QED
    BY <1>1, <2>1, <2>6 DEF c, vs
<1>5. CASE DeriveFromTopic
  <2>1. PICK k \in {"reader", "writer"} :
            Derivable(k, app) /\ qosKind' = k /\ app' = Derived(k, app)
    BY <1>5 DEF DeriveFromTopic
  <2>2. QosObject(k, app') /\ Honest(k, app')
    BY <1>0, <1>5, <2>1, DerivedIsQos DEF DeriveFromTopic
  <2>3. k \in Kinds
    BY KindsOfEntities
  <2> QED
    BY <1>0, <1>5, <2>1, <2>2, <2>3 DEF DeriveFromTopic, QosInv
<1>6. CASE CreateEntity
  <2>1. Sound(qosKind, held', installed')
    BY <1>0, <1>6, SetIsSound DEF CreateEntity
  <2>2. held' # NoQos /\ installed' # NoQos
    BY <1>0, <2>1, QosIsNotNone
  <2> QED
    BY <1>0, <1>6, <2>1, <2>2 DEF CreateEntity, QosInv
<1>7. CASE DiscoverTopic
  <2>1. Sound(qosKind, held', installed')
    BY <1>0, <1>7, DiscoveredIsSound DEF DiscoverTopic
  <2>2. held' # NoQos /\ installed' # NoQos
    BY <1>0, <2>1, QosIsNotNone
  <2> QED
    BY <1>0, <1>7, <2>1, <2>2 DEF DiscoverTopic, QosInv
<1>8. CASE SetQos
  <2>1. CASE UNCHANGED <<held, installed>>
    BY <1>0, <1>8, <2>1 DEF SetQos, QosInv
  <2>2. CASE held' = app /\ installed' = Given(Converted(qosKind, app), installed)
    <3>1. Sound(qosKind, held', installed')
      BY <1>0, <1>8, <2>2, SetIsSound DEF SetQos
    <3>2. held' # NoQos /\ installed' # NoQos
      BY <1>0, <3>1, QosIsNotNone
    <3> QED
      BY <1>0, <1>8, <3>1, <3>2 DEF SetQos, QosInv
  <2> QED
    BY <1>8, <2>1, <2>2 DEF SetQos
<1>9. CASE GetQos
  BY <1>0, <1>9 DEF GetQos, QosInv, Sound
<1>10. CASE UNCHANGED qosVars
  BY <1>0, <1>10 DEF qosVars, QosInv
<1> QED
  BY <1>2, <1>3, <1>4, <1>5, <1>6, <1>7, <1>8, <1>9, <1>10 DEF QosNext

LEMMA QosAlways == ProperDurations => (QosSpec => []QosInv)
<1> SUFFICES ASSUME ProperDurations PROVE QosSpec => []QosInv
  OBVIOUS
<1> QED
  BY QosInitially, QosStep, PTL DEF QosSpec

(* What the invariant says of the entity.                                 *)
LEMMA SoundIsInForce ==
    ASSUME ProperDurations, QosInv
    PROVE  HeldIsInForce
<1>1. CASE held = NoQos
  BY <1>1 DEF HeldIsInForce, HeldIsChecked, HeldIsConsistent, HeldIsValid, HeldIsInstalled
<1>2. CASE held # NoQos
  <2>1. Sound(qosKind, held, installed)
    BY <1>2 DEF QosInv
  <2>2. HeldIsInstalled
    BY <2>1 DEF HeldIsInstalled, Sound
  <2>3. HeldIsValid
    BY <2>1 DEF HeldIsValid, Sound, Honest
  <2>4. Check(qosKind, held)
    BY <2>1 DEF Sound
  <2>5. ASSUME qosKind \in {"reader", "writer", "topic"},
               held.value["History"].kind = "KEEP_LAST",
               held.value["ResourceLimits"].max_samples_per_instance # Unlimited
        PROVE  held.value["History"].depth <=
                   held.value["ResourceLimits"].max_samples_per_instance
    BY <2>4, <2>5 DEF Check
  <2>6. ASSUME qosKind = "reader"
        PROVE  ToC(held.value["TimeBasedFilter"]) <= ToC(held.value["Deadline"])
    <3>1. ~Less(held.value["Deadline"], held.value["TimeBasedFilter"])
      BY <2>4, <2>6 DEF Check
    <3>2. {"Deadline", "TimeBasedFilter"} \subseteq PoliciesOf[qosKind]
      BY <2>6 DEF PoliciesOf, DataReaderQos
    <3>3. Policy["Deadline"].values = SomeDurations /\ Policy["TimeBasedFilter"].values = SomeDurations
      BY PolicyTable DEF Deadline, TimeBasedFilter, OneDuration
    <3>4. held.value["Deadline"] \in SomeDurations /\ held.value["TimeBasedFilter"] \in SomeDurations
      BY <2>1, <3>2, <3>3 DEF Sound, QosObject
    <3> QED
      BY <3>1, <3>4, LessIsLess
  <2>7. HeldIsConsistent
    BY <2>5, <2>6 DEF HeldIsConsistent
  <2> QED
    BY <2>2, <2>3, <2>7 DEF HeldIsInForce, HeldIsChecked
<1> QED
  BY <1>1, <1>2

(* What it says of the qos object.                                        *)
LEMMA QosDropsNothing ==
    ASSUME ProperDurations, QosInv
    PROVE  NothingIsDropped
<1>0. qosKind \in Kinds /\ QosObject(qosKind, app)
  BY DEF QosInv
<1>1. ConversionIsStable
  <2> DEFINE k == qosKind
             c == Converted(k, app)
             r == Read(k, Default(k), c)
             back == FromProfile(k, c)
             again == Converted(k, back)
  <2>1. DOMAIN c = PoliciesOf[k]
    BY DEF Converted
  <2>2. \A p \in PoliciesOf[k] : c[p] # Nothing => c[p] = Policy[p].toC[app.value[p]]
    BY DEF Converted
  <2>3. \A p \in PoliciesOf[k] : app.value[p] \in Policy[p].values
    BY <1>0 DEF QosObject
  <2>4. \A p \in PoliciesOf[k] : r.value[p] = IF c[p] = Nothing THEN Default(k).value[p]
                                             ELSE Policy[p].fromC[c[p]]
    <3> DEFINE qos == Default(k)
               vs == [p \in PoliciesOf[k] |-> IF c[p] = Nothing THEN qos.value[p]
                                              ELSE Policy[p].fromC[c[p]]]
    <3>1. qos = [present |-> qos.present, value |-> qos.value, byRef |-> qos.byRef]
      BY DEF Default
    <3>2. r = [qos EXCEPT !.value = vs]
      BY DEF Read
    <3> HIDE DEF qos, r, c
    <3>3. r.value = vs
      BY <3>1, <3>2
    <3> QED
      BY <3>3 DEF qos
  <2>5. back.value = r.value /\ FlagsOf(c) \subseteq back.present
    <3> DEFINE qos == Default(k)
               vs == [p \in PoliciesOf[k] |-> IF c[p] = Nothing THEN qos.value[p]
                                              ELSE Policy[p].fromC[c[p]]]
    <3>0. qos = [present |-> qos.present, value |-> qos.value, byRef |-> qos.byRef]
          /\ r = [qos EXCEPT !.value = vs]
      BY DEF Default, Read
    <3>1. r = [present |-> r.present, value |-> r.value, byRef |-> r.byRef]
      <4> HIDE DEF qos, r, c, vs
      <4> QED
        BY <3>0
    <3>2. back = [r EXCEPT !.present = @ \cup FlagsOf(c)]
      BY DEF FromProfile
    <3> HIDE DEF r, c, back
    <3>3. back = [present |-> r.present \cup FlagsOf(c), value |-> r.value, byRef |-> r.byRef]
      BY <3>1, <3>2
    <3> QED
      BY <3>3
  <2>6. \A p \in PoliciesOf[k] : again[p] =
            IF Policy[p].bit \in back.present THEN Policy[p].toC[back.value[p]] ELSE Nothing
    BY DEF Converted
  <2> HIDE DEF c, r, back, again
  <2>7. ASSUME NEW p \in PoliciesOf[k], c[p] # Nothing
        PROVE  again[p] = c[p]
    <3>1. Policy[p].bit \in FlagsOf(c)
      BY <2>1, <2>7 DEF FlagsOf
    <3>2. Policy[p].fromC[c[p]] = app.value[p]
      BY <1>0, <2>2, <2>3, <2>7, KindsOfEntities, PoliciesFaithful DEF Faithful
    <3> QED
      BY <2>2, <2>4, <2>5, <2>6, <2>7, <3>1, <3>2
  <2> QED
    BY <2>7 DEF ConversionIsStable, c, back, again
<1>2. DerivedAgrees
  <2>1. ASSUME qosKind = "topic", NEW k \in {"reader", "writer"}, Derivable(k, app),
               NEW p \in PoliciesOf["topic"] \cap PoliciesOf[k]
        PROVE  Converted("topic", app)[p] \in {Nothing, Converted(k, Derived(k, app))[p]}
    <3>1. CASE Policy[p].bit \notin app.present
      BY <3>1 DEF Converted
    <3>2. CASE Policy[p].bit \in app.present
      <4>1. Policy[p].bit \in Derived(k, app).present /\ Derived(k, app).value[p] = app.value[p]
        BY <1>0, <2>1, <3>2, DerivedIsQos
      <4> QED
        BY <3>2, <4>1 DEF Converted
    <3> QED
      BY <3>1, <3>2
  <2> QED
    BY <2>1 DEF DerivedAgrees
<1>3. EqualInstallsEqual
  <2>1. ASSUME held # NoQos, Equal(qosKind, app, held), NEW p \in PoliciesOf[qosKind]
        PROVE  IF p \in Propagated
               THEN Installed(p, Converted(qosKind, app)[p]) = Installed(p, Converted(qosKind, held)[p])
               ELSE Converted(qosKind, app)[p] = Converted(qosKind, held)[p]
    <3>1. app.present = held.present /\ Compared(p, app.value[p]) = Compared(p, held.value[p])
      BY <2>1 DEF Equal
    <3>2. CASE p \notin Propagated
      <4>1. app.value[p] = held.value[p]
        BY <3>1, <3>2 DEF Compared
      <4> QED
        BY <3>1, <3>2, <4>1 DEF Converted
    <3>3. CASE p \in Propagated
      <4> DEFINE Maps == [{"name"} -> [value : {"value", "other"}, propagate : BOOLEAN]] \cup {<< >>}
      <4>1. /\ Policy[p].values = Maps
            /\ Policy[p].toC = [v \in Maps |-> Written(v)]
        BY <3>3, PolicyTable DEF Propagated, Property, BinaryProperty, Named
      <4>2. app.value[p] \in Maps /\ held.value[p] \in Maps
        <5>1. QosObject(qosKind, held)
          BY <2>1 DEF QosInv, Sound
        <5> HIDE DEF Maps
        <5> QED
          BY <1>0, <4>1, <5>1 DEF QosObject
      <4>3. ASSUME NEW v \in Maps, NEW w \in Maps, Compared(p, v) = Compared(p, w)
            PROVE  Installed(p, Written(v)) = Installed(p, Written(w))
        <5>1. DOMAIN v = DOMAIN w
          BY <3>3, <4>3 DEF Compared
        <5>2. \A u \in Maps : DOMAIN u = IF u = << >> THEN {} ELSE {"name"}
          OBVIOUS
        <5>3. v = << >> <=> w = << >>
          BY <5>1, <5>2
        <5>4. ASSUME NEW u, u # << >>
              PROVE  Installed(p, Written(u)) = <<Compared(p, u)>>
          BY <5>4 DEF Installed, Written, Nothing
        <5> QED
          BY <4>3, <5>3, <5>4
      <4> HIDE DEF Maps
      <4>4. CASE Policy[p].bit \in app.present
        <5>1. /\ Converted(qosKind, app)[p] = Written(app.value[p])
              /\ Converted(qosKind, held)[p] = Written(held.value[p])
          BY <3>1, <4>1, <4>2, <4>4 DEF Converted
        <5> QED
          BY <3>1, <3>3, <4>2, <4>3, <5>1
      <4>5. CASE Policy[p].bit \notin app.present
        BY <3>1, <3>3, <4>5 DEF Converted
      <4> QED
        BY <4>4, <4>5
    <3> QED
      BY <3>2, <3>3
  <2> QED
    BY <2>1 DEF EqualInstallsEqual
<1> QED
  BY <1>1, <1>2, <1>3 DEF NothingIsDropped

(* Every policy of the qos object and of the qos held has one of its       *)
(* values, whatever setters, references, profiles and topics they come     *)
(* from.                                                                   *)
THEOREM QosTypeCorrect == ProperDurations => (QosSpec => []QosTypeOK)
<1> SUFFICES ASSUME ProperDurations PROVE QosSpec => []QosTypeOK
  OBVIOUS
<1>1. QosInv => QosTypeOK
  <2>1. ASSUME NEW k \in Kinds, NEW q, QosObject(k, q)
        PROVE  IsQos(k, q)
    <3>1. q.value \in [PoliciesOf[k] -> Values] /\ q.present \subseteq Bits(k)
          /\ q.byRef \subseteq PoliciesOf[k]
      BY <2>1 DEF QosObject
    <3>2. DOMAIN q.value = PoliciesOf[k]
      BY <3>1
    <3> QED
      BY <2>1, <3>1, <3>2 DEF QosObject, IsQos, Bits
  <2> QED
    BY <2>1 DEF QosInv, QosTypeOK, Sound
<1> QED
  BY <1>1, QosAlways, PTL

(* What an entity holds was checked and is what the C library has in       *)
(* force: by whatever calls it came about, and after calls the C library   *)
(* refused.                                                                *)
THEOREM HeldStaysInForce == ProperDurations => (QosSpec => []HeldIsInForce)
<1> SUFFICES ASSUME ProperDurations PROVE QosSpec => []HeldIsInForce
  OBVIOUS
<1>1. QosInv => HeldIsInForce
  BY SoundIsInForce
<1> QED
  BY <1>1, QosAlways, PTL

(* No policy is lost or changed in a conversion to the C library and back, *)
(* or on the way from the qos of a topic to that of its readers and        *)
(* writers; and what compares equal installs equal.                        *)
THEOREM QosIsPassedOn == ProperDurations => (QosSpec => []NothingIsDropped)
<1> SUFFICES ASSUME ProperDurations PROVE QosSpec => []NothingIsDropped
  OBVIOUS
<1>1. QosInv => NothingIsDropped
  BY QosDropsNothing
<1> QED
  BY <1>1, QosAlways, PTL

-----------------------------------------------------------------------------
(***************************************************************************)
(* Policy objects.                                                         *)
(***************************************************************************)
(* The value of an object with one member is that member.                  *)
LEMMA OneMember ==
    ASSUME NEW c, c \notin {"Property", "BinaryProperty"}, NEW f, NEW o, DOMAIN o = {f}
    PROVE  ValueOf(c, o) = o[f]
<1>1. Cardinality(DOMAIN o) = 1
  BY FS_Singleton
<1>2. (CHOOSE g \in DOMAIN o : TRUE) = f
  OBVIOUS
<1> QED
  BY <1>1, <1>2 DEF ValueOf

(* The value of an object with several members is the object.             *)
LEMMA SeveralMembers ==
    ASSUME NEW c, c \notin {"Property", "BinaryProperty"}, NEW o, IsFiniteSet(DOMAIN o),
           NEW f \in DOMAIN o, NEW g \in DOMAIN o, f # g
    PROVE  ValueOf(c, o) = o
<1>1. Cardinality(DOMAIN o) # 1
  <2>1. ASSUME Cardinality(DOMAIN o) = 1
        PROVE  FALSE
    BY <2>1, FS_Singleton
  <2> QED
    BY <2>1
<1> QED
  BY <1>1 DEF ValueOf

(* Small sets are finite.                                                 *)
LEMMA FewAreFinite ==
    ASSUME NEW a, NEW b, NEW c, NEW qos
    PROVE  /\ IsFiniteSet({a, b}) /\ IsFiniteSet({a, b, c}) /\ IsFiniteSet({a, b, c, qos})
<1>1. IsFiniteSet({a} \cup {b}) /\ {a, b} = {a} \cup {b}
  BY FS_Singleton, FS_AddElement
<1>2. IsFiniteSet({a, b} \cup {c}) /\ {a, b, c} = {a, b} \cup {c}
  BY <1>1, FS_AddElement
<1>3. IsFiniteSet({a, b, c} \cup {qos}) /\ {a, b, c, qos} = {a, b, c} \cup {qos}
  BY <1>2, FS_AddElement
<1> QED
  BY <1>1, <1>2, <1>3

(* The constructor without arguments makes the value a qos starts with.    *)
StartsAs(c, default) == ValueOf(c, default) = Policy[c].start

(* Each class, by the number of its members.                              *)
LEMMA SingleStarts ==
    /\ StartsAs("Deadline", DeadlineDefault)
    /\ StartsAs("LatencyBudget", LatencyBudgetDefault)
    /\ StartsAs("Lifespan", LifespanDefault)
    /\ StartsAs("TimeBasedFilter", TimeBasedFilterDefault)
    /\ StartsAs("DestinationOrder", DestinationOrderDefault)
    /\ StartsAs("Durability", DurabilityDefault)
    /\ StartsAs("Ownership", OwnershipDefault)
    /\ StartsAs("IgnoreLocal", IgnoreLocalDefault)
    /\ StartsAs("TransportPriority", TransportPriorityDefault)
    /\ StartsAs("OwnershipStrength", OwnershipStrengthDefault)
    /\ StartsAs("WriterDataLifecycle", WriterDataLifecycleDefault)
    /\ StartsAs("WriterBatching", WriterBatchingDefault)
    /\ StartsAs("EntityName", EntityNameDefault)
    /\ StartsAs("EntityFactory", EntityFactoryDefault)
    /\ StartsAs("UserData", UserDataDefault)
    /\ StartsAs("TopicData", TopicDataDefault)
    /\ StartsAs("GroupData", GroupDataDefault)
    /\ StartsAs("DataRepresentation", DataRepresentationDefault)
    /\ StartsAs("PSMXInstances", PSMXInstancesDefault)
<1>1. StartsAs("Deadline", DeadlineDefault)
  <2>1. DOMAIN DeadlineDefault = {"period"} /\ DeadlineDefault["period"] = Infinite
    BY DEF DeadlineDefault
  <2>2. ValueOf("Deadline", DeadlineDefault) = Infinite
    BY <2>1, OneMember
  <2>3. Deadline.start = Infinite
    BY DEF Deadline, OneDuration
  <2> QED
    BY <2>2, <2>3, PolicyTable DEF StartsAs
<1>2. StartsAs("LatencyBudget", LatencyBudgetDefault)
  <2>1. DOMAIN LatencyBudgetDefault = {"duration"} /\ LatencyBudgetDefault["duration"] = Zero
    BY DEF LatencyBudgetDefault
  <2>2. ValueOf("LatencyBudget", LatencyBudgetDefault) = Zero
    BY <2>1, OneMember
  <2>3. LatencyBudget.start = Zero
    BY DEF LatencyBudget, OneDuration
  <2> QED
    BY <2>2, <2>3, PolicyTable DEF StartsAs
<1>3. StartsAs("Lifespan", LifespanDefault)
  <2>1. DOMAIN LifespanDefault = {"duration"} /\ LifespanDefault["duration"] = Infinite
    BY DEF LifespanDefault
  <2>2. ValueOf("Lifespan", LifespanDefault) = Infinite
    BY <2>1, OneMember
  <2>3. Lifespan.start = Infinite
    BY DEF Lifespan, OneDuration
  <2> QED
    BY <2>2, <2>3, PolicyTable DEF StartsAs
<1>4. StartsAs("TimeBasedFilter", TimeBasedFilterDefault)
  <2>1. DOMAIN TimeBasedFilterDefault = {"min_separation"} /\ TimeBasedFilterDefault["min_separation"] = Zero
    BY DEF TimeBasedFilterDefault
  <2>2. ValueOf("TimeBasedFilter", TimeBasedFilterDefault) = Zero
    BY <2>1, OneMember
  <2>3. TimeBasedFilter.start = Zero
    BY DEF TimeBasedFilter, OneDuration
  <2> QED
    BY <2>2, <2>3, PolicyTable DEF StartsAs
<1>5. StartsAs("DestinationOrder", DestinationOrderDefault)
  <2>1. DOMAIN DestinationOrderDefault = {"kind"} /\ DestinationOrderDefault["kind"] = "BY_RECEPTION_TIMESTAMP"
    BY DEF DestinationOrderDefault
  <2>2. ValueOf("DestinationOrder", DestinationOrderDefault) = "BY_RECEPTION_TIMESTAMP"
    BY <2>1, OneMember
  <2>3. DestinationOrder.start = "BY_RECEPTION_TIMESTAMP"
    BY DEF DestinationOrder, OneKind
  <2> QED
    BY <2>2, <2>3, PolicyTable DEF StartsAs
<1>6. StartsAs("Durability", DurabilityDefault)
  <2>1. DOMAIN DurabilityDefault = {"kind"} /\ DurabilityDefault["kind"] = "VOLATILE"
    BY DEF DurabilityDefault
  <2>2. ValueOf("Durability", DurabilityDefault) = "VOLATILE"
    BY <2>1, OneMember
  <2>3. Durability.start = "VOLATILE"
    BY DEF Durability, OneKind
  <2> QED
    BY <2>2, <2>3, PolicyTable DEF StartsAs
<1>7. StartsAs("Ownership", OwnershipDefault)
  <2>1. DOMAIN OwnershipDefault = {"kind"} /\ OwnershipDefault["kind"] = "SHARED"
    BY DEF OwnershipDefault
  <2>2. ValueOf("Ownership", OwnershipDefault) = "SHARED"
    BY <2>1, OneMember
  <2>3. Ownership.start = "SHARED"
    BY DEF Ownership, OneKind
  <2> QED
    BY <2>2, <2>3, PolicyTable DEF StartsAs
<1>8. StartsAs("IgnoreLocal", IgnoreLocalDefault)
  <2>1. DOMAIN IgnoreLocalDefault = {"kind"} /\ IgnoreLocalDefault["kind"] = "NONE"
    BY DEF IgnoreLocalDefault
  <2>2. ValueOf("IgnoreLocal", IgnoreLocalDefault) = "NONE"
    BY <2>1, OneMember
  <2>3. IgnoreLocal.start = "NONE"
    BY DEF IgnoreLocal, OneKind
  <2> QED
    BY <2>2, <2>3, PolicyTable DEF StartsAs
<1>9. StartsAs("TransportPriority", TransportPriorityDefault)
  <2>1. DOMAIN TransportPriorityDefault = {"value"} /\ TransportPriorityDefault["value"] = 0
    BY DEF TransportPriorityDefault
  <2>2. ValueOf("TransportPriority", TransportPriorityDefault) = 0
    BY <2>1, OneMember
  <2>3. TransportPriority.start = 0
    BY DEF TransportPriority, OneScalar
  <2> QED
    BY <2>2, <2>3, PolicyTable DEF StartsAs
<1>10. StartsAs("OwnershipStrength", OwnershipStrengthDefault)
  <2>1. DOMAIN OwnershipStrengthDefault = {"strength"} /\ OwnershipStrengthDefault["strength"] = 0
    BY DEF OwnershipStrengthDefault
  <2>2. ValueOf("OwnershipStrength", OwnershipStrengthDefault) = 0
    BY <2>1, OneMember
  <2>3. OwnershipStrength.start = 0
    BY DEF OwnershipStrength, OneScalar
  <2> QED
    BY <2>2, <2>3, PolicyTable DEF StartsAs
<1>11. StartsAs("WriterDataLifecycle", WriterDataLifecycleDefault)
  <2>1. DOMAIN WriterDataLifecycleDefault = {"autodispose"} /\ WriterDataLifecycleDefault["autodispose"] = TRUE
    BY DEF WriterDataLifecycleDefault
  <2>2. ValueOf("WriterDataLifecycle", WriterDataLifecycleDefault) = TRUE
    BY <2>1, OneMember
  <2>3. WriterDataLifecycle.start = TRUE
    BY DEF WriterDataLifecycle, OneScalar
  <2> QED
    BY <2>2, <2>3, PolicyTable DEF StartsAs
<1>12. StartsAs("WriterBatching", WriterBatchingDefault)
  <2>1. DOMAIN WriterBatchingDefault = {"batch_updates"} /\ WriterBatchingDefault["batch_updates"] = FALSE
    BY DEF WriterBatchingDefault
  <2>2. ValueOf("WriterBatching", WriterBatchingDefault) = FALSE
    BY <2>1, OneMember
  <2>3. WriterBatching.start = FALSE
    BY DEF WriterBatching, OneScalar
  <2> QED
    BY <2>2, <2>3, PolicyTable DEF StartsAs
<1>13. StartsAs("EntityName", EntityNameDefault)
  <2>1. DOMAIN EntityNameDefault = {"name"} /\ EntityNameDefault["name"] = ""
    BY DEF EntityNameDefault
  <2>2. ValueOf("EntityName", EntityNameDefault) = ""
    BY <2>1, OneMember
  <2>3. EntityName.start = ""
    BY DEF EntityName, OneScalar
  <2> QED
    BY <2>2, <2>3, PolicyTable DEF StartsAs
<1>14. StartsAs("EntityFactory", EntityFactoryDefault)
  <2>1. DOMAIN EntityFactoryDefault = {"auto_enable"} /\ EntityFactoryDefault["auto_enable"] = TRUE
    BY DEF EntityFactoryDefault
  <2>2. ValueOf("EntityFactory", EntityFactoryDefault) = TRUE
    BY <2>1, OneMember
  <2>3. EntityFactory.start = TRUE
    BY DEF EntityFactory
  <2> QED
    BY <2>2, <2>3, PolicyTable DEF StartsAs
<1>15. StartsAs("UserData", UserDataDefault)
  <2>1. DOMAIN UserDataDefault = {"value"} /\ UserDataDefault["value"] = << >>
    BY DEF UserDataDefault
  <2>2. ValueOf("UserData", UserDataDefault) = << >>
    BY <2>1, OneMember
  <2>3. UserData.start = << >>
    BY DEF UserData, OneList
  <2> QED
    BY <2>2, <2>3, PolicyTable DEF StartsAs
<1>16. StartsAs("TopicData", TopicDataDefault)
  <2>1. DOMAIN TopicDataDefault = {"value"} /\ TopicDataDefault["value"] = << >>
    BY DEF TopicDataDefault
  <2>2. ValueOf("TopicData", TopicDataDefault) = << >>
    BY <2>1, OneMember
  <2>3. TopicData.start = << >>
    BY DEF TopicData, OneList
  <2> QED
    BY <2>2, <2>3, PolicyTable DEF StartsAs
<1>17. StartsAs("GroupData", GroupDataDefault)
  <2>1. DOMAIN GroupDataDefault = {"value"} /\ GroupDataDefault["value"] = << >>
    BY DEF GroupDataDefault
  <2>2. ValueOf("GroupData", GroupDataDefault) = << >>
    BY <2>1, OneMember
  <2>3. GroupData.start = << >>
    BY DEF GroupData, OneList
  <2> QED
    BY <2>2, <2>3, PolicyTable DEF StartsAs
<1>18. StartsAs("DataRepresentation", DataRepresentationDefault)
  <2>1. DOMAIN DataRepresentationDefault = {"value"} /\ DataRepresentationDefault["value"] = << >>
    BY DEF DataRepresentationDefault
  <2>2. ValueOf("DataRepresentation", DataRepresentationDefault) = << >>
    BY <2>1, OneMember
  <2>3. DataRepresentation.start = << >>
    BY DEF DataRepresentation, OneList
  <2> QED
    BY <2>2, <2>3, PolicyTable DEF StartsAs
<1>19. StartsAs("PSMXInstances", PSMXInstancesDefault)
  <2>1. DOMAIN PSMXInstancesDefault = {"instances"} /\ PSMXInstancesDefault["instances"] = << >>
    BY DEF PSMXInstancesDefault
  <2>2. ValueOf("PSMXInstances", PSMXInstancesDefault) = << >>
    BY <2>1, OneMember
  <2>3. PSMXInstances.start = << >>
    BY DEF PSMXInstances, OneList
  <2> QED
    BY <2>2, <2>3, PolicyTable DEF StartsAs
<1> QED
  BY <1>1, <1>2, <1>3, <1>4, <1>5, <1>6, <1>7, <1>8, <1>9, <1>10, <1>11, <1>12,
     <1>13, <1>14, <1>15, <1>16, <1>17, <1>18, <1>19

LEMMA SeveralStart ==
    /\ StartsAs("ReaderDataLifecycle", ReaderDataLifecycleDefault)
    /\ StartsAs("History", HistoryDefault)
    /\ StartsAs("ResourceLimits", ResourceLimitsDefault)
    /\ StartsAs("DurabilityService", DurabilityServiceDefault)
    /\ StartsAs("Liveliness", LivelinessDefault)
    /\ StartsAs("Presentation", PresentationDefault)
    /\ StartsAs("TypeConsistencyEnforcement", TypeConsistencyEnforcementDefault)
<1>1. StartsAs("ReaderDataLifecycle", ReaderDataLifecycleDefault)
  <2>1. DOMAIN ReaderDataLifecycleDefault = {"nowriter", "disposed"}
    BY DEF ReaderDataLifecycleDefault
  <2>2. IsFiniteSet(DOMAIN ReaderDataLifecycleDefault)
    BY <2>1, FewAreFinite
  <2>3. ValueOf("ReaderDataLifecycle", ReaderDataLifecycleDefault) = ReaderDataLifecycleDefault
    BY <2>1, <2>2, SeveralMembers
  <2> QED
    BY <2>3, PolicyTable DEF StartsAs, ReaderDataLifecycleDefault, ReaderDataLifecycle
<1>2. StartsAs("History", HistoryDefault)
  <2>1. DOMAIN HistoryDefault = {"kind", "depth"}
    BY DEF HistoryDefault
  <2>2. IsFiniteSet(DOMAIN HistoryDefault)
    BY <2>1, FewAreFinite
  <2>3. ValueOf("History", HistoryDefault) = HistoryDefault
    BY <2>1, <2>2, SeveralMembers
  <2> QED
    BY <2>3, PolicyTable DEF StartsAs, HistoryDefault, History
<1>3. StartsAs("ResourceLimits", ResourceLimitsDefault)
  <2>1. DOMAIN ResourceLimitsDefault = {"max_samples", "max_instances", "max_samples_per_instance"}
    BY DEF ResourceLimitsDefault
  <2>2. IsFiniteSet(DOMAIN ResourceLimitsDefault)
    <3>1. IsFiniteSet({"max_samples", "max_instances", "max_samples_per_instance"})
      BY FewAreFinite, Zenon
    <3> QED
      BY <2>1, <3>1
  <2>3. ValueOf("ResourceLimits", ResourceLimitsDefault) = ResourceLimitsDefault
    BY <2>1, <2>2, SeveralMembers
  <2> QED
    BY <2>3, PolicyTable DEF StartsAs, ResourceLimitsDefault, ResourceLimits
<1>4. StartsAs("DurabilityService", DurabilityServiceDefault)
  <2>1. DOMAIN DurabilityServiceDefault = {"delay", "kind", "depth", "max_samples_per_instance"}
    BY DEF DurabilityServiceDefault
  <2>2. IsFiniteSet(DOMAIN DurabilityServiceDefault)
    <3>1. IsFiniteSet({"delay", "kind", "depth", "max_samples_per_instance"})
      BY FewAreFinite, Zenon
    <3> QED
      BY <2>1, <3>1
  <2>3. ValueOf("DurabilityService", DurabilityServiceDefault) = DurabilityServiceDefault
    BY <2>1, <2>2, SeveralMembers
  <2> QED
    BY <2>3, PolicyTable DEF StartsAs, DurabilityServiceDefault, DurabilityService
<1>5. StartsAs("Liveliness", LivelinessDefault)
  <2>1. DOMAIN LivelinessDefault = {"kind", "lease_duration"}
    BY DEF LivelinessDefault
  <2>2. IsFiniteSet(DOMAIN LivelinessDefault)
    BY <2>1, FewAreFinite
  <2>3. ValueOf("Liveliness", LivelinessDefault) = LivelinessDefault
    BY <2>1, <2>2, SeveralMembers
  <2> QED
    BY <2>3, PolicyTable DEF StartsAs, LivelinessDefault, Liveliness
<1>6. StartsAs("Presentation", PresentationDefault)
  <2>1. DOMAIN PresentationDefault = {"scope", "coherent", "ordered"}
    BY DEF PresentationDefault
  <2>2. IsFiniteSet(DOMAIN PresentationDefault)
    <3>1. IsFiniteSet({"scope", "coherent", "ordered"})
      BY FewAreFinite, Zenon
    <3> QED
      BY <2>1, <3>1
  <2>3. ValueOf("Presentation", PresentationDefault) = PresentationDefault
    BY <2>1, <2>2, SeveralMembers
  <2> QED
    BY <2>3, PolicyTable DEF StartsAs, PresentationDefault, Presentation
<1>7. StartsAs("TypeConsistencyEnforcement", TypeConsistencyEnforcementDefault)
  <2>1. DOMAIN TypeConsistencyEnforcementDefault = {"kind", "ignore", "force"}
    BY DEF TypeConsistencyEnforcementDefault
  <2>2. IsFiniteSet(DOMAIN TypeConsistencyEnforcementDefault)
    <3>1. IsFiniteSet({"kind", "ignore", "force"})
      BY FewAreFinite, Zenon
    <3> QED
      BY <2>1, <3>1
  <2>3. ValueOf("TypeConsistencyEnforcement", TypeConsistencyEnforcementDefault) = TypeConsistencyEnforcementDefault
    BY <2>1, <2>2, SeveralMembers
  <2> QED
    BY <2>3, PolicyTable DEF StartsAs, TypeConsistencyEnforcementDefault, TypeConsistencyEnforcement
<1> QED
  BY <1>1, <1>2, <1>3, <1>4, <1>5, <1>6, <1>7

LEMMA MapsStart ==
    StartsAs("Property", PropertyDefault) /\ StartsAs("BinaryProperty", BinaryPropertyDefault)
<1>1. ASSUME NEW c \in {"Property", "BinaryProperty"}, NEW o,
             o = [props |-> << >>, to_propagate |-> << >>]
      PROVE  ValueOf(c, o) = << >>
  <2> DEFINE m == [n \in DOMAIN o.props |-> [value |-> o.props[n], propagate |-> o.to_propagate[n]]]
  <2>1. DOMAIN o.props = {}
    BY <1>1
  <2>2. m = << >>
    BY <2>1
  <2> QED
    BY <2>2 DEF ValueOf
<1>2. ValueOf("Property", PropertyDefault) = << >>
  BY <1>1 DEF PropertyDefault
<1>3. ValueOf("BinaryProperty", BinaryPropertyDefault) = << >>
  BY <1>1 DEF BinaryPropertyDefault
<1> QED
  BY <1>2, <1>3, PolicyTable DEF StartsAs, Property, BinaryProperty, Named

(* The table of the classes, by name.                                     *)
LEMMA ClassTable ==
    /\ ClassOf["Deadline"] = TDeadline
    /\ ClassOf["LatencyBudget"] = TLatencyBudget
    /\ ClassOf["Lifespan"] = TLifespan
    /\ ClassOf["TimeBasedFilter"] = TTimeBasedFilter
    /\ ClassOf["ReaderDataLifecycle"] = TReaderDataLifecycle
    /\ ClassOf["DestinationOrder"] = TDestinationOrder
    /\ ClassOf["Durability"] = TDurability
    /\ ClassOf["Ownership"] = TOwnership
    /\ ClassOf["IgnoreLocal"] = TIgnoreLocal
    /\ ClassOf["TransportPriority"] = TTransportPriority
    /\ ClassOf["OwnershipStrength"] = TOwnershipStrength
    /\ ClassOf["WriterDataLifecycle"] = TWriterDataLifecycle
    /\ ClassOf["WriterBatching"] = TWriterBatching
    /\ ClassOf["EntityName"] = TEntityName
    /\ ClassOf["EntityFactory"] = TEntityFactory
    /\ ClassOf["UserData"] = TUserData
    /\ ClassOf["TopicData"] = TTopicData
    /\ ClassOf["GroupData"] = TGroupData
    /\ ClassOf["Partition"] = TPartition
    /\ ClassOf["DataRepresentation"] = TDataRepresentation
    /\ ClassOf["PSMXInstances"] = TPSMXInstances
    /\ ClassOf["Property"] = TProperty
    /\ ClassOf["BinaryProperty"] = TBinaryProperty
    /\ ClassOf["History"] = THistory
    /\ ClassOf["ResourceLimits"] = TResourceLimits
    /\ ClassOf["DurabilityService"] = TDurabilityService
    /\ ClassOf["Liveliness"] = TLiveliness
    /\ ClassOf["Reliability"] = TReliability
    /\ ClassOf["Presentation"] = TPresentation
    /\ ClassOf["TypeConsistencyEnforcement"] = TTypeConsistencyEnforcement
    /\ DOMAIN ClassOf = Policies
<1>1. DOMAIN ClassOf = Policies
  BY PolicyTable DEF ClassOf
<1> QED
  BY <1>1 DEF ClassOf

LEMMA ClassDefaults ==
    /\ ClassOf["Deadline"].default = DeadlineDefault
    /\ ClassOf["LatencyBudget"].default = LatencyBudgetDefault
    /\ ClassOf["Lifespan"].default = LifespanDefault
    /\ ClassOf["TimeBasedFilter"].default = TimeBasedFilterDefault
    /\ ClassOf["ReaderDataLifecycle"].default = ReaderDataLifecycleDefault
    /\ ClassOf["DestinationOrder"].default = DestinationOrderDefault
    /\ ClassOf["Durability"].default = DurabilityDefault
    /\ ClassOf["Ownership"].default = OwnershipDefault
    /\ ClassOf["IgnoreLocal"].default = IgnoreLocalDefault
    /\ ClassOf["TransportPriority"].default = TransportPriorityDefault
    /\ ClassOf["OwnershipStrength"].default = OwnershipStrengthDefault
    /\ ClassOf["WriterDataLifecycle"].default = WriterDataLifecycleDefault
    /\ ClassOf["WriterBatching"].default = WriterBatchingDefault
    /\ ClassOf["EntityName"].default = EntityNameDefault
    /\ ClassOf["EntityFactory"].default = EntityFactoryDefault
    /\ ClassOf["UserData"].default = UserDataDefault
    /\ ClassOf["TopicData"].default = TopicDataDefault
    /\ ClassOf["GroupData"].default = GroupDataDefault
    /\ ClassOf["Partition"].default = PartitionDefault
    /\ ClassOf["DataRepresentation"].default = DataRepresentationDefault
    /\ ClassOf["PSMXInstances"].default = PSMXInstancesDefault
    /\ ClassOf["Property"].default = PropertyDefault
    /\ ClassOf["BinaryProperty"].default = BinaryPropertyDefault
    /\ ClassOf["History"].default = HistoryDefault
    /\ ClassOf["ResourceLimits"].default = ResourceLimitsDefault
    /\ ClassOf["DurabilityService"].default = DurabilityServiceDefault
    /\ ClassOf["Liveliness"].default = LivelinessDefault
    /\ ClassOf["Reliability"].default = ReliabilityDefault
    /\ ClassOf["Presentation"].default = PresentationDefault
    /\ ClassOf["TypeConsistencyEnforcement"].default = TypeConsistencyEnforcementDefault
<1>0. \A delegate, default, factories : Class(delegate, default, factories).default = default
  BY DEF Class
<1>1. /\ TDeadline.default = DeadlineDefault
      /\ TLatencyBudget.default = LatencyBudgetDefault
      /\ TLifespan.default = LifespanDefault
      /\ TTimeBasedFilter.default = TimeBasedFilterDefault
      /\ TReaderDataLifecycle.default = ReaderDataLifecycleDefault
      /\ TDestinationOrder.default = DestinationOrderDefault
  BY <1>0 DEF TDeadline, TLatencyBudget, TLifespan,
              TTimeBasedFilter, TReaderDataLifecycle, TDestinationOrder
<1>2. /\ TDurability.default = DurabilityDefault
      /\ TOwnership.default = OwnershipDefault
      /\ TIgnoreLocal.default = IgnoreLocalDefault
      /\ TTransportPriority.default = TransportPriorityDefault
      /\ TOwnershipStrength.default = OwnershipStrengthDefault
      /\ TWriterDataLifecycle.default = WriterDataLifecycleDefault
  BY <1>0 DEF TDurability, TOwnership, TIgnoreLocal,
              TTransportPriority, TOwnershipStrength, TWriterDataLifecycle
<1>3. /\ TWriterBatching.default = WriterBatchingDefault
      /\ TEntityName.default = EntityNameDefault
      /\ TEntityFactory.default = EntityFactoryDefault
      /\ TUserData.default = UserDataDefault
      /\ TTopicData.default = TopicDataDefault
      /\ TGroupData.default = GroupDataDefault
  BY <1>0 DEF TWriterBatching, TEntityName, TEntityFactory,
              TUserData, TTopicData, TGroupData
<1>4. /\ TPartition.default = PartitionDefault
      /\ TDataRepresentation.default = DataRepresentationDefault
      /\ TPSMXInstances.default = PSMXInstancesDefault
      /\ TProperty.default = PropertyDefault
      /\ TBinaryProperty.default = BinaryPropertyDefault
      /\ THistory.default = HistoryDefault
  BY <1>0 DEF TPartition, TDataRepresentation, TPSMXInstances,
              TProperty, TBinaryProperty, THistory
<1>5. /\ TResourceLimits.default = ResourceLimitsDefault
      /\ TDurabilityService.default = DurabilityServiceDefault
      /\ TLiveliness.default = LivelinessDefault
      /\ TReliability.default = ReliabilityDefault
      /\ TPresentation.default = PresentationDefault
      /\ TTypeConsistencyEnforcement.default = TypeConsistencyEnforcementDefault
  BY <1>0 DEF TResourceLimits, TDurabilityService, TLiveliness,
              TReliability, TPresentation, TTypeConsistencyEnforcement
<1> QED
  BY <1>1, <1>2, <1>3, <1>4, <1>5, ClassTable

(* Without arguments: what the C library has by default.                   *)
LEMMA DefaultsAgree ==
    ASSUME NEW c \in Policies
    PROVE  DefaultIsDefault(c, ClassOf[c].default)
<1>1. ASSUME c \notin {"Reliability", "Partition"}
      PROVE  StartsAs(c, ClassOf[c].default)
  BY <1>1, PolicyTable, ClassDefaults, SingleStarts, SeveralStart, MapsStart
<1>2. ASSUME NEW k \in Kinds, c \in PoliciesOf[k] \ {"Reliability", "Partition"}
      PROVE  CDefault(k)[c] \in {Nothing, Policy[c].toC[ValueOf(c, ClassOf[c].default)]}
  <2>1. DefaultValue(k)[c] = Policy[c].start
    BY <1>2 DEF DefaultValue
  <2>2. CDefault(k)[c] \in {Nothing, Policy[c].toC[DefaultValue(k)[c]]}
    BY <1>2 DEF CDefault
  <2> QED
    BY <1>1, <1>2, <2>1, <2>2 DEF StartsAs
<1> QED
  BY <1>2 DEF DefaultIsDefault

(* What was constructed and not set since was checked; the two maps of     *)
(* properties have the same names.                                         *)
ObjectsInv ==
    /\ class \in Policies /\ DOMAIN object = PolicyHandles
    /\ \A h \in PolicyHandles : object[h] # NoObject =>
           /\ h \notin edited => ~Refuses(class, object[h])
           /\ HoldsMaps => DOMAIN object[h].props = DOMAIN object[h].to_propagate

(* Constructors, setters and copies keep it.                              *)
LEMMA ObjectsStep ==
    ASSUME ObjectsInv, [ObjectsNext]_objectVars
    PROVE  ObjectsInv'
<1>0. /\ class \in Policies /\ DOMAIN object = PolicyHandles
      /\ \A h \in PolicyHandles : object[h] # NoObject =>
             /\ h \notin edited => ~Refuses(class, object[h])
             /\ HoldsMaps => DOMAIN object[h].props = DOMAIN object[h].to_propagate
  BY DEF ObjectsInv
<1>1. ASSUME NEW h \in PolicyHandles, NEW o, Becomes(h, o),
             edited' \in {edited \cup {h}, edited \ {h}},
             h \notin edited' => ~Refuses(class, o),
             HoldsMaps => DOMAIN o.props = DOMAIN o.to_propagate
      PROVE  ObjectsInv'
  <2>1. class' = class /\ (HoldsMaps' <=> HoldsMaps)
    BY <1>1 DEF Becomes, HoldsMaps
  <2>2. DOMAIN object' = PolicyHandles
        /\ \A g \in PolicyHandles : object'[g] = IF g = h THEN o ELSE object[g]
    BY <1>0, <1>1 DEF Becomes
  <2>3. \A g \in PolicyHandles \ {h} : g \in edited' <=> g \in edited
    BY <1>1
  <2> QED
    BY <1>0, <1>1, <2>1, <2>2, <2>3 DEF ObjectsInv
<1>2. ASSUME NEW h \in PolicyHandles, NEW o, Constructed(h, o),
             HoldsMaps => DOMAIN o.props = DOMAIN o.to_propagate
      PROVE  ObjectsInv'
  <2>1. Becomes(h, o) /\ edited' = edited \ {h} /\ ~Refuses(class, o)
    BY <1>2 DEF Constructed
  <2> HIDE DEF Becomes
  <2> QED
    BY <1>1, <1>2, <2>1
<1>3. ASSUME NEW h \in PolicyHandles, ConstructPolicy(h)
      PROVE  ObjectsInv'
  <2>1. PICK o \in {ClassOf[class].default} \cup ClassOf[class].factories
                    \cup (IF HoldsMaps THEN {} ELSE ClassOf[class].delegate) : Constructed(h, o)
    BY <1>3 DEF ConstructPolicy
  <2>2. ASSUME HoldsMaps
        PROVE  DOMAIN o.props = DOMAIN o.to_propagate
    <3>1. class \in {"Property", "BinaryProperty"}
      BY <2>2 DEF HoldsMaps
    <3>2. /\ ClassOf["Property"].default = [props |-> << >>, to_propagate |-> << >>]
          /\ ClassOf["BinaryProperty"].default = [props |-> << >>, to_propagate |-> << >>]
          /\ ClassOf["Property"].factories = {} /\ ClassOf["BinaryProperty"].factories = {}
      BY ClassTable DEF TProperty, TBinaryProperty, Class, PropertyDefault, BinaryPropertyDefault
    <3>3. o = [props |-> << >>, to_propagate |-> << >>]
      BY <2>1, <2>2, <3>1, <3>2
    <3> QED
      BY <3>3
  <2> QED
    BY <1>2, <2>1, <2>2
<1>4. ASSUME NEW h \in PolicyHandles, ConstructMaps(h)
      PROVE  ObjectsInv'
  <2>1. PICK ns \in SUBSET Names, propagate \in BOOLEAN :
            Constructed(h, [props |-> [n \in ns |-> "x"], to_propagate |-> [n \in ns |-> propagate]])
    BY <1>4 DEF ConstructMaps
  <2> DEFINE o == [props |-> [n \in ns |-> "x"], to_propagate |-> [n \in ns |-> propagate]]
  <2>2. DOMAIN o.props = DOMAIN o.to_propagate /\ Constructed(h, o)
    BY <2>1
  <2> HIDE DEF o
  <2> QED
    BY <1>2, <2>2
<1>5. ASSUME NEW h \in PolicyHandles, SetMember(h)
      PROVE  ObjectsInv'
  <2>1. PICK o : Becomes(h, o) /\ edited' = edited \cup {h} /\ ~HoldsMaps
    BY <1>5 DEF SetMember
  <2> QED
    BY <1>1, <2>1
<1>6. ASSUME NEW h \in PolicyHandles, SetEntry(h)
      PROVE  ObjectsInv'
  <2>1. PICK n \in Names, v \in {"x", "y"}, propagate \in BOOLEAN :
            Becomes(h, [props |-> WithEntry(object[h].props, n, v),
                        to_propagate |-> WithEntry(object[h].to_propagate, n, propagate)])
    BY <1>6 DEF SetEntry
  <2> DEFINE o == [props |-> WithEntry(object[h].props, n, v),
                   to_propagate |-> WithEntry(object[h].to_propagate, n, propagate)]
  <2>2. DOMAIN object[h].props = DOMAIN object[h].to_propagate
    BY <1>0, <1>6 DEF SetEntry
  <2>3. DOMAIN o.props = DOMAIN o.to_propagate
    BY <2>2 DEF WithEntry
  <2>4. Becomes(h, o) /\ edited' = edited \cup {h}
    BY <1>6, <2>1 DEF SetEntry
  <2> HIDE DEF o
  <2> QED
    BY <1>1, <2>3, <2>4
<1>7. ASSUME NEW h \in PolicyHandles, RemoveEntry(h)
      PROVE  ObjectsInv'
  <2>1. PICK n \in DOMAIN object[h].props :
            Becomes(h, [props |-> WithoutEntry(object[h].props, n),
                        to_propagate |-> WithoutEntry(object[h].to_propagate, n)])
    BY <1>7 DEF RemoveEntry
  <2> DEFINE o == [props |-> WithoutEntry(object[h].props, n),
                   to_propagate |-> WithoutEntry(object[h].to_propagate, n)]
  <2>2. DOMAIN object[h].props = DOMAIN object[h].to_propagate
    BY <1>0, <1>7 DEF RemoveEntry
  <2>3. DOMAIN o.props = DOMAIN o.to_propagate
    BY <2>2 DEF WithoutEntry
  <2>4. Becomes(h, o) /\ edited' = edited \cup {h}
    BY <1>7, <2>1 DEF RemoveEntry
  <2> HIDE DEF o
  <2> QED
    BY <1>1, <2>3, <2>4
<1>8. ASSUME NEW h \in PolicyHandles, Copy(h)
      PROVE  ObjectsInv'
  <2>1. PICK source \in PolicyHandles \ {h} :
            /\ object[source] # NoObject
            /\ Becomes(h, object[source])
            /\ edited' = IF source \in edited THEN edited \cup {h} ELSE edited \ {h}
    BY <1>8 DEF Copy
  <2>2. /\ source \notin edited => ~Refuses(class, object[source])
        /\ HoldsMaps => DOMAIN object[source].props = DOMAIN object[source].to_propagate
    BY <1>0, <2>1
  <2>3. h \notin edited' => source \notin edited
    BY <2>1
  <2> QED
    BY <1>1, <2>1, <2>2, <2>3
<1>9. CASE UNCHANGED objectVars
  BY <1>0, <1>9 DEF objectVars, ObjectsInv, HoldsMaps, Refuses
<1> QED
  BY <1>3, <1>4, <1>5, <1>6, <1>7, <1>8, <1>9 DEF ObjectsNext

(* What a constructor without arguments, a factory or the setter of a      *)
(* member makes is a delegate of the class.                                *)
Proper(D, c) ==
    /\ c.delegate = D /\ c.default \in D /\ c.factories \subseteq D
    /\ \A o, p \in D : \A f \in DOMAIN o : [o EXCEPT ![f] = p[f]] \in D

LEMMA ProperClasses ==
    ASSUME ProperDurations
    PROVE  \A c \in Policies \ {"Property", "BinaryProperty"} :
               Proper(ClassOf[c].delegate, ClassOf[c])
<1>1. Proper(DeadlineDelegate, TDeadline)
  BY DEF Proper, TDeadline, Class, DeadlineDelegate, DeadlineDefault, ProperDurations
<1>2. Proper(LatencyBudgetDelegate, TLatencyBudget)
  BY DEF Proper, TLatencyBudget, Class, LatencyBudgetDelegate, LatencyBudgetDefault, ProperDurations
<1>3. Proper(LifespanDelegate, TLifespan)
  BY DEF Proper, TLifespan, Class, LifespanDelegate, LifespanDefault, ProperDurations
<1>4. Proper(TimeBasedFilterDelegate, TTimeBasedFilter)
  BY DEF Proper, TTimeBasedFilter, Class, TimeBasedFilterDelegate, TimeBasedFilterDefault, ProperDurations
<1>5. Proper(ReaderDataLifecycleDelegate, TReaderDataLifecycle)
  BY DEF Proper, TReaderDataLifecycle, Class, ReaderDataLifecycleDelegate, ReaderDataLifecycleDefault, ProperDurations
<1>6. Proper(DestinationOrderDelegate, TDestinationOrder)
  BY DEF Proper, TDestinationOrder, Class, DestinationOrderDelegate, DestinationOrderDefault, DestinationOrderKind
<1>7. Proper(DurabilityDelegate, TDurability)
  BY DEF Proper, TDurability, Class, DurabilityDelegate, DurabilityDefault, DurabilityKind
<1>8. Proper(OwnershipDelegate, TOwnership)
  BY DEF Proper, TOwnership, Class, OwnershipDelegate, OwnershipDefault, OwnershipKind
<1>9. Proper(IgnoreLocalDelegate, TIgnoreLocal)
  BY DEF Proper, TIgnoreLocal, Class, IgnoreLocalDelegate, IgnoreLocalDefault, IgnoreLocalKind
<1>10. Proper(TransportPriorityDelegate, TTransportPriority)
  BY DEF Proper, TTransportPriority, Class, TransportPriorityDelegate, TransportPriorityDefault
<1>11. Proper(OwnershipStrengthDelegate, TOwnershipStrength)
  BY DEF Proper, TOwnershipStrength, Class, OwnershipStrengthDelegate, OwnershipStrengthDefault
<1>12. Proper(WriterDataLifecycleDelegate, TWriterDataLifecycle)
  BY DEF Proper, TWriterDataLifecycle, Class, WriterDataLifecycleDelegate, WriterDataLifecycleDefault
<1>13. Proper(WriterBatchingDelegate, TWriterBatching)
  BY DEF Proper, TWriterBatching, Class, WriterBatchingDelegate, WriterBatchingDefault
<1>14. Proper(EntityNameDelegate, TEntityName)
  BY DEF Proper, TEntityName, Class, EntityNameDelegate, EntityNameDefault
<1>15. Proper(EntityFactoryDelegate, TEntityFactory)
  BY DEF Proper, TEntityFactory, Class, EntityFactoryDelegate, EntityFactoryDefault
<1>16. Proper(UserDataDelegate, TUserData)
  BY ListsAssumption DEF Proper, TUserData, Class, UserDataDelegate, UserDataDefault, Lists
<1>17. Proper(TopicDataDelegate, TTopicData)
  BY ListsAssumption DEF Proper, TTopicData, Class, TopicDataDelegate, TopicDataDefault, Lists
<1>18. Proper(GroupDataDelegate, TGroupData)
  BY ListsAssumption DEF Proper, TGroupData, Class, GroupDataDelegate, GroupDataDefault, Lists
<1>19. Proper(PartitionDelegate, TPartition)
  <2> DEFINE unnamed == <<"">>
  <2>1. unnamed \in Lists
    BY DEF Lists
  <2>2. /\ TPartition.delegate = [name : Lists] /\ TPartition.default = [name |-> unnamed]
        /\ TPartition.factories = {[name |-> unnamed]}
    BY DEF TPartition, Class, PartitionDelegate, PartitionDefault
  <2> HIDE DEF unnamed
  <2> QED
    BY <2>1, <2>2 DEF Proper, PartitionDelegate
<1>20. Proper(DataRepresentationDelegate, TDataRepresentation)
  BY DEF Proper, TDataRepresentation, Class, DataRepresentationDelegate, DataRepresentationDefault
<1>21. Proper(PSMXInstancesDelegate, TPSMXInstances)
  BY ListsAssumption DEF Proper, TPSMXInstances, Class, PSMXInstancesDelegate, PSMXInstancesDefault, Lists
<1>22. Proper(HistoryDelegate, THistory)
  <2>1. /\ THistory.delegate = HistoryDelegate /\ THistory.default = HistoryDefault
        /\ THistory.factories = ({[kind |-> "KEEP_ALL", depth |-> 1]} \cup [kind : {"KEEP_LAST"}, depth : -1 .. 2])
    BY DEF THistory, Class
  <2>3. HistoryDefault \in HistoryDelegate
    BY DEF HistoryDefault, HistoryDelegate, HistoryKind
  <2>4. ({[kind |-> "KEEP_ALL", depth |-> 1]} \cup [kind : {"KEEP_LAST"}, depth : -1 .. 2]) \subseteq HistoryDelegate
    BY DEF HistoryDelegate, HistoryKind
  <2>2. ASSUME NEW o \in HistoryDelegate, NEW p \in HistoryDelegate, NEW f \in DOMAIN o
        PROVE  [o EXCEPT ![f] = p[f]] \in HistoryDelegate
    BY <2>2 DEF HistoryDelegate
  <2> QED
    BY <2>1, <2>2, <2>3, <2>4 DEF Proper
<1>23. Proper(ResourceLimitsDelegate, TResourceLimits)
  BY DEF Proper, TResourceLimits, Class, ResourceLimitsDelegate, ResourceLimitsDefault
<1>24. Proper(DurabilityServiceDelegate, TDurabilityService)
  <2>1. /\ TDurabilityService.delegate = DurabilityServiceDelegate /\ TDurabilityService.default = DurabilityServiceDefault
        /\ TDurabilityService.factories = {}
    BY DEF TDurabilityService, Class
  <2>3. DurabilityServiceDefault \in DurabilityServiceDelegate
    BY DEF DurabilityServiceDefault, DurabilityServiceDelegate, HistoryKind
  <2>4. {} \subseteq DurabilityServiceDelegate
    BY DEF DurabilityServiceDelegate, HistoryKind
  <2>2. ASSUME NEW o \in DurabilityServiceDelegate, NEW p \in DurabilityServiceDelegate, NEW f \in DOMAIN o
        PROVE  [o EXCEPT ![f] = p[f]] \in DurabilityServiceDelegate
    BY <2>2 DEF DurabilityServiceDelegate
  <2> QED
    BY <2>1, <2>2, <2>3, <2>4 DEF Proper
<1>25. Proper(LivelinessDelegate, TLiveliness)
  BY DEF Proper, TLiveliness, Class, LivelinessDelegate, LivelinessDefault, LivelinessKind, ProperDurations
<1>26. Proper(ReliabilityDelegate, TReliability)
  BY BlockingAssumption DEF Proper, TReliability, Class, ReliabilityDelegate, ReliabilityDefault, ReliabilityKind
<1>27. Proper(PresentationDelegate, TPresentation)
  BY DEF Proper, TPresentation, Class, PresentationDelegate, PresentationDefault, PresentationAccessScopeKind
<1>28. Proper(TypeConsistencyEnforcementDelegate, TTypeConsistencyEnforcement)
  BY DEF Proper, TTypeConsistencyEnforcement, Class, TypeConsistencyEnforcementDelegate, TypeConsistencyEnforcementDefault, TypeConsistencyKind
<1> DEFINE Good(a) == Proper(ClassOf[a].delegate, ClassOf[a])
<1>29. ASSUME NEW D, NEW a, Proper(D, ClassOf[a])
      PROVE  Good(a)
  BY <1>29 DEF Proper
<1>30. /\ Good("Deadline") /\ Good("LatencyBudget")
       /\ Good("Lifespan") /\ Good("TimeBasedFilter")
       /\ Good("ReaderDataLifecycle") /\ Good("DestinationOrder")
       /\ Good("Durability") /\ Good("Ownership")
       /\ Good("IgnoreLocal") /\ Good("TransportPriority")
       /\ Good("OwnershipStrength") /\ Good("WriterDataLifecycle")
       /\ Good("WriterBatching") /\ Good("EntityName")
  BY ClassTable, <1>29, <1>1, <1>2, <1>3, <1>4, <1>5, <1>6, <1>7, <1>8, <1>9, <1>10, <1>11, <1>12, <1>13, <1>14
<1>31. /\ Good("EntityFactory") /\ Good("UserData")
       /\ Good("TopicData") /\ Good("GroupData")
       /\ Good("Partition") /\ Good("DataRepresentation")
       /\ Good("PSMXInstances") /\ Good("History")
       /\ Good("ResourceLimits") /\ Good("DurabilityService")
       /\ Good("Liveliness") /\ Good("Reliability")
       /\ Good("Presentation") /\ Good("TypeConsistencyEnforcement")
  BY ClassTable, <1>29, <1>15, <1>16, <1>17, <1>18, <1>19, <1>20, <1>21, <1>22, <1>23, <1>24, <1>25, <1>26, <1>27, <1>28
<1> HIDE DEF Good
<1>32. \A c \in Policies \ {"Property", "BinaryProperty"} : Good(c)
  BY PolicyTable, <1>30, <1>31
<1> QED
  BY <1>32 DEF Good

(* The maps of a property policy are delegates after each call on them.    *)
LEMMA ProperMaps ==
    ASSUME NEW c \in {"Property", "BinaryProperty"}
    PROVE  /\ ClassOf[c].delegate = [props : MapsTo({"x", "y"}), to_propagate : MapsTo(BOOLEAN)]
           /\ ClassOf[c].default \in ClassOf[c].delegate /\ ClassOf[c].factories = {}
<1> DEFINE empty == [n \in {} |-> "x"]
<1>1. empty \in [{} -> {"x", "y"}] /\ empty \in [{} -> BOOLEAN] /\ {} \in SUBSET Names
  OBVIOUS
<1>2. << >> = empty
  OBVIOUS
<1> HIDE DEF empty
<1>3. << >> \in MapsTo({"x", "y"}) /\ << >> \in MapsTo(BOOLEAN)
  BY <1>1, <1>2 DEF MapsTo
<1> DEFINE maps == [props : MapsTo({"x", "y"}), to_propagate : MapsTo(BOOLEAN)]
           none == [props |-> << >>, to_propagate |-> << >>]
<1>4. none \in maps
  BY <1>3
<1>5. CASE c = "Property"
  <2>1. ClassOf[c] = TProperty
    BY <1>5, ClassTable
  <2>2. TProperty.delegate = maps
    BY DEF TProperty, Class, PropertyDelegate
  <2>3. TProperty.default = none /\ TProperty.factories = {}
    BY DEF TProperty, Class, PropertyDefault
  <2> QED
    BY <2>1, <2>2, <2>3, <1>4
<1>6. CASE c = "BinaryProperty"
  <2>1. ClassOf[c] = TBinaryProperty
    BY <1>6, ClassTable
  <2>2. TBinaryProperty.delegate = maps
    BY DEF TBinaryProperty, Class, BinaryPropertyDelegate
  <2>3. TBinaryProperty.default = none /\ TBinaryProperty.factories = {}
    BY DEF TBinaryProperty, Class, BinaryPropertyDefault
  <2> QED
    BY <2>1, <2>2, <2>3, <1>4
<1> QED
  BY <1>5, <1>6

LEMMA MapsStay ==
    ASSUME NEW S, NEW g \in MapsTo(S), NEW n \in Names
    PROVE  /\ \A v \in S : WithEntry(g, n, v) \in MapsTo(S)
           /\ WithoutEntry(g, n) \in MapsTo(S)
<1>1. PICK ns \in SUBSET Names : g \in [ns -> S]
  BY DEF MapsTo
<1>2. ASSUME NEW v \in S
      PROVE  WithEntry(g, n, v) \in [ns \cup {n} -> S]
  BY <1>1, <1>2 DEF WithEntry
<1>3. WithoutEntry(g, n) \in [ns \ {n} -> S]
  BY <1>1 DEF WithoutEntry
<1>4. ns \cup {n} \in SUBSET Names /\ ns \ {n} \in SUBSET Names
  OBVIOUS
<1> QED
  BY <1>2, <1>3, <1>4 DEF MapsTo

(* A policy object is a delegate of its class, however it was constructed  *)
(* and whatever was set or copied.                                         *)
THEOREM ObjectsTypeCorrect == ProperDurations => (ObjectsSpec => []ObjectsTypeOK)
<1> SUFFICES ASSUME ProperDurations PROVE ObjectsSpec => []ObjectsTypeOK
  OBVIOUS
<1> DEFINE Typed == ObjectsTypeOK /\ DOMAIN object = PolicyHandles
           D == ClassOf[class].delegate
<1>1. ObjectsInit => Typed
  BY DEF ObjectsInit, ObjectsTypeOK
<1>2. Typed /\ [ObjectsNext]_objectVars => Typed'
  <2> SUFFICES ASSUME Typed, [ObjectsNext]_objectVars
               PROVE  Typed'
    OBVIOUS
  <2>1. /\ class \in Policies /\ edited \subseteq PolicyHandles /\ DOMAIN object = PolicyHandles
        /\ \A h \in PolicyHandles : object[h] = NoObject \/ object[h] \in D
    BY ClassTable DEF ObjectsTypeOK
  <2>2. ASSUME NEW h \in PolicyHandles, NEW o \in D, Becomes(h, o),
               edited' \subseteq edited \cup {h}
        PROVE  Typed'
    <3>1. /\ class' = class /\ DOMAIN object' = PolicyHandles
          /\ \A g \in PolicyHandles : object'[g] = IF g = h THEN o ELSE object[g]
      BY <2>1, <2>2 DEF Becomes
    <3> QED
      BY <2>1, <2>2, <3>1, ClassTable DEF ObjectsTypeOK
  <2>3. HoldsMaps =>
            /\ D = [props : MapsTo({"x", "y"}), to_propagate : MapsTo(BOOLEAN)]
            /\ ClassOf[class].default \in D /\ ClassOf[class].factories = {}
    BY ProperMaps DEF HoldsMaps
  <2>4. ~HoldsMaps => Proper(D, ClassOf[class])
    BY <2>1, ProperClasses DEF HoldsMaps
  <2> HIDE DEF D, Typed
  <2>5. ASSUME NEW h \in PolicyHandles, NEW o \in D, Constructed(h, o)
        PROVE  Typed'
    <3>1. Becomes(h, o) /\ edited' = edited \ {h}
      BY <2>5 DEF Constructed
    <3> HIDE DEF Becomes
    <3> QED
      BY <2>2, <2>5, <3>1
  <2>6. ASSUME NEW h \in PolicyHandles, ConstructPolicy(h)
        PROVE  Typed'
    <3>1. PICK o \in {ClassOf[class].default} \cup ClassOf[class].factories
                      \cup (IF HoldsMaps THEN {} ELSE ClassOf[class].delegate) : Constructed(h, o)
      BY <2>6 DEF ConstructPolicy
    <3>2. o \in D
      BY <2>3, <2>4, <3>1 DEF Proper, D
    <3> QED
      BY <2>5, <3>1, <3>2
  <2>7. ASSUME NEW h \in PolicyHandles, ConstructMaps(h)
        PROVE  Typed'
    <3>1. PICK ns \in SUBSET Names, propagate \in BOOLEAN :
              Constructed(h, [props |-> [n \in ns |-> "x"],
                              to_propagate |-> [n \in ns |-> propagate]])
      BY <2>7 DEF ConstructMaps
    <3>2. [n \in ns |-> "x"] \in MapsTo({"x", "y"}) /\ [n \in ns |-> propagate] \in MapsTo(BOOLEAN)
      BY DEF MapsTo
    <3>3. [props |-> [n \in ns |-> "x"], to_propagate |-> [n \in ns |-> propagate]] \in D
      BY <2>3, <2>7, <3>2 DEF ConstructMaps
    <3> QED
      BY <2>5, <3>1, <3>3
  <2>8. ASSUME NEW h \in PolicyHandles, SetMember(h)
        PROVE  Typed'
    <3>1. PICK f \in DOMAIN object[h] : \E v \in {o[f] : o \in ClassOf[class].delegate} :
              Becomes(h, [object[h] EXCEPT ![f] = v])
      BY <2>8 DEF SetMember
    <3>2. PICK p \in D : Becomes(h, [object[h] EXCEPT ![f] = p[f]])
      BY <3>1 DEF D
    <3>3. object[h] \in D /\ ~HoldsMaps /\ edited' = edited \cup {h}
      BY <2>1, <2>8 DEF SetMember
    <3>4. [object[h] EXCEPT ![f] = p[f]] \in D
      BY <2>4, <3>1, <3>2, <3>3 DEF Proper
    <3> QED
      BY <2>2, <3>2, <3>3, <3>4
  <2>9. ASSUME NEW h \in PolicyHandles, SetEntry(h)
        PROVE  Typed'
    <3>1. PICK n \in Names, v \in {"x", "y"}, propagate \in BOOLEAN :
              Becomes(h, [props |-> WithEntry(object[h].props, n, v),
                          to_propagate |-> WithEntry(object[h].to_propagate, n, propagate)])
      BY <2>9 DEF SetEntry
    <3>2. object[h] \in D /\ HoldsMaps /\ edited' = edited \cup {h}
      BY <2>1, <2>9 DEF SetEntry
    <3>3. /\ object[h].props \in MapsTo({"x", "y"})
          /\ object[h].to_propagate \in MapsTo(BOOLEAN)
      <4>1. object[h] \in [props : MapsTo({"x", "y"}), to_propagate : MapsTo(BOOLEAN)]
        BY <2>3, <3>2
      <4> QED
        BY <4>1
    <3>4. [props |-> WithEntry(object[h].props, n, v),
           to_propagate |-> WithEntry(object[h].to_propagate, n, propagate)] \in D
      BY <2>3, <3>2, <3>3, MapsStay
    <3> QED
      BY <2>2, <3>1, <3>2, <3>4
  <2>10. ASSUME NEW h \in PolicyHandles, RemoveEntry(h)
         PROVE  Typed'
    <3>1. PICK n \in DOMAIN object[h].props :
              Becomes(h, [props |-> WithoutEntry(object[h].props, n),
                          to_propagate |-> WithoutEntry(object[h].to_propagate, n)])
      BY <2>10 DEF RemoveEntry
    <3>2. object[h] \in D /\ HoldsMaps /\ edited' = edited \cup {h}
      BY <2>1, <2>10 DEF RemoveEntry
    <3>3. /\ object[h].props \in MapsTo({"x", "y"})
          /\ object[h].to_propagate \in MapsTo(BOOLEAN)
      <4>1. object[h] \in [props : MapsTo({"x", "y"}), to_propagate : MapsTo(BOOLEAN)]
        BY <2>3, <3>2
      <4> QED
        BY <4>1
    <3>4. n \in Names
      BY <3>1, <3>3 DEF MapsTo
    <3>5. [props |-> WithoutEntry(object[h].props, n),
           to_propagate |-> WithoutEntry(object[h].to_propagate, n)] \in D
      BY <2>3, <3>2, <3>3, <3>4, MapsStay
    <3> QED
      BY <2>2, <3>1, <3>2, <3>5
  <2>11. ASSUME NEW h \in PolicyHandles, Copy(h)
         PROVE  Typed'
    <3>1. PICK source \in PolicyHandles \ {h} :
              /\ object[source] # NoObject
              /\ Becomes(h, object[source])
              /\ edited' = IF source \in edited THEN edited \cup {h} ELSE edited \ {h}
      BY <2>11 DEF Copy
    <3>2. object[source] \in D /\ edited' \subseteq edited \cup {h}
      BY <2>1, <3>1
    <3> QED
      BY <2>2, <3>1, <3>2
  <2>12. CASE UNCHANGED objectVars
    BY <2>1, <2>12, ClassTable DEF objectVars, ObjectsTypeOK, Typed, D
  <2> QED
    BY <2>6, <2>7, <2>8, <2>9, <2>10, <2>11, <2>12 DEF ObjectsNext
<1>3. Typed => ObjectsTypeOK
  OBVIOUS
<1> HIDE DEF Typed
<1> QED
  BY <1>1, <1>2, <1>3, PTL DEF ObjectsSpec

(* A policy object that no setter touched is one a qos takes, however it   *)
(* was constructed, made by a factory or copied; the two maps of a         *)
(* property policy name the same properties; and an object constructed     *)
(* without arguments gives an entity the default of the C library.         *)
THEOREM ObjectsStayAgreed == ObjectsSpec => []PolicyObjectsAgree
<1>1. ObjectsInit => ObjectsInv
  BY ClassTable DEF ObjectsInit, ObjectsInv, PolicyHandles
<1>2. ObjectsInv /\ [ObjectsNext]_objectVars => ObjectsInv'
  BY ObjectsStep
<1>3. ObjectsInv => PolicyObjectsAgree
  BY DefaultsAgree DEF ObjectsInv, PolicyObjectsAgree
<1> QED
  BY <1>1, <1>2, <1>3, PTL DEF ObjectsSpec

-----------------------------------------------------------------------------
(***************************************************************************)
(* Durations and times that are calculated with.                           *)
(***************************************************************************)
(* The seconds of a duration that is constructed fit an int32_t. It is     *)
(* needed: a constructor takes an int64_t, and the setter casts it. And a  *)
(* time is one that C can count in nanoseconds.                            *)
ArgumentsInRange ==
    /\ \A s \in SomeSecs : s <= Reserved
    /\ \A n \in SomeNanosecs : n \div MS <= Reserved /\ n \div MiS <= Reserved
    /\ TimeBound <= Reserved

(* The units.                                                              *)
LEMMA MicroUnits ==
    /\ MS \in Nat /\ MS >= 2 /\ MiS \in Nat /\ MiS > 0 /\ NS = MiS * MS /\ NS = MS * MiS
    /\ MiS < NS /\ Reserved >= 2 * NS
<1>1. MS \in Nat /\ MS >= 2
  BY UnitsAssumption
<1>2. MiS \in Nat /\ MiS > 0
  BY <1>1 DEF MiS
<1>3. NS = MiS * MS /\ NS = MS * MiS
  BY <1>1, <1>2 DEF NS, MiS
<1>4. MiS < MiS * MS
  BY <1>1, <1>2, LongerSeconds
<1> QED
  BY <1>1, <1>2, <1>3, <1>4, Units

(* Quotient and remainder.                                                 *)
LEMMA QuotientAndRest ==
    ASSUME NEW a \in Nat, NEW m \in Nat, m > 0
    PROVE  /\ a \div m \in Nat /\ a % m \in Nat /\ a % m < m
           /\ a = (a \div m) * m + (a % m)
<1>1. a \div m \in Nat /\ a % m \in Nat /\ a % m < m
  <2>1. a \div m \in Int /\ a \div m >= 0
    OBVIOUS
  <2>2. a % m \in 0 .. m - 1
    OBVIOUS
  <2> QED
    BY <2>1, <2>2
<1>2. ASSUME NEW q \in Int, NEW r \in Int, q = a \div m, r = a % m
      PROVE  a = q * m + r
  BY <1>2
<1> QED
  BY <1>1, <1>2

LEMMA QuotientBound ==
    ASSUME NEW a \in Nat, NEW m \in Nat, m > 0, NEW k \in Nat, a < k * m
    PROVE  a \div m < k
<1> DEFINE q == a \div m
           r == a % m
<1>1. q \in Nat /\ r \in Nat /\ a = q * m + r
  BY QuotientAndRest
<1> HIDE DEF q, r
<1>2. ASSUME k <= q PROVE FALSE
  <2>1. k * m <= q * m
    <3>1. CASE k = q
      BY <3>1
    <3>2. CASE k < q
      <4>1. k * m + m <= q * m
        BY <1>1, <3>2, LongerSeconds
      <4>2. k * m \in Nat /\ q * m \in Nat
        BY <1>1
      <4> QED
        BY <4>1, <4>2
    <3> QED
      BY <1>1, <1>2, <3>1, <3>2
  <2>2. k * m \in Nat /\ q * m \in Nat
    BY <1>1
  <2> QED
    BY <1>1, <2>1, <2>2
<1>3. q < k
  BY <1>1, <1>2
<1> QED
  BY <1>3 DEF q

LEMMA SmallInt32 ==
    ASSUME NEW s \in Nat, s <= Reserved
    PROVE  Int32(s) = s
BY Units DEF Int32

LEMMA Int32Range ==
    ASSUME NEW s \in Int
    PROVE  Int32(s) \in -(Reserved + 1) .. Reserved
<1>1. 2 * (Reserved + 1) \in Nat /\ 2 * (Reserved + 1) > 0
  BY Units
<1>2. (s + Reserved + 1) % (2 * (Reserved + 1)) \in 0 .. 2 * (Reserved + 1) - 1
  BY <1>1, Units
<1> QED
  BY <1>2, Units DEF Int32

(* What the members of a duration and of a time may be.                    *)
Nanosecs == 0 .. NS \cup {Reserved}
DurationValue == [sec : -(Reserved + 1) .. Reserved, nanosec : Nanosecs]
TimeValue == [sec : Int, nanosec : Nanosecs]

(* What a call that returns, and one that throws, leaves.                  *)
LEMMA Outcomes ==
    ASSUME NEW v
    PROVE  /\ Returned(v).value = v /\ ~Returned(v).threw /\ Returned(v).threw \in BOOLEAN
           /\ Threw(v).value = v /\ Threw(v).threw /\ Threw(v).threw \in BOOLEAN
BY DEF Returned, Threw

(* The setters.                                                            *)
LEMMA SetSecThrows ==
    ASSUME NEW v, NEW s \in Int, s < 0
    PROVE  SetSec(v, s) = Threw(v)
BY DEF SetSec

LEMMA SetSecReturns ==
    ASSUME NEW a, NEW n, NEW s \in Nat
    PROVE  SetSec([sec |-> a, nanosec |-> n], s) = Returned([sec |-> Int32(s), nanosec |-> n])
<1>1. ~(s < 0)
  OBVIOUS
<1>2. [[sec |-> a, nanosec |-> n] EXCEPT !.sec = Int32(s)] = [sec |-> Int32(s), nanosec |-> n]
  OBVIOUS
<1> QED
  BY <1>1, <1>2 DEF SetSec

LEMMA SetNanosecThrows ==
    ASSUME NEW v, NEW n \in Nat, n >= NS, n # Reserved
    PROVE  SetNanosec(v, n) = Threw(v)
BY DEF SetNanosec

LEMMA SetNanosecReturns ==
    ASSUME NEW a, NEW b, NEW n \in Nat, n < NS \/ n = Reserved
    PROVE  SetNanosec([sec |-> a, nanosec |-> b], n) = Returned([sec |-> a, nanosec |-> n])
<1>1. ~(n >= NS /\ n # Reserved)
  BY Units
<1>2. [[sec |-> a, nanosec |-> b] EXCEPT !.nanosec = n] = [sec |-> a, nanosec |-> n]
  OBVIOUS
<1> QED
  BY <1>1, <1>2 DEF SetNanosec

(* Both, after each other.                                                 *)
LEMMA SetBothReturns ==
    ASSUME NEW a, NEW b, NEW s \in Nat, NEW n \in Nat, n < NS \/ n = Reserved
    PROVE  Then(SetSec([sec |-> a, nanosec |-> b], s), LAMBDA w : SetNanosec(w, n))
               = Returned([sec |-> Int32(s), nanosec |-> n])
<1> DEFINE first == SetSec([sec |-> a, nanosec |-> b], s)
           u == [sec |-> Int32(s), nanosec |-> b]
<1>1. first = Returned(u)
  BY SetSecReturns
<1>2. SetNanosec(u, n) = Returned([sec |-> Int32(s), nanosec |-> n])
  BY SetNanosecReturns
<1> HIDE DEF first, u
<1>3. first.value = u /\ ~first.threw
  BY <1>1, Outcomes
<1>4. Then(first, LAMBDA w : SetNanosec(w, n)) = SetNanosec(u, n)
  BY <1>3 DEF Then
<1> QED
  BY <1>2, <1>4 DEF first

(* A constructor returns what it was asked for, or throws.                 *)
LEMMA ConstructReturns ==
    ASSUME NEW s \in Nat, NEW n \in Nat, n < NS \/ n = Reserved
    PROVE  ConstructDuration(s, n) = Returned([sec |-> Int32(s), nanosec |-> n])
BY SetBothReturns DEF ConstructDuration, Zero

LEMMA ConstructThrows ==
    ASSUME NEW s \in Int, NEW n \in Nat, s < 0 \/ (n >= NS /\ n # Reserved)
    PROVE  ConstructDuration(s, n).threw
<1>1. CASE s < 0
  <2>1. ConstructDuration(s, n) = Threw(Zero)
    BY <1>1, SetSecThrows, Outcomes DEF ConstructDuration, Then
  <2> QED
    BY <2>1, Outcomes
<1>2. CASE s >= 0 /\ n >= NS /\ n # Reserved
  <2>1. ConstructDuration(s, n) = Threw([sec |-> Int32(s), nanosec |-> 0])
    <3>1. SetSec(Zero, s) = Returned([sec |-> Int32(s), nanosec |-> 0])
      BY <1>2, SetSecReturns DEF Zero
    <3> QED
      BY <1>2, <3>1, SetNanosecThrows, Outcomes DEF ConstructDuration, Then
  <2> QED
    BY <2>1, Outcomes
<1> QED
  BY <1>1, <1>2

(* What the application constructs, and what it adds and subtracts.        *)
LEMMA ConstructValue ==
    ASSUME ArgumentsInRange, NEW s \in SomeSecs, NEW n \in SomeNanosecs
    PROVE  LET o == ConstructDuration(s, n)
           IN  /\ o.threw \in BOOLEAN
               /\ ~o.threw => /\ s \in 0 .. Reserved /\ n \in Nat /\ (n < NS \/ n = Reserved)
                              /\ o.value = [sec |-> s, nanosec |-> n]
<1> DEFINE o == ConstructDuration(s, n)
<1>1. s \in Int /\ n \in Nat /\ s <= Reserved
  BY ArgumentsAssumption DEF ArgumentsInRange
<1>2. CASE s >= 0 /\ (n < NS \/ n = Reserved)
  <2>1. o = Returned([sec |-> Int32(s), nanosec |-> n])
    BY <1>1, <1>2, ConstructReturns
  <2>2. Int32(s) = s
    BY <1>1, <1>2, SmallInt32
  <2>3. s \in 0 .. Reserved
    BY <1>1, <1>2, Units
  <2> HIDE DEF o
  <2>4. /\ o.threw \in BOOLEAN
        /\ o.value = [sec |-> s, nanosec |-> n]
    BY <2>1, <2>2, Outcomes
  <2> QED
    BY <1>1, <1>2, <2>3, <2>4 DEF o
<1>3. CASE s < 0 \/ (n >= NS /\ n # Reserved)
  <2>1. o.threw
    BY <1>1, <1>3, ConstructThrows
  <2>2. o.threw \in BOOLEAN
    <3>1. CASE s < 0
      BY <1>1, <3>1, SetSecThrows, Outcomes DEF ConstructDuration, Then
    <3>2. CASE s >= 0 /\ n >= NS /\ n # Reserved
      <4>1. SetSec(Zero, s) = Returned([sec |-> Int32(s), nanosec |-> 0])
        BY <1>1, <3>2, SetSecReturns DEF Zero
      <4>2. o = Threw([sec |-> Int32(s), nanosec |-> 0])
        BY <1>1, <3>2, <4>1, SetNanosecThrows, Outcomes DEF ConstructDuration, Then
      <4> HIDE DEF o
      <4> QED
        BY <4>2, Outcomes
    <3> QED
      BY <1>1, <1>3, <3>1, <3>2
  <2> HIDE DEF o
  <2> QED
    BY <2>1, <2>2 DEF o
<1> QED
  BY <1>1, <1>2, <1>3, Units

LEMMA DurationsAre ==
    ASSUME ArgumentsInRange, NEW w \in Durations
    PROVE  /\ w.sec \in 0 .. Reserved /\ w.nanosec \in Nat
           /\ w.nanosec < NS \/ w.nanosec = Reserved
           /\ w = [sec |-> w.sec, nanosec |-> w.nanosec]
<1>1. PICK s \in SomeSecs, n \in SomeNanosecs :
          w = [sec |-> s, nanosec |-> n] /\ ~ConstructDuration(w.sec, w.nanosec).threw
  BY DEF Durations
<1>2. w.sec = s /\ w.nanosec = n
  BY <1>1
<1> QED
  BY <1>1, <1>2, ConstructValue

(* Products with a unit.                                                   *)
LEMMA Distributes ==
    ASSUME NEW a \in Int, NEW b \in Int, NEW m \in Int
    PROVE  (a + b) * m = a * m + b * m /\ (a - b) * m = a * m - b * m
           /\ a * m \in Int /\ b * m \in Int /\ (a * b) * m = a * (b * m) /\ (a * b) * m = (a * m) * b
OBVIOUS

LEMMA TotalOf ==
    ASSUME NEW s \in Int, NEW n \in Int
    PROVE  Total([sec |-> s, nanosec |-> n]) = s * NS + n /\ Total([sec |-> s, nanosec |-> n]) \in Int
<1>1. s * NS + n \in Int
  BY Units
<1> QED
  BY <1>1 DEF Total

(* Division makes nothing larger.                                          *)
LEMMA QuotientIsLess ==
    ASSUME NEW n \in Nat, NEW k \in Nat, k > 0
    PROVE  n \div k <= n
<1> DEFINE q == n \div k
           r == n % k
<1>1. q \in Nat /\ r \in Nat /\ r < k /\ n = q * k + r
  BY QuotientAndRest
<1> HIDE DEF q, r
<1>2. q <= q * k
  <2>1. CASE k = 1
    BY <1>1, <2>1
  <2>2. CASE k > 1
    <3>1. CASE q = 0
      BY <1>1, <3>1
    <3>2. CASE q > 0
      <4>1. 1 * q + q <= k * q
        BY <1>1, <2>2, <3>2, LongerSeconds
      <4>2. k * q = q * k /\ 1 * q = q
        BY <1>1
      <4> QED
        BY <1>1, <4>1, <4>2
    <3> QED
      BY <1>1, <3>1, <3>2
  <2> QED
    BY <2>1, <2>2
<1>3. q * k \in Nat
  BY <1>1
<1>4. q <= n
  BY <1>1, <1>2, <1>3
<1> QED
  BY <1>4 DEF q

(* Units that are counted from zero come out in seconds and nanoseconds.   *)
LEMMA InUnits ==
    ASSUME NEW n \in Nat, NEW k \in Nat, NEW m \in Nat, k > 0, m > 0, k * m = NS
    PROVE  /\ n \div k \in Nat /\ (n % k) * m \in Nat /\ (n % k) * m < NS
           /\ (n \div k) * NS + (n % k) * m = n * m
<1> DEFINE q == n \div k
           r == n % k
<1>1. q \in Nat /\ r \in Nat /\ r < k /\ n = q * k + r
  BY QuotientAndRest
<1> HIDE DEF q, r
<1>2. r * m \in Nat /\ r * m + m <= k * m
  BY <1>1, LongerSeconds
<1>3. (q * k + r) * m = (q * k) * m + r * m /\ (q * k) * m = q * (k * m)
  <2>1. q * k \in Int
    BY <1>1
  <2> QED
    BY <1>1, <2>1, Distributes
<1>4. n * m = q * NS + r * m
  BY <1>1, <1>3
<1> QED
  BY <1>1, <1>2, <1>4, Units DEF q, r

LEMMA FromMicrosecsReturns ==
    ASSUME NEW n \in Nat
    PROVE  LET o == FromMicrosecs(n)
           IN  /\ o = Returned([sec |-> Int32(n \div MiS), nanosec |-> (n % MiS) * MS])
               /\ n \div MiS \in Nat /\ (n % MiS) * MS \in Nat /\ (n % MiS) * MS < NS
               /\ (n \div MiS) * NS + (n % MiS) * MS = n * MS
<1>1. /\ n \div MiS \in Nat /\ (n % MiS) * MS \in Nat /\ (n % MiS) * MS < NS
      /\ (n \div MiS) * NS + (n % MiS) * MS = n * MS
  BY MicroUnits, InUnits
<1> QED
  BY <1>1, ConstructReturns DEF FromMicrosecs

LEMMA FromMillisecsReturns ==
    ASSUME NEW n \in Nat
    PROVE  LET o == FromMillisecs(n)
           IN  /\ o = Returned([sec |-> Int32(n \div MS), nanosec |-> (n % MS) * MiS])
               /\ n \div MS \in Nat /\ (n % MS) * MiS \in Nat /\ (n % MS) * MiS < NS
               /\ (n \div MS) * NS + (n % MS) * MiS = n * MiS
<1>1. /\ n \div MS \in Nat /\ (n % MS) * MiS \in Nat /\ (n % MS) * MiS < NS
      /\ (n \div MS) * NS + (n % MS) * MiS = n * MiS
  BY MicroUnits, InUnits
<1> QED
  BY <1>1, ConstructReturns DEF FromMillisecs

(* The two members of a sum.                                               *)
LEMMA CarryKeepsTotal ==
    ASSUME NEW s \in Int, NEW n \in Nat, n < 2 * NS
    PROVE  \E x \in {s, s + 1}, y \in 0 .. NS :
               Carry(s, n) = [sec |-> x, nanosec |-> y] /\ x * NS + y = s * NS + n
<1>1. CASE n > NS
  <2>1. n % NS = n - NS
    <3>1. n - NS \in Nat /\ n - NS < NS
      BY <1>1, Units
    <3>2. (1 * NS + (n - NS)) % NS = n - NS
      BY <3>1, Units, Division
    <3>3. 1 * NS + (n - NS) = n
      BY Units
    <3> QED
      BY <3>2, <3>3
  <2>2. Carry(s, n) = [sec |-> s + 1, nanosec |-> n - NS]
    BY <1>1, <2>1 DEF Carry
  <2>3. (s + 1) * NS + (n - NS) = s * NS + n
    <3>1. (s + 1) * NS = s * NS + 1 * NS /\ s * NS \in Int
      BY Units, Distributes
    <3> QED
      BY <3>1, Units
  <2>4. n - NS \in 0 .. NS
    BY <1>1, Units
  <2> QED
    BY <2>2, <2>3, <2>4
<1>2. CASE ~(n > NS)
  <2>1. Carry(s, n) = [sec |-> s, nanosec |-> n]
    BY <1>2 DEF Carry
  <2>2. n \in 0 .. NS
    BY <1>2, Units
  <2> QED
    BY <2>1, <2>2
<1> QED
  BY <1>1, <1>2

(* +=                                                                      *)
LEMMA PlusExact ==
    ASSUME ArgumentsInRange, NEW v \in DurationValue, NEW w \in Durations
    PROVE  \/ Plus(v, w) = Threw(v)
           \/ /\ \E x \in Int, y \in 0 .. NS :
                     /\ Plus(v, w) = Returned([sec |-> Int32(x), nanosec |-> y])
                     /\ x * NS + y = Total(v) + Total(w)
                     /\ x \in {v.sec + w.sec, v.sec + w.sec + 1}
<1>1. PICK s \in Int, n \in Int : v = [sec |-> s, nanosec |-> n]
  BY Units DEF DurationValue, Nanosecs
<1>2. n \in Nat
  BY <1>1, Units DEF DurationValue, Nanosecs
<1>3. w.sec \in Nat /\ w.nanosec \in Nat
  BY DurationsAre, Units
<1>4. CASE ~ValidForArithmetic(v) \/ ~ValidForArithmetic(w)
  BY <1>4 DEF Plus
<1>5. CASE ValidForArithmetic(v) /\ ValidForArithmetic(w)
  <2>1. n < NS /\ w.nanosec < NS
    BY <1>1, <1>5 DEF ValidForArithmetic
  <2>2. n + w.nanosec \in Nat /\ n + w.nanosec < 2 * NS /\ s + w.sec \in Int
    BY <1>2, <1>3, <2>1, Units
  <2>3. PICK x \in {s + w.sec, s + w.sec + 1}, y \in 0 .. NS :
            /\ Carry(s + w.sec, n + w.nanosec) = [sec |-> x, nanosec |-> y]
            /\ x * NS + y = (s + w.sec) * NS + (n + w.nanosec)
    BY <2>2, CarryKeepsTotal
  <2>4. Plus(v, w) = Returned([[sec |-> x, nanosec |-> y] EXCEPT !.sec = Int32(@)])
    BY <1>1, <1>5, <2>3 DEF Plus
  <2>5. [[sec |-> x, nanosec |-> y] EXCEPT !.sec = Int32(@)] = [sec |-> Int32(x), nanosec |-> y]
    OBVIOUS
  <2>6. Total(v) + Total(w) = (s + w.sec) * NS + (n + w.nanosec)
    <3>1. (s + w.sec) * NS = s * NS + w.sec * NS /\ s * NS \in Int /\ w.sec * NS \in Int
      BY <1>3, Units, Distributes
    <3>2. Total(v) = s * NS + n /\ Total(w) = w.sec * NS + w.nanosec
      BY <1>1 DEF Total
    <3> QED
      BY <1>2, <1>3, <3>1, <3>2
  <2>7. x \in Int
    BY <2>2
  <2> QED
    BY <1>1, <2>3, <2>4, <2>5, <2>6, <2>7
<1> QED
  BY <1>4, <1>5

LEMMA PlusTimeExact ==
    ASSUME ArgumentsInRange, NEW v \in TimeValue, NEW w \in Durations
    PROVE  \/ PlusTime(v, w) = Threw(v)
           \/ \E x \in Int, y \in 0 .. NS :
                  /\ PlusTime(v, w) = Returned([sec |-> x, nanosec |-> y])
                  /\ x * NS + y = Total(v) + Total(w)
<1>1. PICK s \in Int, n \in Int : v = [sec |-> s, nanosec |-> n]
  BY Units DEF TimeValue, Nanosecs
<1>2. n \in Nat
  BY <1>1, Units DEF TimeValue, Nanosecs
<1>3. w.sec \in Nat /\ w.nanosec \in Nat
  BY DurationsAre, Units
<1>4. CASE ~ValidForArithmetic(v) \/ ~ValidForArithmetic(w)
  BY <1>4 DEF PlusTime
<1>5. CASE ValidForArithmetic(v) /\ ValidForArithmetic(w)
  <2>1. n < NS /\ w.nanosec < NS
    BY <1>1, <1>5 DEF ValidForArithmetic
  <2>2. n + w.nanosec \in Nat /\ n + w.nanosec < 2 * NS /\ s + w.sec \in Int
    BY <1>2, <1>3, <2>1, Units
  <2>3. PICK x \in {s + w.sec, s + w.sec + 1}, y \in 0 .. NS :
            /\ Carry(s + w.sec, n + w.nanosec) = [sec |-> x, nanosec |-> y]
            /\ x * NS + y = (s + w.sec) * NS + (n + w.nanosec)
    BY <2>2, CarryKeepsTotal
  <2>4. PlusTime(v, w) = Returned([sec |-> x, nanosec |-> y])
    BY <1>1, <1>5, <2>3 DEF PlusTime
  <2>6. Total(v) + Total(w) = (s + w.sec) * NS + (n + w.nanosec)
    <3>1. (s + w.sec) * NS = s * NS + w.sec * NS /\ s * NS \in Int /\ w.sec * NS \in Int
      BY <1>3, Units, Distributes
    <3>2. Total(v) = s * NS + n /\ Total(w) = w.sec * NS + w.nanosec
      BY <1>1 DEF Total
    <3> QED
      BY <1>2, <1>3, <3>1, <3>2
  <2>7. x \in Int
    BY <2>2
  <2> QED
    BY <2>3, <2>4, <2>6, <2>7
<1> QED
  BY <1>4, <1>5

(* -=                                                                      *)
LEMMA BorrowKeepsTotal ==
    ASSUME NEW s \in Int, NEW n \in Nat, NEW r \in Int, NEW k \in Nat, n < NS, k < NS
    PROVE  \E x \in {s - r, s - r - 1}, y \in Nat :
               /\ y < NS
               /\ Borrow([sec |-> s, nanosec |-> n], [sec |-> r, nanosec |-> k])
                      = [sec |-> x, nanosec |-> y]
               /\ x * NS + y = (s * NS + n) - (r * NS + k)
<1>1. (s - r) * NS = s * NS - r * NS /\ s * NS \in Int /\ r * NS \in Int
  BY Units, Distributes
<1>2. CASE n < k
  <2>1. Borrow([sec |-> s, nanosec |-> n], [sec |-> r, nanosec |-> k])
            = [sec |-> s - r - 1, nanosec |-> n + NS - k]
    BY <1>2 DEF Borrow
  <2>2. ((s - r) - 1) * NS = (s - r) * NS - 1 * NS
    BY Units, Distributes
  <2>3. (s - r - 1) * NS + (n + NS - k) = (s * NS + n) - (r * NS + k)
    BY <1>1, <2>2, Units
  <2>4. n + NS - k \in Nat /\ n + NS - k < NS
    BY <1>2, Units
  <2> QED
    BY <2>1, <2>3, <2>4
<1>3. CASE ~(n < k)
  <2>1. Borrow([sec |-> s, nanosec |-> n], [sec |-> r, nanosec |-> k])
            = [sec |-> s - r, nanosec |-> n - k]
    BY <1>3 DEF Borrow
  <2>2. (s - r) * NS + (n - k) = (s * NS + n) - (r * NS + k)
    BY <1>1
  <2>3. n - k \in Nat /\ n - k < NS
    BY <1>3, Units
  <2> QED
    BY <2>1, <2>2, <2>3
<1> QED
  BY <1>2, <1>3

LEMMA MinusExact ==
    ASSUME ArgumentsInRange, NEW v \in DurationValue, NEW w \in Durations
    PROVE  \/ Minus(v, w) = Threw(v)
           \/ \E x \in 0 .. Reserved, y \in Nat :
                  /\ y < NS
                  /\ Minus(v, w) = Returned([sec |-> x, nanosec |-> y])
                  /\ x * NS + y = Total(v) - Total(w)
<1>1. PICK s \in -(Reserved + 1) .. Reserved, n \in Nanosecs : v = [sec |-> s, nanosec |-> n]
  BY DEF DurationValue
<1>2. s \in Int /\ n \in Nat /\ s <= Reserved
  BY Units DEF Nanosecs
<1>3. PICK r \in Nat, k \in Nat : w = [sec |-> r, nanosec |-> k]
  BY DurationsAre, Units
<1>4. CASE ~ValidForArithmetic(v) \/ ~ValidForArithmetic(w)
  BY <1>4 DEF Minus
<1>5. CASE ValidForArithmetic(v) /\ ValidForArithmetic(w)
  <2>1. n < NS /\ k < NS
    BY <1>1, <1>3, <1>5 DEF ValidForArithmetic
  <2>9. \E x \in {s - r, s - r - 1}, y \in Nat :
            /\ y < NS
            /\ Borrow(v, w) = [sec |-> x, nanosec |-> y]
            /\ x * NS + y = (s * NS + n) - (r * NS + k)
    <3>1. \E x \in {s - r, s - r - 1}, y \in Nat :
              /\ y < NS
              /\ Borrow([sec |-> s, nanosec |-> n], [sec |-> r, nanosec |-> k])
                     = [sec |-> x, nanosec |-> y]
              /\ x * NS + y = (s * NS + n) - (r * NS + k)
      BY <1>2, <2>1, BorrowKeepsTotal
    <3> QED
      BY <1>1, <1>3, <3>1
  <2>2. PICK x \in {s - r, s - r - 1}, y \in Nat :
            /\ y < NS
            /\ Borrow(v, w) = [sec |-> x, nanosec |-> y]
            /\ x * NS + y = (s * NS + n) - (r * NS + k)
    BY <2>9
  <2>3. x \in Int /\ x <= s - r
    BY <1>2, <1>3, <2>2
  <2> DEFINE b == Borrow(v, w)
             Second(u) == Then(SetSec(u, b.sec), LAMBDA z : SetNanosec(z, b.nanosec))
             tmp == Then(SetSec(Zero, v.sec - w.sec), LAMBDA u : Second(u))
  <2>4. Minus(v, w) = IF tmp.threw \/ ~ValidForArithmetic(tmp.value) THEN Threw(v) ELSE tmp
    BY <1>5 DEF Minus
  <2>5. b.sec = x /\ b.nanosec = y
    BY <2>2
  <2>8. v.sec - w.sec = s - r /\ s - r \in Int
    BY <1>1, <1>2, <1>3
  <2> HIDE DEF b
  <2>6. CASE x < 0
    <3>1. ASSUME NEW u PROVE Second(u).threw
      <4>1. SetSec(u, b.sec) = Threw(u)
        BY <2>3, <2>5, <2>6, SetSecThrows
      <4> QED
        BY <4>1, Outcomes DEF Then
    <3>2. tmp.threw
      <4> HIDE DEF Second
      <4>1. CASE SetSec(Zero, v.sec - w.sec).threw
        BY <4>1 DEF Then
      <4>2. CASE ~SetSec(Zero, v.sec - w.sec).threw
        <5>1. tmp = Second(SetSec(Zero, v.sec - w.sec).value)
          BY <4>2 DEF Then
        <5> HIDE DEF tmp
        <5> QED
          BY <3>1, <5>1
      <4> QED
        BY <4>1, <4>2
    <3> HIDE DEF tmp
    <3> QED
      BY <2>4, <3>2
  <2>7. CASE x >= 0
    <3>1. s - r \in Nat /\ x \in 0 .. Reserved /\ Int32(x) = x
      BY <1>2, <1>3, <2>3, <2>7, SmallInt32, Units
    <3>2. SetSec(Zero, v.sec - w.sec) = Returned([sec |-> Int32(s - r), nanosec |-> 0])
      BY <2>8, <3>1, SetSecReturns DEF Zero
    <3>3. tmp = Second([sec |-> Int32(s - r), nanosec |-> 0])
      <4> HIDE DEF Second
      <4> QED
        BY <3>2, Outcomes DEF Then
    <3>4. Second([sec |-> Int32(s - r), nanosec |-> 0])
              = Returned([sec |-> Int32(b.sec), nanosec |-> b.nanosec])
      <4>1. b.sec \in Nat /\ b.nanosec \in Nat /\ b.nanosec < NS
        BY <2>2, <2>3, <2>5, <2>7
      <4> QED
        BY <4>1, SetBothReturns
    <3>5. Total(v) - Total(w) = x * NS + y
      BY <1>1, <1>3, <2>2 DEF Total
    <3> HIDE DEF tmp, Second
    <3>6. tmp = Returned([sec |-> x, nanosec |-> y])
      BY <2>5, <3>1, <3>3, <3>4
    <3>7. Minus(v, w) \in {Threw(v), Returned([sec |-> x, nanosec |-> y])}
      BY <2>4, <3>6
    <3> QED
      BY <2>2, <3>1, <3>5, <3>7
  <2> QED
    BY <2>3, <2>6, <2>7
<1> QED
  BY <1>4, <1>5

LEMMA SetTimeNanosecReturns ==
    ASSUME NEW s, NEW n \in Nat
    PROVE  LET o == SetTimeNanosec([sec |-> s, nanosec |-> 0], n)
           IN  \/ o = Threw([sec |-> s, nanosec |-> 0])
               \/ o = Returned([sec |-> s, nanosec |-> n]) /\ (n < NS \/ n = Reserved)
<1>1. [[sec |-> s, nanosec |-> 0] EXCEPT !.nanosec = n] = [sec |-> s, nanosec |-> n]
  OBVIOUS
<1> QED
  BY <1>1, Units DEF SetTimeNanosec

LEMMA MinusTimeExact ==
    ASSUME ArgumentsInRange, NEW v \in TimeValue, NEW w \in Durations
    PROVE  \/ MinusTime(v, w) = Threw(v)
           \/ \E x \in Int, y \in 0 .. NS :
                  /\ MinusTime(v, w) = Returned([sec |-> x, nanosec |-> y])
                  /\ x * NS + y = Total(v) - Total(w)
<1>1. PICK s \in Int, n \in Nanosecs : v = [sec |-> s, nanosec |-> n]
  BY DEF TimeValue
<1>2. s \in Int /\ n \in Nat
  BY Units DEF Nanosecs
<1>3. PICK r \in Nat, k \in Nat : w = [sec |-> r, nanosec |-> k]
  BY DurationsAre, Units
<1>4. CASE ~ValidForArithmetic(v) \/ ~ValidForArithmetic(w) \/ v.sec - w.sec = -1
  BY <1>4 DEF MinusTime
<1>5. CASE ValidForArithmetic(v) /\ ValidForArithmetic(w) /\ v.sec - w.sec # -1
  <2>1. n < NS /\ k < NS
    BY <1>1, <1>3, <1>5 DEF ValidForArithmetic
  <2>9. \E x \in {s - r, s - r - 1}, y \in Nat :
            /\ y < NS
            /\ Borrow(v, w) = [sec |-> x, nanosec |-> y]
            /\ x * NS + y = (s * NS + n) - (r * NS + k)
    <3>1. \E x \in {s - r, s - r - 1}, y \in Nat :
              /\ y < NS
              /\ Borrow([sec |-> s, nanosec |-> n], [sec |-> r, nanosec |-> k])
                     = [sec |-> x, nanosec |-> y]
              /\ x * NS + y = (s * NS + n) - (r * NS + k)
      BY <1>2, <2>1, BorrowKeepsTotal
    <3> QED
      BY <1>1, <1>3, <3>1
  <2>2. PICK x \in {s - r, s - r - 1}, y \in Nat :
            /\ y < NS
            /\ Borrow(v, w) = [sec |-> x, nanosec |-> y]
            /\ x * NS + y = (s * NS + n) - (r * NS + k)
    BY <2>9
  <2>3. x \in Int /\ y \in 0 .. NS
    BY <1>2, <1>3, <2>2, Units
  <2> DEFINE tmp == SetTimeNanosec([sec |-> x, nanosec |-> 0], y)
  <2>4. MinusTime(v, w) = IF tmp.threw THEN Threw(v) ELSE tmp
    <3>1. [[sec |-> x, nanosec |-> y] EXCEPT !.nanosec = 0] = [sec |-> x, nanosec |-> 0]
      OBVIOUS
    <3> QED
      BY <1>5, <2>2, <3>1 DEF MinusTime
  <2>5. tmp \in {Threw([sec |-> x, nanosec |-> 0]), Returned([sec |-> x, nanosec |-> y])}
    BY <2>2, SetTimeNanosecReturns
  <2>6. Total(v) - Total(w) = x * NS + y
    BY <1>1, <1>3, <2>2 DEF Total
  <2> HIDE DEF tmp
  <2>7. MinusTime(v, w) \in {Threw(v), Returned([sec |-> x, nanosec |-> y])}
    BY <2>4, <2>5, Outcomes
  <2> QED
    BY <2>3, <2>6, <2>7
<1> QED
  BY <1>4, <1>5

(* *=                                                                      *)
LEMMA TimesExact ==
    ASSUME NEW v \in DurationValue, NEW k \in Nat
    PROVE  \E u \in DurationValue :
               \/ Times(v, k) = Threw(u)
               \/ /\ Times(v, k) = Returned(u)
                  /\ v.sec >= 0 /\ (v.sec + 1) * k <= Reserved =>
                         u.sec >= 0 /\ Total(u) = Total(v) * k
<1>1. PICK s \in -(Reserved + 1) .. Reserved, n \in Nanosecs : v = [sec |-> s, nanosec |-> n]
  BY DEF DurationValue
<1>2. s \in Int /\ n \in Nat /\ v.sec = s /\ v.nanosec = n
  BY <1>1, Units DEF Nanosecs
<1>3. CASE ~ValidForArithmetic(v)
  <2>1. Times(v, k) = Threw(v)
    BY <1>3 DEF Times
  <2> QED
    BY <2>1
<1>4. CASE ValidForArithmetic(v)
  <2>1. n < NS
    BY <1>1, <1>4 DEF ValidForArithmetic
  <2> DEFINE m == v.nanosec * k
             Carried(z) == Then(SetSec(z, z.sec + m \div NS), LAMBDA x : SetNanosec(x, m % NS))
             whole(z) == IF m > NS THEN Carried(z) ELSE SetNanosec(z, m)
             w == [sec |-> Int32(s * k), nanosec |-> n]
  <2>2. Times(v, k) = Then(SetSec(v, v.sec * k), LAMBDA x : whole(x))
    BY <1>4 DEF Times
  <2>3. m = n * k /\ m \in Nat /\ v.sec * k = s * k /\ s * k \in Int /\ n * k \in Nat
    BY <1>2
  <2>4. w \in DurationValue /\ w.sec = Int32(s * k) /\ Int32(s * k) \in Int
    BY <2>3, Int32Range, Units DEF DurationValue
  <2> HIDE DEF m, Carried, whole, w
  <2>5. CASE s * k < 0
    <3>1. SetSec(v, v.sec * k) = Threw(v)
      BY <2>3, <2>5, SetSecThrows
    <3>2. Times(v, k) = Threw(v)
      BY <2>2, <3>1, Outcomes DEF Then
    <3> QED
      BY <3>2
  <2>6. CASE s * k >= 0
    <3>1. SetSec(v, v.sec * k) = Returned(w)
      <4>1. s * k \in Nat
        BY <2>3, <2>6
      <4> QED
        BY <1>1, <2>3, <4>1, SetSecReturns DEF w
    <3>2. Times(v, k) = whole(w)
      BY <2>2, <3>1, Outcomes DEF Then
    <3>3. Total(v) * k = (s * k) * NS + n * k
      <4>1. (s * NS + n) * k = (s * NS) * k + n * k /\ (s * NS) * k = (s * k) * NS
        BY <1>2, Units, Distributes
      <4> QED
        BY <1>1, <4>1 DEF Total
    <3>4. ASSUME s >= 0, (s + 1) * k <= Reserved
          PROVE  s * k + k <= Reserved /\ s * k \in Nat /\ Int32(s * k) = s * k
      <4>1. (s + 1) * k = s * k + 1 * k /\ 1 * k = k
        BY <1>2, Distributes
      <4>2. s * k + k <= Reserved /\ s * k \in Nat
        BY <2>3, <2>6, <3>4, <4>1
      <4>3. s * k <= Reserved
        BY <4>2, Units
      <4> QED
        BY <4>2, <4>3, SmallInt32
    <3>5. CASE ~(m > NS)
      <4>1. whole(w) = SetNanosec(w, m)
        BY <3>5 DEF whole
      <4>2. CASE m = NS
        <5>1. SetNanosec(w, m) = Threw(w)
          BY <2>3, <4>2, Units, SetNanosecThrows
        <5> QED
          BY <2>4, <3>2, <4>1, <5>1
      <4>3. CASE m < NS
        <5> DEFINE u == [sec |-> Int32(s * k), nanosec |-> m]
        <5>1. SetNanosec(w, m) = Returned(u)
          BY <2>3, <4>3, SetNanosecReturns DEF w
        <5>2. u \in DurationValue
          BY <2>3, <4>3, Int32Range, Units DEF DurationValue, Nanosecs
        <5>3. ASSUME s >= 0, (s + 1) * k <= Reserved
              PROVE  u.sec >= 0 /\ Total(u) = Total(v) * k
          <6>1. u.sec = s * k /\ u.nanosec = n * k
            BY <2>3, <3>4, <5>3
          <6> QED
            BY <3>3, <3>4, <5>3, <6>1 DEF Total
        <5> HIDE DEF u
        <5> QED
          BY <1>2, <3>2, <4>1, <5>1, <5>2, <5>3
      <4> QED
        BY <2>3, <3>5, <4>2, <4>3, Units
    <3>6. CASE m > NS
      <4> DEFINE q == m \div NS
                 r == m % NS
                 p == w.sec + m \div NS
      <4>1. q \in Nat /\ r \in Nat /\ r < NS /\ m = q * NS + r
        BY <2>3, Units, QuotientAndRest
      <4>2. p \in Int /\ p = Int32(s * k) + q
        BY <2>4, <4>1
      <4>3. whole(w) = Carried(w)
        BY <3>6 DEF whole
      <4>4. CASE p < 0
        <5>1. SetSec(w, p) = Threw(w)
          BY <4>2, <4>4, SetSecThrows
        <5>2. Carried(w) = Threw(w)
          BY <5>1, Outcomes DEF Carried, Then
        <5> QED
          BY <2>4, <3>2, <4>3, <5>2
      <4>5. CASE p >= 0
        <5> DEFINE u == [sec |-> Int32(p), nanosec |-> r]
        <5>1. Carried(w) = Returned(u)
          <6>1. p \in Nat
            BY <4>2, <4>5
          <6> HIDE DEF r, p
          <6>2. Then(SetSec([sec |-> Int32(s * k), nanosec |-> n], p), LAMBDA x : SetNanosec(x, r))
                    = Returned([sec |-> Int32(p), nanosec |-> r])
            BY <4>1, <6>1, SetBothReturns
          <6> QED
            BY <6>2 DEF Carried, w, r, p
        <5>2. u \in DurationValue
          BY <4>1, <4>2, Int32Range, Units DEF DurationValue, Nanosecs
        <5> HIDE DEF q, r, p
        <5>3. ASSUME s >= 0, (s + 1) * k <= Reserved
              PROVE  u.sec >= 0 /\ Total(u) = Total(v) * k
          <6>1. q < k
            <7>1. k > 0
              <8>1. CASE k = 0
                BY <1>2, <2>3, <3>6, <8>1, Units
              <8> QED
                BY <8>1
            <7>2. n * k < NS * k
              BY <1>2, <2>1, <7>1, Units, LongerSeconds, Distributes
            <7>3. m < k * NS
              BY <2>3, <7>2, Units
            <7> QED
              BY <2>3, <7>3, Units, QuotientBound DEF q
          <6>2. p = s * k + q /\ p \in Nat /\ p <= Reserved
            <7>1. p = s * k + q
              BY <3>4, <4>2, <5>3
            <7>2. ASSUME NEW x \in Nat, x + k <= Reserved PROVE x + q \in Nat /\ x + q <= Reserved
              BY <4>1, <6>1, <7>2, Units
            <7> QED
              BY <3>4, <5>3, <7>1, <7>2
          <6>3. u.sec = p /\ u.nanosec = r
            BY <6>2, SmallInt32
          <6>4. (s * k + q) * NS = (s * k) * NS + q * NS
            BY <2>3, <4>1, Units, Distributes
          <6>5. Total(u) = (s * k) * NS + m
            <7>1. (s * k) * NS \in Int /\ q * NS \in Int
              BY <2>3, <4>1, Units
            <7> QED
              BY <4>1, <6>2, <6>3, <6>4, <7>1 DEF Total
          <6> QED
            BY <2>3, <3>3, <6>2, <6>3, <6>5
        <5> HIDE DEF u
        <5> QED
          BY <1>2, <3>2, <4>3, <5>1, <5>2, <5>3
      <4> QED
        BY <4>2, <4>4, <4>5
    <3> QED
      BY <2>3, <3>5, <3>6, Units
  <2> QED
    BY <2>3, <2>5, <2>6
<1> QED
  BY <1>3, <1>4

(* /                                                                       *)
LEMMA OverExact ==
    ASSUME NEW v \in DurationValue, NEW k \in Nat
    PROVE  \/ Over(v, k) = Threw(v)
           \/ \E u \in DurationValue :
                  /\ Over(v, k) = Returned(u) /\ k # 0
                  /\ v.sec >= 0 =>
                         u.sec >= 0 /\ Total(u) = ((Total(v) \div MS) \div k) * MS
<1>1. PICK s \in -(Reserved + 1) .. Reserved, n \in Nanosecs : v = [sec |-> s, nanosec |-> n]
  BY DEF DurationValue
<1>2. s \in Int /\ n \in Nat /\ v.sec = s /\ v.nanosec = n /\ s <= Reserved
  BY <1>1, Units DEF Nanosecs
<1>3. CASE ~ValidForArithmetic(v) \/ k = 0
  BY <1>3 DEF Over
<1>4. CASE ValidForArithmetic(v) /\ k # 0
  <2> DEFINE us == Quotient(ToMicrosecs(v), k)
             q == n \div MS
             r == n % MS
             u == [sec |-> Int32(us \div MiS), nanosec |-> (us % MiS) * MS]
  <2>1. n < NS /\ k > 0
    BY <1>1, <1>4 DEF ValidForArithmetic
  <2>2. q \in Nat /\ r \in Nat /\ r < MS /\ n = q * MS + r
    BY <1>2, MicroUnits, QuotientAndRest
  <2>3. ToMicrosecs(v) = s * MiS + q /\ s * MiS \in Int
    BY <1>2, MicroUnits DEF ToMicrosecs
  <2> HIDE DEF q, r
  <2>4. us \in Int
    <3>1. ASSUME NEW x \in Int PROVE Quotient(x, k) \in Int
      <4>1. CASE x >= 0
        BY <2>1, <4>1 DEF Quotient
      <4>2. CASE x < 0
        <5>1. -x \in Int /\ (-x) \div k \in Int
          BY <2>1
        <5> QED
          BY <4>2, <5>1 DEF Quotient
      <4> QED
        BY <4>1, <4>2
    <3>2. ToMicrosecs(v) \in Int
      BY <2>2, <2>3
    <3> QED
      BY <3>1, <3>2
  <2>5. Over(v, k) = IF us < 0 THEN Threw(v) ELSE Then(FromMicrosecs(us), Returned)
    BY <1>4 DEF Over
  <2>6. CASE us < 0
    BY <2>5, <2>6
  <2>7. CASE us >= 0
    <3>1. us \in Nat
      BY <2>4, <2>7
    <3> HIDE DEF us
    <3>2. FromMicrosecs(us) = Returned(u)
      BY <3>1, FromMicrosecsReturns
    <3>3. /\ us \div MiS \in Nat /\ (us % MiS) * MS \in Nat /\ (us % MiS) * MS < NS
          /\ (us \div MiS) * NS + (us % MiS) * MS = us * MS
      BY <3>1, FromMicrosecsReturns
    <3>4. Over(v, k) = Returned(u)
      <4> HIDE DEF u
      <4>1. Then(FromMicrosecs(us), Returned) = Returned(u)
        BY <3>2, Outcomes DEF Then
      <4> QED
        BY <2>4, <2>5, <2>7, <4>1
    <3>5. u \in DurationValue
      BY <3>3, Int32Range, Units DEF DurationValue, Nanosecs
    <3>6. ASSUME s >= 0
          PROVE  u.sec >= 0 /\ Total(u) = ((Total(v) \div MS) \div k) * MS
      <4> DEFINE T == s * MiS + q
      <4>1. T \in Nat /\ s \in Nat /\ s * MiS \in Nat
        BY <1>2, <2>2, <3>6, MicroUnits
      <4>2. Total(v) = T * MS + r
        <5>1. (s * MiS + q) * MS = (s * MiS) * MS + q * MS /\ (s * MiS) * MS = s * (MiS * MS)
          BY <1>2, <2>2, <4>1, MicroUnits, Distributes
        <5>2. Total(v) = s * NS + n /\ s * NS \in Int /\ q * MS \in Int
          BY <1>2, <2>2, MicroUnits, Units DEF Total
        <5> QED
          BY <2>2, <5>1, <5>2, MicroUnits
      <4>3. Total(v) \div MS = T
        <5> HIDE DEF T
        <5> QED
          BY <2>2, <4>1, <4>2, MicroUnits, Division
      <4>4. us = T \div k
        <5>1. ToMicrosecs(v) = T
          BY <2>3
        <5> HIDE DEF T
        <5>2. Quotient(T, k) = T \div k
          BY <4>1 DEF Quotient
        <5> QED
          BY <5>1, <5>2 DEF us
      <4>5. us \div MiS <= s
        <5>1. q < MiS
          BY <1>2, <2>1, MicroUnits, QuotientBound DEF q
        <5>2. (s + 1) * MiS = s * MiS + 1 * MiS
          BY <1>2, MicroUnits, Distributes
        <5>3. T < (s + 1) * MiS
          BY <2>2, <4>1, <5>1, <5>2, MicroUnits
        <5> HIDE DEF T
        <5>4. us <= T
          BY <2>1, <4>1, <4>4, QuotientIsLess
        <5>5. (s + 1) * MiS \in Nat /\ s + 1 \in Nat
          BY <4>1, MicroUnits
        <5>6. us < (s + 1) * MiS
          BY <3>1, <4>1, <5>3, <5>4, <5>5
        <5>7. us \div MiS < s + 1
          BY <3>1, <5>5, <5>6, MicroUnits, QuotientBound
        <5> QED
          BY <3>3, <4>1, <5>7
      <4>6. Int32(us \div MiS) = us \div MiS
        BY <1>2, <3>3, <4>1, <4>5, Units, SmallInt32
      <4>7. u.sec = us \div MiS /\ u.nanosec = (us % MiS) * MS
        BY <4>6
      <4>8. Total(u) = us * MS
        BY <3>3, <4>7 DEF Total
      <4> QED
        BY <3>3, <4>3, <4>4, <4>7, <4>8
    <3> HIDE DEF u
    <3> QED
      BY <1>2, <1>4, <3>4, <3>5, <3>6
  <2> QED
    BY <2>4, <2>6, <2>7
<1> QED
  BY <1>3, <1>4

-----------------------------------------------------------------------------
(* A duration that C can have: less than a second of nanoseconds, or       *)
(* infinite.                                                               *)
ForC(v) ==
    \/ v = Infinite
    \/ \E s \in Nat, n \in Nat : s <= Reserved /\ n < NS /\ v = [sec |-> s, nanosec |-> n]

LEMMA InC ==
    ASSUME NEW s \in Nat, NEW n \in Nat, s <= Reserved, n < NS
    PROVE  /\ ToC([sec |-> s, nanosec |-> n]) = s * NS + n
           /\ s * NS \in Nat /\ s * NS + n < CInfinity /\ CInfinity \in Nat
<1>1. [sec |-> s, nanosec |-> n] # Infinite
  BY Units DEF Infinite
<1>2. s * NS \in Nat /\ CInfinity \in Nat
  BY Units DEF CInfinity
<1> QED
  BY <1>1, <1>2, FiniteComesBack DEF ToC, Total

(* C has them in the order of the application.                             *)
LEMMA OrderIsKept ==
    ASSUME NEW v, NEW w, ForC(v), ForC(w)
    PROVE  Less(v, w) <=> ToC(v) < ToC(w)
<1>1. CInfinity \in Nat /\ ToC(Infinite) = CInfinity /\ Infinite.sec = Reserved
      /\ Infinite.nanosec = Reserved
  BY Units DEF CInfinity, ToC, Infinite
<1>2. CASE v = Infinite /\ w = Infinite
  BY <1>1, <1>2, Units DEF Less
<1>3. ASSUME NEW s \in Nat, NEW n \in Nat, s <= Reserved, n < NS, v = [sec |-> s, nanosec |-> n],
             w = Infinite
      PROVE  Less(v, w) <=> ToC(v) < ToC(w)
  <2>1. Less(v, w)
    BY <1>1, <1>3, Units DEF Less
  <2>2. ToC(v) < ToC(w)
    BY <1>1, <1>3, InC
  <2> QED
    BY <2>1, <2>2
<1>4. ASSUME NEW s \in Nat, NEW n \in Nat, s <= Reserved, n < NS, w = [sec |-> s, nanosec |-> n],
             v = Infinite
      PROVE  Less(v, w) <=> ToC(v) < ToC(w)
  <2>1. ~Less(v, w)
    BY <1>1, <1>4, Units DEF Less
  <2>2. ToC(w) \in Nat /\ ToC(w) < ToC(v) /\ ToC(v) \in Nat
    BY <1>1, <1>4, InC
  <2>3. ~(ToC(v) < ToC(w))
    BY <2>2
  <2> QED
    BY <2>1, <2>3
<1>5. ASSUME NEW s \in Nat, NEW n \in Nat, s <= Reserved, n < NS, v = [sec |-> s, nanosec |-> n],
             NEW r \in Nat, NEW k \in Nat, r <= Reserved, k < NS, w = [sec |-> r, nanosec |-> k]
      PROVE  Less(v, w) <=> ToC(v) < ToC(w)
  <2>1. ToC(v) = s * NS + n /\ s * NS \in Nat /\ ToC(w) = r * NS + k /\ r * NS \in Nat
    BY <1>5, InC
  <2>2. Less(v, w) <=> s < r \/ (s = r /\ n < k)
    BY <1>5 DEF Less
  <2>3. CASE s = r
    BY <2>1, <2>2, <2>3
  <2>4. CASE s < r
    <3>1. s * NS + NS <= r * NS
      BY <2>4, Units, LongerSeconds
    <3>2. ToC(v) < ToC(w)
      BY <1>5, <2>1, <3>1, Units
    <3> QED
      BY <2>2, <2>4, <3>2
  <2>5. CASE r < s
    <3>1. r * NS + NS <= s * NS
      BY <2>5, Units, LongerSeconds
    <3>2. ~(ToC(v) < ToC(w))
      BY <1>5, <2>1, <3>1, Units
    <3>3. ~Less(v, w)
      BY <2>2, <2>5
    <3> QED
      BY <3>2, <3>3
  <2> QED
    BY <2>3, <2>4, <2>5
<1> QED
  BY <1>2, <1>3, <1>4, <1>5 DEF ForC

LEMMA ProperForC ==
    ASSUME NEW v, v.sec \in 0 .. Reserved, v.nanosec \in Nat,
           v = [sec |-> v.sec, nanosec |-> v.nanosec], v.nanosec < NS \/ v = Infinite
    PROVE  ForC(v)
<1>1. v.sec \in Nat /\ v.sec <= Reserved
  BY Units
<1> QED
  BY <1>1 DEF ForC

(* They come back; a whole second of nanoseconds is carried.               *)
LEMMA ComesBack ==
    ASSUME NEW v \in DurationValue,
           (v.sec \in 0 .. Reserved - 1 /\ v.nanosec <= NS) \/ v = Infinite
    PROVE  LET back == FromC(ToC(v))
           IN  ~back.threw /\ Total(back.value) = Total(v) /\ (v.nanosec # NS => back.value = v)
<1> DEFINE back == FromC(ToC(v))
<1>1. CASE v = Infinite
  <2>1. back = Returned(v)
    BY <1>1, Units DEF ToC, FromC
  <2> HIDE DEF back
  <2>2. ~back.threw /\ back.value = v
    BY <2>1, Outcomes
  <2> QED
    BY <2>2 DEF back
<1>2. CASE v # Infinite
  <2>1. PICK s \in Nat, n \in Nat :
            s < Reserved /\ n <= NS /\ v = [sec |-> s, nanosec |-> n]
    <3>1. PICK s \in -(Reserved + 1) .. Reserved, n \in Nanosecs : v = [sec |-> s, nanosec |-> n]
      BY DEF DurationValue
    <3>2. s \in 0 .. Reserved - 1 /\ n <= NS
      BY <1>2, <3>1
    <3>3. s \in Nat /\ n \in Nat /\ s < Reserved
      BY <3>2, Units DEF Nanosecs
    <3> QED
      BY <3>1, <3>2, <3>3
  <2>2. ToC(v) = s * NS + n /\ Total(v) = s * NS + n
    BY <1>2, <2>1 DEF ToC, Total
  <2>3. CASE n < NS
    <3>3. FromC(s * NS + n) = Returned([sec |-> s, nanosec |-> n])
      BY <2>1, <2>3, Units, FiniteComesBack
    <3>1. back = Returned(v)
      BY <2>1, <2>2, <3>3
    <3> HIDE DEF back
    <3>2. ~back.threw /\ back.value = v
      BY <3>1, Outcomes
    <3> QED
      BY <3>2 DEF back
  <2>4. CASE n = NS
    <3> DEFINE u == [sec |-> s + 1, nanosec |-> 0]
    <3>1. s * NS + n = (s + 1) * NS + 0
      <4>1. (s + 1) * NS = s * NS + 1 * NS /\ s * NS \in Int /\ 1 * NS = NS
        BY <2>1, Units, Distributes
      <4> QED
        BY <2>4, <4>1, Units
    <3>2. s + 1 \in Nat /\ s + 1 <= Reserved
      BY <2>1, Units
    <3>3. FromC((s + 1) * NS + 0) = Returned(u)
      BY <3>2, Units, FiniteComesBack
    <3>4. back = Returned(u) /\ Total(u) = Total(v) /\ v.nanosec = NS
      BY <2>1, <2>2, <2>4, <3>1, <3>3 DEF Total
    <3> HIDE DEF u, back
    <3>5. ~back.threw /\ back.value = u
      BY <3>4, Outcomes
    <3> QED
      BY <3>4, <3>5 DEF back
  <2> QED
    BY <2>1, <2>3, <2>4, Units
<1> QED
  BY <1>1, <1>2

(* Only the invalid time is C's value for it.                              *)
LEMMA NeverIsInvalid ==
    ASSUME NEW v \in TimeValue, v.sec \in -Reserved .. Reserved
    PROVE  TimeToC(v) = CNever <=> v = Invalid
<1>1. v.sec \in Int /\ v.sec + Reserved \in Nat /\ v.nanosec \in Nat
  BY Units DEF TimeValue, Nanosecs
<1>2. (v.sec + Reserved) * NS \in Nat
  BY <1>1, Units
<1>3. (v.sec + Reserved) * NS = v.sec * NS + Reserved * NS /\ v.sec * NS \in Int
      /\ Reserved * NS \in Nat
  BY <1>1, Units, Distributes
<1>4. Total(v) > CNever
  BY <1>1, <1>2, <1>3, Units DEF Total, CNever, CInfinity
<1>5. CNever \in Int /\ Total(v) \in Int
  BY <1>1, <1>3, Units DEF Total, CNever, CInfinity
<1>6. Total(v) # CNever
  BY <1>4, <1>5
<1> QED
  BY <1>6 DEF TimeToC

-----------------------------------------------------------------------------
(* What is always so of the two objects.                                   *)
DurationInv ==
    /\ d \in DurationValue
    /\ t \in TimeValue /\ t.sec \in -TimeBound .. TimeBound
    /\ exactD \in Int /\ exactT \in Int
    /\ lost \in BOOLEAN /\ failed \in BOOLEAN
    /\ ~lost => d.sec >= 0 /\ Total(d) = exactD
    /\ Total(t) = exactT

LEMMA DurationInitially == DurationInit => DurationInv
<1> SUFFICES ASSUME DurationInit PROVE DurationInv
  OBVIOUS
<1>1. Zero \in DurationValue /\ Zero \in TimeValue /\ Zero.sec = 0 /\ Zero.nanosec = 0
  BY Units DEF Zero, DurationValue, TimeValue, Nanosecs
<1>2. Total(Zero) = 0
  BY <1>1, Units DEF Total
<1>3. 0 \in -TimeBound .. TimeBound
  BY TimeBoundAssumption
<1>4. lost \in BOOLEAN /\ failed \in BOOLEAN
  BY DEF DurationInit
<1>5. d = Zero /\ t = Zero /\ exactD = 0 /\ exactT = 0
  BY DEF DurationInit
<1> QED
  BY <1>1, <1>2, <1>3, <1>4, <1>5 DEF DurationInv

(* Every call keeps it.                                                    *)
LEMMA DurationStep ==
    ASSUME ArgumentsInRange, DurationInv, [DurationNext]_durationVars
    PROVE  DurationInv'
<1> USE DEF DurationInv
<1>1. ASSUME NEW o, NEW n, NEW s, NEW u \in DurationValue, o = Threw(u) \/ o = Returned(u),
             o = Returned(u) /\ ~lost /\ ~(s > Reserved) =>
                 n \in Int /\ u.sec >= 0 /\ Total(u) = n,
             Leave(o, n, s)
      PROVE  DurationInv'
  <2>1. o.value = u /\ o.threw \in BOOLEAN /\ (o = Returned(u) => ~o.threw)
        /\ (o = Threw(u) => o.threw)
    BY <1>1, Outcomes
  <2>2. /\ d' = u /\ failed' = o.threw
        /\ lost' = (lost \/ s > Reserved \/ (o.threw /\ u # d))
        /\ exactD' = IF lost' THEN 0 ELSE IF o.threw THEN exactD ELSE n
        /\ t' = t /\ exactT' = exactT
    BY <1>1, <2>1 DEF Leave
  <2>3. lost' \in BOOLEAN /\ failed' \in BOOLEAN
    BY <2>1, <2>2
  <2>4. CASE lost'
    BY <2>2, <2>3, <2>4
  <2>5. CASE ~lost'
    <3>1. ~lost /\ ~(s > Reserved) /\ (o.threw => u = d)
      BY <2>2, <2>5
    <3>2. CASE o = Threw(u)
      <4>1. d' = d /\ exactD' = exactD
        BY <2>1, <2>2, <2>5, <3>1, <3>2
      <4> QED
        BY <2>2, <2>3, <3>1, <4>1
    <3>3. CASE o = Returned(u)
      <4>1. exactD' = n /\ n \in Int /\ u.sec >= 0 /\ Total(u) = n
        BY <1>1, <2>1, <2>2, <2>5, <3>1, <3>3
      <4>2. Total(d)' = Total(u)
        BY <2>2 DEF Total
      <4> QED
        BY <2>2, <2>3, <4>1, <4>2
    <3> QED
      BY <1>1, <3>2, <3>3
  <2> QED
    BY <2>4, <2>5
<1>2. ASSUME NEW s, NEW n, NEW u \in DurationValue, NEW o, Assign(o, n),
             o.threw \in BOOLEAN,
             ~o.threw => o.value = u /\ u.sec >= 0 /\ n \in Int /\ Total(u) = n
      PROVE  DurationInv'
  <2>1. CASE o.threw
    BY <1>2, <2>1 DEF Assign
  <2>2. CASE ~o.threw
    BY <1>2, <2>2 DEF Assign
  <2> QED
    BY <2>1, <2>2
<1> HIDE DEF DurationInv
<1>3. CASE NewDuration
  <2>1. PICK s \in SomeSecs, n \in SomeNanosecs : Assign(ConstructDuration(s, n), s * NS + n)
    BY <1>3 DEF NewDuration
  <2> DEFINE o == ConstructDuration(s, n)
             u == IF o.threw THEN Zero ELSE [sec |-> s, nanosec |-> n]
  <2>2. /\ o.threw \in BOOLEAN
        /\ ~o.threw => /\ s \in 0 .. Reserved /\ n \in Nat /\ (n < NS \/ n = Reserved)
                       /\ o.value = [sec |-> s, nanosec |-> n]
    BY ConstructValue
  <2> HIDE DEF o
  <2>3. CASE o.threw
    <3>1. Zero \in DurationValue
      BY Units DEF Zero, DurationValue, Nanosecs
    <3> QED
      BY <1>2, <2>1, <2>2, <2>3, <3>1 DEF o
  <2>4. CASE ~o.threw
    <3>1. [sec |-> s, nanosec |-> n] \in DurationValue
      BY <2>2, <2>4, Units DEF DurationValue, Nanosecs
    <3>2. s >= 0 /\ s * NS + n \in Int /\ Total([sec |-> s, nanosec |-> n]) = s * NS + n
      BY <2>2, <2>4, Units DEF Total
    <3> QED
      BY <1>2, <2>1, <2>2, <2>4, <3>1, <3>2 DEF o
  <2> QED
    BY <2>3, <2>4
<1>4. CASE NewFromUnits
  <2>1. ASSUME NEW n \in SomeNanosecs, NEW s \in Nat, NEW k \in Nat, NEW m, k < NS, s <= Reserved,
               s * NS + k = m, Assign(Returned([sec |-> Int32(s), nanosec |-> k]), m)
        PROVE  DurationInv'
    <3> DEFINE u == [sec |-> s, nanosec |-> k]
    <3>2. Int32(s) = s
      BY <2>1, SmallInt32
    <3>3. u \in DurationValue /\ u.sec >= 0 /\ Total(u) = m /\ m \in Int
      BY <2>1, <3>2, Units DEF DurationValue, Nanosecs, Total
    <3>4. Assign(Returned(u), m)
      BY <2>1, <3>2
    <3> HIDE DEF u
    <3> QED
      BY <1>2, <3>3, <3>4, Outcomes
  <2>2. PICK n \in SomeNanosecs :
            Assign(FromMicrosecs(n), n * MS) \/ Assign(FromMillisecs(n), n * MiS)
    BY <1>4 DEF NewFromUnits
  <2>3. n \in Nat /\ n \div MS <= Reserved /\ n \div MiS <= Reserved
    BY ArgumentsAssumption DEF ArgumentsInRange
  <2>4. CASE Assign(FromMicrosecs(n), n * MS)
    <3>1. /\ FromMicrosecs(n) = Returned([sec |-> Int32(n \div MiS), nanosec |-> (n % MiS) * MS])
          /\ n \div MiS \in Nat /\ (n % MiS) * MS \in Nat /\ (n % MiS) * MS < NS
          /\ (n \div MiS) * NS + (n % MiS) * MS = n * MS
      BY <2>3, FromMicrosecsReturns
    <3>2. Assign(Returned([sec |-> Int32(n \div MiS), nanosec |-> (n % MiS) * MS]), n * MS)
      BY <2>4, <3>1
    <3> QED
      BY <2>1, <2>3, <3>1, <3>2
  <2>5. CASE Assign(FromMillisecs(n), n * MiS)
    <3>1. /\ FromMillisecs(n) = Returned([sec |-> Int32(n \div MS), nanosec |-> (n % MS) * MiS])
          /\ n \div MS \in Nat /\ (n % MS) * MiS \in Nat /\ (n % MS) * MiS < NS
          /\ (n \div MS) * NS + (n % MS) * MiS = n * MiS
      BY <2>3, FromMillisecsReturns
    <3>2. Assign(Returned([sec |-> Int32(n \div MS), nanosec |-> (n % MS) * MiS]), n * MiS)
      BY <2>5, <3>1
    <3> QED
      BY <2>1, <2>3, <3>1, <3>2
  <2> QED
    BY <2>2, <2>4, <2>5
<1>5. CASE AddTo
  <2>1. PICK w \in Durations : Leave(Plus(d, w), exactD + Total(w), d.sec + w.sec + 1)
    BY <1>5 DEF AddTo
  <2>2. d \in DurationValue /\ exactD \in Int /\ (~lost => d.sec >= 0 /\ Total(d) = exactD)
        /\ d.sec \in Int
    BY Units DEF DurationInv, DurationValue
  <2>3. w.sec \in Nat /\ w.nanosec \in Nat /\ Total(w) \in Int
    BY DurationsAre, Units DEF Total
  <2>4. CASE Plus(d, w) = Threw(d)
    <3>1. Threw(d) # Returned(d)
      BY Outcomes
    <3> QED
      BY <1>1, <2>1, <2>2, <2>4, <3>1
  <2>5. ASSUME NEW x \in Int, NEW y \in 0 .. NS,
               Plus(d, w) = Returned([sec |-> Int32(x), nanosec |-> y]),
               x * NS + y = Total(d) + Total(w),
               x \in {d.sec + w.sec, d.sec + w.sec + 1}
        PROVE  DurationInv'
    <3> DEFINE u == [sec |-> Int32(x), nanosec |-> y]
    <3>1. u \in DurationValue
      BY Int32Range, Units DEF DurationValue, Nanosecs
    <3>2. ASSUME ~lost, ~(d.sec + w.sec + 1 > Reserved)
          PROVE  /\ exactD + Total(w) \in Int /\ u.sec >= 0 /\ Total(u) = exactD + Total(w)
      <4>1. x \in Nat /\ x <= Reserved
        BY <2>2, <2>3, <2>5, <3>2, Units
      <4>2. Int32(x) = x
        BY <4>1, SmallInt32
      <4> QED
        BY <2>2, <2>3, <2>5, <3>2, <4>1, <4>2, Units DEF Total
    <3> HIDE DEF u
    <3> QED
      BY <1>1, <2>1, <2>5, <3>1, <3>2 DEF u
  <2> QED
    BY <2>2, <2>4, <2>5, PlusExact
<1>6. CASE SubtractFrom
  <2>1. PICK w \in Durations : Leave(Minus(d, w), exactD - Total(w), d.sec)
    BY <1>6 DEF SubtractFrom
  <2>2. d \in DurationValue /\ exactD \in Int /\ (~lost => d.sec >= 0 /\ Total(d) = exactD)
    BY DEF DurationInv
  <2>3. w.sec \in Nat /\ w.nanosec \in Nat /\ Total(w) \in Int
    BY DurationsAre, Units DEF Total
  <2>4. CASE Minus(d, w) = Threw(d)
    <3>1. Threw(d) # Returned(d)
      BY Outcomes
    <3> QED
      BY <1>1, <2>1, <2>2, <2>4, <3>1
  <2>5. ASSUME NEW x \in 0 .. Reserved, NEW y \in Nat, y < NS,
               Minus(d, w) = Returned([sec |-> x, nanosec |-> y]),
               x * NS + y = Total(d) - Total(w)
        PROVE  DurationInv'
    <3> DEFINE u == [sec |-> x, nanosec |-> y]
    <3>1. u \in DurationValue /\ u.sec >= 0
      BY <2>5, Units DEF DurationValue, Nanosecs
    <3>2. ASSUME ~lost
          PROVE  exactD - Total(w) \in Int /\ Total(u) = exactD - Total(w)
      BY <2>2, <2>3, <2>5, <3>2, Units DEF Total
    <3> HIDE DEF u
    <3> QED
      BY <1>1, <2>1, <2>5, <3>1, <3>2 DEF u
  <2> QED
    BY <2>2, <2>4, <2>5, MinusExact
<1>7. CASE MultiplyBy
  <2>1. PICK k \in Factors : Leave(Times(d, k), exactD * k, (d.sec + 1) * k)
    BY <1>7 DEF MultiplyBy
  <2>2. d \in DurationValue /\ exactD \in Int /\ (~lost => d.sec >= 0 /\ Total(d) = exactD)
        /\ d.sec \in Int /\ k \in Nat
    BY ArgumentsAssumption, Units DEF DurationInv, DurationValue
  <2>3. PICK u \in DurationValue :
            \/ Times(d, k) = Threw(u)
            \/ /\ Times(d, k) = Returned(u)
               /\ d.sec >= 0 /\ (d.sec + 1) * k <= Reserved =>
                      u.sec >= 0 /\ Total(u) = Total(d) * k
    BY <2>2, TimesExact
  <2>4. CASE Times(d, k) = Threw(u)
    <3>1. Threw(u) # Returned(u)
      BY Outcomes
    <3> QED
      BY <1>1, <2>1, <2>4, <3>1
  <2>5. CASE /\ Times(d, k) = Returned(u)
             /\ d.sec >= 0 /\ (d.sec + 1) * k <= Reserved =>
                    u.sec >= 0 /\ Total(u) = Total(d) * k
    <3>1. ASSUME ~lost, ~((d.sec + 1) * k > Reserved)
          PROVE  exactD * k \in Int /\ u.sec >= 0 /\ Total(u) = exactD * k
      <4>1. (d.sec + 1) * k \in Int
        BY <2>2
      <4>2. (d.sec + 1) * k <= Reserved
        BY <3>1, <4>1, Units
      <4> QED
        BY <2>2, <2>5, <3>1, <4>2
    <3> QED
      BY <1>1, <2>1, <2>5, <3>1
  <2> QED
    BY <2>3, <2>4, <2>5
<1>8. CASE DivideBy
  <2> DEFINE N(k) == IF k = 0 THEN 0 ELSE ((exactD \div MS) \div k) * MS
  <2>1. PICK k \in Factors : Leave(Over(d, k), N(k), d.sec)
    BY <1>8 DEF DivideBy
  <2>2. d \in DurationValue /\ exactD \in Int /\ (~lost => d.sec >= 0 /\ Total(d) = exactD)
        /\ k \in Nat
    BY ArgumentsAssumption DEF DurationInv
  <2>3. CASE Over(d, k) = Threw(d)
    <3>1. Threw(d) # Returned(d)
      BY Outcomes
    <3> QED
      BY <1>1, <2>1, <2>2, <2>3, <3>1
  <2>4. ASSUME NEW u \in DurationValue, Over(d, k) = Returned(u), k # 0,
               d.sec >= 0 => u.sec >= 0 /\ Total(u) = ((Total(d) \div MS) \div k) * MS
        PROVE  DurationInv'
    <3>1. ASSUME ~lost
          PROVE  N(k) \in Int /\ u.sec >= 0 /\ Total(u) = N(k)
      <4>1. u.sec >= 0 /\ Total(u) = N(k)
        BY <2>2, <2>4, <3>1
      <4>2. Total(u) \in Int
        BY Units DEF Total, DurationValue, Nanosecs
      <4> QED
        BY <4>1, <4>2
    <3> HIDE DEF N
    <3> QED
      BY <1>1, <2>1, <2>4, <3>1
  <2> QED
    BY <2>2, <2>3, <2>4, OverExact
<1>13. ASSUME NEW o, NEW n, NEW s \in Int, NEW y \in Nanosecs, LeaveTime(o, n),
              o.threw \/ (o = Returned([sec |-> s, nanosec |-> y]) /\ n = s * NS + y),
              o.threw \in BOOLEAN
       PROVE  DurationInv'
  <2>1. CASE o.threw
    BY <1>13, <2>1 DEF LeaveTime, DurationInv
  <2>2. CASE ~o.threw
    <3> DEFINE u == [sec |-> s, nanosec |-> y]
    <3>1. o.value = u /\ n = s * NS + y
      BY <1>13, <2>2, Outcomes
    <3>2. u \in TimeValue /\ Total(u) = n /\ n \in Int
      BY <3>1, Units DEF TimeValue, Nanosecs, Total
    <3> HIDE DEF u
    <3>3. t' = u /\ exactT' = n /\ t'.sec \in -TimeBound .. TimeBound /\ failed' = o.threw
          /\ UNCHANGED <<d, exactD, lost>>
      BY <1>13, <2>2, <3>1 DEF LeaveTime
    <3>4. Total(t)' = Total(u)
      BY <3>3 DEF Total
    <3> QED
      BY <1>13, <3>2, <3>3, <3>4 DEF DurationInv
  <2> QED
    BY <2>1, <2>2
<1>9. CASE NewTime
  <2>1. PICK s \in SomeSecs, n \in SomeNanosecs : LeaveTime(ConstructTime(s, n), s * NS + n)
    BY <1>9 DEF NewTime
  <2>2. s \in Int /\ n \in Nat
    BY ArgumentsAssumption
  <2> DEFINE o == ConstructTime(s, n)
  <2>3. \/ o = Threw([sec |-> s, nanosec |-> 0])
        \/ o = Returned([sec |-> s, nanosec |-> n]) /\ (n < NS \/ n = Reserved)
    BY <2>2, SetTimeNanosecReturns DEF ConstructTime
  <2> HIDE DEF o
  <2>4. CASE o = Threw([sec |-> s, nanosec |-> 0])
    <3>1. o.threw /\ o.threw \in BOOLEAN /\ 0 \in Nanosecs
      BY <2>4, Outcomes, Units DEF Nanosecs
    <3> QED
      BY <1>13, <2>1, <2>2, <3>1 DEF o
  <2>5. CASE o = Returned([sec |-> s, nanosec |-> n]) /\ (n < NS \/ n = Reserved)
    <3>1. o.threw \in BOOLEAN
      BY <2>5, Outcomes
    <3>2. n \in Nanosecs
      BY <2>2, <2>5, Units DEF Nanosecs
    <3> QED
      BY <1>13, <2>1, <2>2, <2>5, <3>1, <3>2 DEF o
  <2> QED
    BY <2>3, <2>4, <2>5
<1>10. CASE AddToTime
  <2>1. PICK w \in Durations : LeaveTime(PlusTime(t, w), exactT + Total(w))
    BY <1>10 DEF AddToTime
  <2>2. t \in TimeValue /\ Total(t) = exactT
    BY DEF DurationInv
  <2>3. ASSUME PlusTime(t, w) = Threw(t)
        PROVE  DurationInv'
    <3>1. PlusTime(t, w).threw /\ PlusTime(t, w).threw \in BOOLEAN /\ 0 \in Nanosecs /\ 0 \in Int
      BY <2>3, Outcomes, Units DEF Nanosecs
    <3> QED
      BY <1>13, <2>1, <3>1
  <2>4. ASSUME NEW x \in Int, NEW y \in 0 .. NS,
               PlusTime(t, w) = Returned([sec |-> x, nanosec |-> y]),
               x * NS + y = Total(t) + Total(w)
        PROVE  DurationInv'
    <3>1. PlusTime(t, w).threw \in BOOLEAN /\ y \in Nanosecs /\ exactT + Total(w) = x * NS + y
      BY <2>2, <2>4, Outcomes DEF Nanosecs
    <3> QED
      BY <1>13, <2>1, <2>4, <3>1
  <2> QED
    BY <2>2, <2>3, <2>4, PlusTimeExact
<1>11. CASE SubtractFromTime
  <2>1. PICK w \in Durations : LeaveTime(MinusTime(t, w), exactT - Total(w))
    BY <1>11 DEF SubtractFromTime
  <2>2. t \in TimeValue /\ Total(t) = exactT
    BY DEF DurationInv
  <2>3. ASSUME MinusTime(t, w) = Threw(t)
        PROVE  DurationInv'
    <3>1. MinusTime(t, w).threw /\ MinusTime(t, w).threw \in BOOLEAN /\ 0 \in Nanosecs /\ 0 \in Int
      BY <2>3, Outcomes, Units DEF Nanosecs
    <3> QED
      BY <1>13, <2>1, <3>1
  <2>4. ASSUME NEW x \in Int, NEW y \in 0 .. NS,
               MinusTime(t, w) = Returned([sec |-> x, nanosec |-> y]),
               x * NS + y = Total(t) - Total(w)
        PROVE  DurationInv'
    <3>1. MinusTime(t, w).threw \in BOOLEAN /\ y \in Nanosecs /\ exactT - Total(w) = x * NS + y
      BY <2>2, <2>4, Outcomes DEF Nanosecs
    <3> QED
      BY <1>13, <2>1, <2>4, <3>1
  <2> QED
    BY <2>2, <2>3, <2>4, MinusTimeExact
<1>12. CASE UNCHANGED durationVars
  BY <1>12 DEF durationVars, DurationInv, Total
<1> QED
  BY <1>3, <1>4, <1>5, <1>6, <1>7, <1>8, <1>9, <1>10, <1>11, <1>12 DEF DurationNext

LEMMA InvIsExact ==
    ASSUME ArgumentsInRange, DurationInv
    PROVE  DurationTypeOK /\ DurationsAreExact
<1>1. /\ d.sec \in -(Reserved + 1) .. Reserved /\ d.nanosec \in Nanosecs
      /\ t.sec \in Int /\ t.nanosec \in Nanosecs
      /\ d = [sec |-> d.sec, nanosec |-> d.nanosec]
  BY DEF DurationInv, DurationValue, TimeValue
<1>2. DurationTypeOK
  <2>1. \A v \in {d, t} : v.nanosec \in 0 .. NS \cup {Reserved}
    BY <1>1 DEF Nanosecs
  <2> QED
    BY <1>1, <2>1 DEF DurationTypeOK, DurationInv
<1>3. ArithmeticIsExact
  BY DEF ArithmeticIsExact, DurationInv
<1>4. ConversionKeepsOrder
  <2> SUFFICES ASSUME NEW w \in Durations, w.nanosec < NS \/ w = Infinite,
                      d.sec >= 0 /\ (d.nanosec < NS \/ d = Infinite)
               PROVE  (Less(d, w) <=> ToC(d) < ToC(w)) /\ (Less(w, d) <=> ToC(w) < ToC(d))
    BY DEF ConversionKeepsOrder
  <2>1. ForC(w)
    BY DurationsAre, ProperForC
  <2>2. ForC(d)
    <3>1. d.sec \in 0 .. Reserved /\ d.nanosec \in Nat
      BY <1>1, Units DEF Nanosecs
    <3> QED
      BY <1>1, <3>1, ProperForC
  <2> QED
    BY <2>1, <2>2, OrderIsKept
<1>5. ConversionRoundTrip
  <2>1. ASSUME (d.sec \in 0 .. Reserved - 1 /\ d.nanosec <= NS) \/ d = Infinite
        PROVE  LET back == FromC(ToC(d))
               IN  ~back.threw /\ Total(back.value) = Total(d) /\ (d.nanosec # NS => back.value = d)
    BY <2>1, ComesBack DEF DurationInv
  <2>2. TimeToC(t) = CNever <=> t = Invalid
    <3>1. t \in TimeValue /\ t.sec \in -Reserved .. Reserved
      BY TimeBoundAssumption, Units DEF DurationInv, ArgumentsInRange
    <3> QED
      BY <3>1, NeverIsInvalid
  <2> QED
    BY <2>1, <2>2 DEF ConversionRoundTrip
<1> QED
  BY <1>2, <1>3, <1>4, <1>5 DEF DurationsAreExact, ConversionIsFaithful

(* Durations and times are the exact result of the calls that returned,    *)
(* whatever arguments the application passes, up to an overflow of the     *)
(* seconds, and C has them in the same order and gives them back: the code *)
(* of the operators in Duration.cpp and Time.cpp and of MiscUtils.cpp.     *)
THEOREM DurationsStayExact == ArgumentsInRange => (DurationSpec => []DurationsAreExact)
<1> SUFFICES ASSUME ArgumentsInRange
             PROVE  DurationSpec => []DurationsAreExact
  OBVIOUS
<1>1. DurationInit => DurationInv
  BY DurationInitially
<1>2. DurationInv /\ [DurationNext]_durationVars => DurationInv'
  BY DurationStep
<1>3. DurationInv => DurationsAreExact
  BY InvIsExact
<1> QED
  BY <1>1, <1>2, <1>3, PTL DEF DurationSpec

(* Their members stay in the range of their types.                         *)
THEOREM DurationTypeCorrect == ArgumentsInRange => (DurationSpec => []DurationTypeOK)
<1> SUFFICES ASSUME ArgumentsInRange
             PROVE  DurationSpec => []DurationTypeOK
  OBVIOUS
<1>1. DurationInit => DurationInv
  BY DurationInitially
<1>2. DurationInv /\ [DurationNext]_durationVars => DurationInv'
  BY DurationStep
<1>3. DurationInv => DurationTypeOK
  BY InvIsExact
<1> QED
  BY <1>1, <1>2, <1>3, PTL DEF DurationSpec

-----------------------------------------------------------------------------
(* The domains that participants share, the statuses that reach listeners, *)
(* the qos of an entity and policy objects keep their types beside each    *)
(* other: none of them touches the state of another.                       *)
THEOREM EntitiesTypeCorrect == ProperDurations => (EntitiesSpec => []EntitiesTypeOK)
<1> SUFFICES ASSUME ProperDurations PROVE EntitiesSpec => []EntitiesTypeOK
  OBVIOUS
<1> DEFINE all == <<subject, vars, deliveryVars, qosVars, objectVars>>
           Subject == subject \in {"domain", "status", "qos", "policy"}
<1>1. [EntitiesNext]_all => /\ [Next]_vars /\ [DeliveryNext]_deliveryVars
                            /\ [QosNext]_qosVars /\ [ObjectsNext]_objectVars
  BY DEF EntitiesNext, SharingDomains, Statuses, Qos, Objects
<1>2. EntitiesInit => Init /\ DeliveryInit /\ QosInit /\ ObjectsInit /\ Subject
  BY DEF EntitiesInit, NoSourceYet, NoQosYet, NoObjectYet
<1>3. Subject /\ [EntitiesNext]_all => Subject'
  BY DEF EntitiesNext, SharingDomains, Statuses, Qos, Objects
<1>4. EntitiesSpec => Spec /\ DeliverySpec /\ QosSpec /\ ObjectsSpec /\ []Subject
  BY <1>1, <1>2, <1>3, PTL DEF EntitiesSpec, Spec, DeliverySpec, QosSpec, ObjectsSpec
<1>5. EntitiesSpec => []QosTypeOK /\ []ObjectsTypeOK
  BY <1>4, QosTypeCorrect, ObjectsTypeCorrect, PTL
<1> QED
  BY <1>4, <1>5, TypeCorrect, DeliveryTypeCorrect, PTL DEF EntitiesTypeOK
=============================================================================
