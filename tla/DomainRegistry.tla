--------------------------- MODULE DomainRegistry ---------------------------
(***************************************************************************)
(* The registry of domains behind DomainParticipant.                       *)
(*                                                                         *)
(* A participant that brings a configuration creates its domain explicitly *)
(* (DomainWrap), unless the registry already has the domain; without one,  *)
(* the C library creates the domain implicitly and the registry gets a     *)
(* placeholder. The last participant to close takes the entry out, which   *)
(* deletes an explicit domain. All of that happens under one global lock,  *)
(* but the deletion of the C participant comes before it, and a            *)
(* constructor that fails deletes the domain it created after it.          *)
(***************************************************************************)
CONSTANTS
    Participants,  \* DomainParticipantDelegate objects; each lives once
    Domains,       \* domain ids
    AnyId,         \* default_id(): the C library chooses the domain
    Nil            \* no participant, no DomainWrap, no domain

ASSUME NilAssumption == Nil \notin Participants \cup Domains /\ AnyId \notin Domains \cup {Nil}

VARIABLES
    pc,            \* what the constructor or close() of p is about to do
    id,            \* id[p]: the domain id passed, later domain_id_
    given,         \* given[p]: was a configuration passed?
    lock,          \* the owner of global_participants_lock_
    domainRef,     \* domain_ref_: a DomainWrap, named after its creator
    registry,      \* domain_registry_
    explicit,      \* the DomainWraps that created their domain
    domain,        \* external: domain[d] is "none", "implicit" or "explicit"
    alive          \* external: the C participants, as [p |-> , d |-> ]

vars == <<pc, id, given, lock, domainRef, registry, explicit, domain, alive>>

-----------------------------------------------------------------------------
Init ==
    /\ pc = [p \in Participants |-> "unborn"]
    /\ id = [p \in Participants |-> Nil]
    /\ given = [p \in Participants |-> FALSE]
    /\ lock = Nil
    /\ domainRef = [p \in Participants |-> Nil]
    /\ registry = [d \in Domains |-> Nil]
    /\ explicit = {}
    /\ domain = [d \in Domains |-> "none"]
    /\ alive = {}

Goto(p, next) == pc' = [pc EXCEPT ![p] = next]

(* External: deleting a domain deletes its participants.                   *)
DeleteDomain(d) ==
    /\ domain' = [domain EXCEPT ![d] = "none"]
    /\ alive' = {a \in alive : a.d # d}

(***************************************************************************)
(* The constructor.                                                        *)
(***************************************************************************)
Construct(p, i, g) ==
    /\ pc[p] = "unborn"
    /\ id' = [id EXCEPT ![p] = i]
    /\ given' = [given EXCEPT ![p] = g]
    /\ Goto(p, "lock")
    /\ UNCHANGED <<lock, domainRef, registry, explicit, domain, alive>>

NeverKnown(i) == FALSE              \* mutant: the registry is not consulted
Known(i) == i # AnyId /\ registry[i] # Nil

Locking(p) == pc[p] = "lock" /\ lock = Nil

(* A configuration needs a specific domain id, and dds_create_domain fails *)
(* when the domain exists: the constructor throws.                         *)
Reject(p) ==
    /\ Locking(p)
    /\ given[p]
    /\ id[p] # AnyId => ~Known(id[p]) /\ domain[id[p]] # "none"
    /\ Goto(p, "failed")
    /\ UNCHANGED <<id, given, lock, domainRef, registry, explicit, domain, alive>>

(* Without a configuration, or with a domain that the registry knows.      *)
UseDomain(p) ==
    /\ Locking(p)
    /\ given[p] => Known(id[p])
    /\ lock' = p
    /\ Goto(p, "create")
    /\ UNCHANGED <<id, given, domainRef, registry, explicit, domain, alive>>

CreateDomain(p) ==
    /\ Locking(p)
    /\ given[p]
    /\ id[p] # AnyId
    /\ ~Known(id[p])
    /\ domain[id[p]] = "none"
    /\ lock' = p
    /\ domainRef' = [domainRef EXCEPT ![p] = p]
    /\ explicit' = explicit \cup {p}
    /\ domain' = [domain EXCEPT ![id[p]] = "explicit"]
    /\ Goto(p, "create")
    /\ UNCHANGED <<id, given, registry, alive>>

(* External: the default domain is one that exists, if there is one.       *)
Resolves(i, d) ==
    \/ i = d
    \/ i = AnyId /\ (domain[d] # "none" \/ \A e \in Domains : domain[e] = "none")

KeptId(p, d) == id[p]               \* mutant: domain_id_ is not updated
ResolvedId(p, d) == d

(* dds_create_participant creates the domain when it does not exist.       *)
Create(p) ==
    /\ pc[p] = "create"
    /\ \E d \in Domains :
          /\ Resolves(id[p], d)
          /\ id' = [id EXCEPT ![p] = ResolvedId(p, d)]
          /\ alive' = alive \cup {[p |-> p, d |-> d]}
          /\ domain' = IF domain[d] # "none" THEN domain
                       ELSE [domain EXCEPT ![d] = "implicit"]
    /\ Goto(p, "register")
    /\ UNCHANGED <<given, lock, domainRef, registry, explicit>>

AlwaysOwnWrap(p) == p               \* mutant: an entry is always replaced

(* The wrap of participant p, or the one in the registry, or a new one.    *)
WrapFor(p) ==
    IF domainRef[p] # Nil THEN domainRef[p]
    ELSE IF registry[id[p]] # Nil THEN registry[id[p]] ELSE p

Register(p) ==
    /\ pc[p] = "register"
    /\ domainRef' = [domainRef EXCEPT ![p] = WrapFor(p)]
    /\ registry' = [registry EXCEPT ![id[p]] = WrapFor(p)]
    /\ lock' = Nil
    /\ Goto(p, "open")
    /\ UNCHANGED <<id, given, explicit, domain, alive>>

(* dds_create_participant fails: the constructor throws. The lock, a local *)
(* variable, goes before the member domain_ref_.                           *)
Fail(p) ==
    /\ pc[p] = "create"
    /\ lock' = Nil
    /\ Goto(p, IF domainRef[p] = Nil THEN "failed" ELSE "unwind")
    /\ UNCHANGED <<id, given, domainRef, registry, explicit, domain, alive>>

Unwind(p) ==
    /\ pc[p] = "unwind"
    /\ DeleteDomain(id[p])
    /\ domainRef' = [domainRef EXCEPT ![p] = Nil]
    /\ Goto(p, "failed")
    /\ UNCHANGED <<id, given, lock, registry, explicit>>

(***************************************************************************)
(* close().                                                                *)
(***************************************************************************)

(* External: an implicit domain goes with its last participant.            *)
Others(p, d) == {a \in alive : a.p # p /\ a.d = d}

(* EntityDelegate::close deletes the C participant, without the lock.      *)
Close(p) ==
    /\ pc[p] = "open"
    /\ alive' = {a \in alive : a.p # p}
    /\ domain' = IF domain[id[p]] = "implicit" /\ Others(p, id[p]) = {}
                 THEN [domain EXCEPT ![id[p]] = "none"] ELSE domain
    /\ Goto(p, "release")
    /\ UNCHANGED <<id, given, lock, domainRef, registry, explicit>>

AlwaysLast(p) == TRUE               \* mutant: use_count() is not tested
NeverLast(p) == FALSE               \* mutant: the entry stays

(* use_count() == 1 once domain_ref_ is reset: nobody but the registry.    *)
LastReference(p) == \A q \in Participants \ {p} : domainRef[q] # registry[id[p]]

Release(p) ==
    /\ pc[p] = "release"
    /\ lock = Nil
    /\ domainRef' = [domainRef EXCEPT ![p] = Nil]
    /\ IF ~LastReference(p)
       THEN UNCHANGED <<registry, domain, alive>>
       ELSE /\ registry' = [registry EXCEPT ![id[p]] = Nil]
            /\ IF registry[id[p]] \in explicit
               THEN DeleteDomain(id[p])
               ELSE UNCHANGED <<domain, alive>>
    /\ Goto(p, "closed")
    /\ UNCHANGED <<id, given, lock, explicit>>

-----------------------------------------------------------------------------
Next ==
    \E p \in Participants :
        \/ \E i \in Domains \cup {AnyId}, g \in BOOLEAN : Construct(p, i, g)
        \/ Reject(p) \/ UseDomain(p) \/ CreateDomain(p) \/ Create(p) \/ Register(p)
        \/ Fail(p) \/ Unwind(p) \/ Close(p) \/ Release(p)

Spec == Init /\ [][Next]_vars

-----------------------------------------------------------------------------
(***************************************************************************)
(* Properties.                                                             *)
(***************************************************************************)

(* Every variable has its type; domain_id_ is the actual domain once there *)
(* is a C participant.                                                     *)
TypeOK ==
    /\ pc \in [Participants -> {"unborn", "lock", "create", "register", "open",
                                "release", "closed", "unwind", "failed"}]
    /\ id \in [Participants -> Domains \cup {AnyId, Nil}]
    /\ given \in [Participants -> BOOLEAN]
    /\ lock \in Participants \cup {Nil}
    /\ domainRef \in [Participants -> Participants \cup {Nil}]
    /\ registry \in [Domains -> Participants \cup {Nil}]
    /\ explicit \subseteq Participants
    /\ domain \in [Domains -> {"none", "implicit", "explicit"}]
    /\ alive \subseteq [p : Participants, d : Domains]
    /\ \A p \in Participants : pc[p] \in {"register", "open", "release"} => id[p] \in Domains

Members(d) == {p \in Participants : pc[p] \in {"open", "release"} /\ id[p] = d}

(* No constructor has failed after it created its domain.                  *)
Clean == \A p \in explicit : pc[p] \notin {"unwind", "failed"}

(* The domain of an open participant exists, was created the way the       *)
(* registry remembers, and has the participant: no close() of another one  *)
(* deletes it, nor does a constructor that fails before it created one.    *)
OpenIsInItsDomain ==
    Clean => \A p \in Participants : pc[p] = "open" =>
        /\ [p |-> p, d |-> id[p]] \in alive
        /\ domain[id[p]] = IF registry[id[p]] \in explicit THEN "explicit" ELSE "implicit"

(* "assert(it != domain_registry_.end())": a participant that closes finds *)
(* its domain in the registry, and it is the one it refers to.             *)
ClosingFindsDomain ==
    \A p \in Participants : pc[p] \in {"open", "release"} =>
        registry[id[p]] # Nil /\ registry[id[p]] = domainRef[p]

(* What the registry and the C library keep goes with the last             *)
(* participant: no domain is left behind.                                  *)
NothingLeftBehind ==
    \A d \in Domains :
        (\A p \in Participants : pc[p] \in {"unborn", "lock", "closed", "failed"})
            => registry[d] = Nil /\ domain[d] = "none"

(* The registry, the C library and the participants agree, whatever is     *)
(* opened, closed or fails in between.                                     *)
DomainsAgree == OpenIsInItsDomain /\ ClosingFindsDomain /\ NothingLeftBehind

(* Participants get the configuration the table of TDomainParticipant.hpp  *)
(* promises: the registry implements DomainContract.                       *)
Contract == INSTANCE DomainContract WITH
    members <- [d \in Domains |-> Members(d)],
    config <- [d \in Domains |->
                 IF registry[d] = Nil THEN "none"
                 ELSE IF registry[d] \in explicit THEN "given" ELSE "default"]

KeepsContract == Contract!Spec

(* Participant p has a configuration for a specific domain and is refused. *)
Refused(p) == pc[p] = "lock" /\ pc'[p] = "failed" /\ id[p] # AnyId

(* "n, previous config": a configuration for a domain that exists is no    *)
(* reason for the constructor to fail, as long as no other constructor has *)
(* failed after it created its domain.                                     *)
ExistingDomainIsUsed == [][Clean => \A p \in Participants : ~Refused(p)]_vars

(* The same without that condition, as the table has it: the code does not *)
(* do so, and a run refutes it.                                            *)
PreviousConfigIsUsed == [][\A p \in Participants : ~Refused(p)]_vars
=============================================================================
