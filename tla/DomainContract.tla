--------------------------- MODULE DomainContract ---------------------------
(***************************************************************************)
(* What a DomainParticipant promises about the configuration of its domain *)
(* (the table in TDomainParticipant.hpp): the first participant of a       *)
(* domain settles the configuration, every later one gets that             *)
(* "previous" configuration, and the domain goes with its last             *)
(* participant.                                                            *)
(***************************************************************************)
CONSTANTS Participants, Domains

VARIABLES
    members,       \* members[d]: the participants of domain d
    config         \* config[d]: "default", "given", or "none" without members

vars == <<members, config>>

Init ==
    /\ members = [d \in Domains |-> {}]
    /\ config = [d \in Domains |-> "none"]

(* A participant joins domain d; it passed a configuration, or did not.    *)
Join(p, d, given) ==
    /\ \A e \in Domains : p \notin members[e]
    /\ members' = [members EXCEPT ![d] = @ \cup {p}]
    /\ config' = IF members[d] # {} THEN config
                 ELSE [config EXCEPT ![d] = IF given THEN "given" ELSE "default"]

Leave(p, d) ==
    /\ p \in members[d]
    /\ members' = [members EXCEPT ![d] = @ \ {p}]
    /\ config' = IF members[d] # {p} THEN config ELSE [config EXCEPT ![d] = "none"]

Next ==
    \E p \in Participants, d \in Domains :
        \/ \E given \in BOOLEAN : Join(p, d, given)
        \/ Leave(p, d)

Spec == Init /\ [][Next]_vars
=============================================================================
