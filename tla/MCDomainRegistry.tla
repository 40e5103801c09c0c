-------------------------- MODULE MCDomainRegistry --------------------------
(* Instances of DomainRegistry for TLC.                                    *)
EXTENDS DomainRegistry, TLC

CONSTANTS p1, p2, p3, d1, d2

TwoParticipants == {p1, p2}
ThreeParticipants == {p1, p2, p3}
TwoDomains == {d1, d2}

Interchangeable == Permutations(Participants) \cup Permutations(Domains)
=============================================================================
