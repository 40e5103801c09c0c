---------------------------- MODULE StatusMasks ----------------------------
(***************************************************************************)
(* Status masks: the bits of a StatusMask, the statuses of the C layer,    *)
(* and what an application sees of them through the status condition of an *)
(* entity and status_changes().                                            *)
(***************************************************************************)
EXTENDS Integers, FiniteSets

CONSTANTS
    Occurring,   \* the statuses that an application merges and that occur
    OfEntity     \* the statuses the C layer knows for the entity

(* dds::core::status::StatusMask                                           *)
StatusBit ==
    [inconsistent_topic |-> 0, offered_deadline_missed |-> 1,
     requested_deadline_missed |-> 2, offered_incompatible_qos |-> 5,
     requested_incompatible_qos |-> 6, sample_lost |-> 7, sample_rejected |-> 8,
     data_on_readers |-> 9, data_available |-> 10, liveliness_lost |-> 11,
     liveliness_changed |-> 12, publication_matched |-> 13, subscription_matched |-> 14]

KnownStatuses == DOMAIN StatusBit
AllBits == {0, 1, 2} \cup 5 .. 14 \cup {31}      \* 0x80007fe7

ASSUME StatusMaskAssumption == Occurring \subseteq OfEntity /\ OfEntity \subseteq KnownStatuses

VARIABLES
    statusMask,  \* a StatusMask of the application
    statusEnabled,  \* the status mask of the entity in the C layer
    raised,      \* its statuses that have changed
    asked,       \* history: the mask that enabled_statuses() set last
    shown        \* what enabled_statuses() or status_changes() returned

maskVars == <<statusMask, statusEnabled, raised, asked, shown>>

NothingShown == [by |-> "nothing", mask |-> {}]

(* STATUS_MASK_CONTAINS and the two convertStatusMask().                   *)
ContainsStatus(mask, s) == {StatusBit[s]} \subseteq mask
ForgetsLiveliness(mask) ==      \* mutant
    {s \in KnownStatuses \ {"liveliness_changed"} : ContainsStatus(mask, s)}
StatusesOf(mask) == {s \in KnownStatuses : ContainsStatus(mask, s)}
MaskOf(statuses) == {StatusBit[s] : s \in statuses}

MasksInit ==
    /\ statusMask = {}
    /\ statusEnabled = OfEntity
    /\ raised = {}
    /\ asked = MaskOf(OfEntity)
    /\ shown = NothingShown

-----------------------------------------------------------------------------
(* none(), all(), one of the statuses, or one merged in by << or |.        *)
MakeMask ==
    /\ shown = NothingShown
    /\ \/ statusMask' \in {{}, AllBits}
       \/ \E s \in Occurring : statusMask' \in {{StatusBit[s]}, statusMask \cup {StatusBit[s]}}
    /\ UNCHANGED <<statusEnabled, raised, asked, shown>>

(* The C layer refuses a status that the entity does not have.             *)
EnableStatuses ==
    /\ shown = NothingShown
    /\ LET statuses == StatusesOf(statusMask)
       IN IF statuses \subseteq OfEntity
          THEN statusEnabled' = statuses /\ asked' = statusMask
          ELSE UNCHANGED <<statusEnabled, asked>>
    /\ UNCHANGED <<statusMask, raised, shown>>

ShowEnabled ==
    /\ shown = NothingShown
    /\ shown' = [by |-> "enabled_statuses", mask |-> MaskOf(statusEnabled)]
    /\ UNCHANGED <<statusMask, statusEnabled, raised, asked>>

ShowChanges ==
    /\ shown = NothingShown
    /\ shown' = [by |-> "status_changes", mask |-> MaskOf(raised)]
    /\ UNCHANGED <<statusMask, statusEnabled, raised, asked>>

(* The application passes on the mask it got.                              *)
TakeMask ==
    /\ shown # NothingShown
    /\ statusMask' \in {statusMask, shown.mask}
    /\ shown' = NothingShown
    /\ UNCHANGED <<statusEnabled, raised, asked>>

(* The C layer: a status changes, or somebody takes it.                    *)
StatusChanges ==
    /\ shown = NothingShown
    /\ \E s \in Occurring : raised' = IF s \in raised THEN raised \ {s} ELSE raised \cup {s}
    /\ UNCHANGED <<statusMask, statusEnabled, asked, shown>>

MasksNext ==
    MakeMask \/ EnableStatuses \/ ShowEnabled \/ ShowChanges \/ TakeMask \/ StatusChanges

MasksSpec == MasksInit /\ [][MasksNext]_maskVars

-----------------------------------------------------------------------------
MasksTypeOK ==
    /\ statusMask \subseteq 0 .. 31 /\ asked \subseteq 0 .. 31
    /\ statusEnabled \subseteq OfEntity /\ raised \subseteq OfEntity
    /\ shown.mask \subseteq 0 .. 31

(* The status condition triggers exactly when a status has changed that is *)
(* in the mask the application set last, enabled_statuses() returns the    *)
(* statuses of that mask, and status_changes() those that have changed.    *)
MasksAgree ==
    /\ (statusEnabled \cap raised # {}) = (\E s \in raised : StatusBit[s] \in asked)
    /\ \A s \in KnownStatuses :
          /\ shown.by = "enabled_statuses" =>
                (StatusBit[s] \in shown.mask) = (StatusBit[s] \in asked)
          /\ shown.by = "status_changes" => (StatusBit[s] \in shown.mask) = (s \in raised)
=============================================================================
