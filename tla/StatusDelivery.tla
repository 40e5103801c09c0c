--------------------------- MODULE StatusDelivery ---------------------------
(***************************************************************************)
(* How a status of an entity reaches the application: the masks with which *)
(* listeners are set on the entity and its containers, the callback the C  *)
(* layer picks, what the callback looks up before it calls the listener,   *)
(* and the changes that are reported, here or by the functions that return *)
(* a status. A source, its containers and their listeners are modelled;    *)
(* the gate and the memory of one entity are EntityListener's.             *)
(***************************************************************************)
EXTENDS Integers, Sequences, FiniteSets

LOCAL INSTANCE FiniteSetsExt

CONSTANTS
    Lines,           \* chains of entities: the classes from the source up
    StatusesUsed,    \* the statuses that occur
    Masks,           \* the masks that applications set a listener with
    Deliverers,      \* threads of the C layer
    MaxChanges,      \* bound: changes that are counted
    MaxSetters       \* bound: calls of listener()

ReaderStatuses == {"requested_deadline_missed", "requested_incompatible_qos", "sample_rejected",
                   "liveliness_changed", "data_available", "subscription_matched", "sample_lost"}
WriterStatuses == {"offered_deadline_missed", "offered_incompatible_qos", "liveliness_lost",
                   "publication_matched"}
AllStatuses == ReaderStatuses \cup WriterStatuses \cup {"inconsistent_topic", "data_on_readers"}

ASSUME LinesAssumption ==
    Lines \subseteq {<<"reader", "subscriber", "participant">>,
                     <<"writer", "publisher", "participant">>, <<"topic", "participant">>}

ASSUME StatusesAssumption ==
    StatusesUsed \subseteq AllStatuses /\ Masks \subseteq SUBSET AllStatuses /\ {} \in Masks

VARIABLES
    line,            \* the chain of this behaviour; level 1 is the source
    phase,           \* of the source: "created", "mapped", "ready", "closing"
    registered,      \* registered[k]: is there a listener at level k?
    mask,            \* listener_mask
    hooks,           \* external: the callbacks of the C entity
    noop,            \* external: are they those of make_noop_listener()?
    owned,           \* does the application hold the source?
    mapped,          \* is the source in entity_map?
    shut,            \* has the source refused callbacks?
    setter,          \* the level whose setter waits in dds_set_listener, or 0
    cb,              \* cb[d]: the callback that thread d executes
    total, unread,   \* external: the counters of the source's statuses
    reported,        \* (ghost) the changes the application has been told
    failure,         \* (ghost) what went wrong in a callback
    setters          \* (ghost) calls of listener() so far

deliveryVars == <<line, phase, registered, mask, hooks, noop, owned, mapped, shut, setter,
                  cb, total, unread, reported, failure, setters>>
listenerVars == <<registered, mask, hooks, noop, setter, setters>>
sourceVars == <<line, phase, owned, mapped, shut>>
counterVars == <<total, unread, reported>>

Levels == DOMAIN line

-----------------------------------------------------------------------------
(***************************************************************************)
(* What the classes can do.                                                *)
(***************************************************************************)
(* The statuses of which a C status has counters, and what is copied.      *)
Totals == {"total_count", "total_count_change"}
InconsistentTopicFields == Totals
SampleLostFields == Totals
SampleRejectedFields == Totals \cup {"last_reason", "last_instance_handle"}
LivelinessLostFields == Totals
LivelinessChangedFields == {"alive_count", "not_alive_count", "alive_count_change",
                            "not_alive_count_change", "last_publication_handle"}
OfferedDeadlineMissedFields == Totals \cup {"last_instance_handle"}
RequestedDeadlineMissedFields == Totals \cup {"last_instance_handle"}
OfferedIncompatibleQosFields == Totals \cup {"last_policy_id"}
RequestedIncompatibleQosFields == Totals \cup {"last_policy_id"}
PublicationMatchedFields == Totals \cup {"current_count", "current_count_change",
                                         "last_subscription_handle"}
SubscriptionMatchedFields == Totals \cup {"current_count", "current_count_change",
                                          "last_publication_handle"}

Fields(s) ==
    CASE s = "inconsistent_topic" -> InconsistentTopicFields
      [] s = "sample_lost" -> SampleLostFields
      [] s = "sample_rejected" -> SampleRejectedFields
      [] s = "liveliness_lost" -> LivelinessLostFields
      [] s = "liveliness_changed" -> LivelinessChangedFields
      [] s = "offered_deadline_missed" -> OfferedDeadlineMissedFields
      [] s = "requested_deadline_missed" -> RequestedDeadlineMissedFields
      [] s = "offered_incompatible_qos" -> OfferedIncompatibleQosFields
      [] s = "requested_incompatible_qos" -> RequestedIncompatibleQosFields
      [] s = "publication_matched" -> PublicationMatchedFields
      [] s = "subscription_matched" -> SubscriptionMatchedFields
      [] OTHER -> {}

Changes == {"total_count_change", "current_count_change", "alive_count_change",
            "not_alive_count_change"}
Counted == {s \in AllStatuses : Fields(s) \cap Changes # {}}

(* The callbacks a class overrides; the others are EntityDelegate's, which *)
(* assert that they are never called.                                      *)
ReaderHandles == ReaderStatuses
WriterHandles == WriterStatuses
TopicHandles == {"inconsistent_topic"}
SubscriberHandles == ReaderStatuses \cup {"data_on_readers"}
PublisherHandles == WriterStatuses
ParticipantHandles == ReaderStatuses \cup WriterStatuses \cup {"data_on_readers"}

Handles(class) ==
    CASE class = "reader" -> ReaderHandles
      [] class = "writer" -> WriterHandles
      [] class = "topic" -> TopicHandles
      [] class = "subscriber" -> SubscriberHandles
      [] class = "publisher" -> PublisherHandles
      [] class = "participant" -> ParticipantHandles

(* The statuses that the C layer raises for a source.                      *)
Raises(class) ==
    StatusesUsed \cap (CASE class = "reader" -> ReaderStatuses
                         [] class = "writer" -> WriterStatuses
                         [] class = "topic" -> {"inconsistent_topic"})

(* listener_set: a callback for every status of the mask.                  *)
Callbacks(m) == m \cap AllStatuses

(* External: the C entity calls the nearest callback among its own and its *)
(* containers'. Data is offered to data_on_readers of a container first.   *)
Asks(k, s) == noop[k] \/ s \in hooks[k]
NearestOf(s, levels) ==
    LET asked == {k \in levels : Asks(k, s)}
    IN  IF asked = {} THEN Len(line) + 1 ELSE CHOOSE k \in asked : \A j \in asked : k <= j
Offer(s) ==
    LET onReaders == NearestOf("data_on_readers", Levels \ {1})
    IN  IF s = "data_available" /\ onReaders \in Levels
        THEN [level |-> onReaders, status |-> "data_on_readers"]
        ELSE [level |-> NearestOf(s, Levels), status |-> s]

NoCallback == [at |-> "idle", level |-> 0, status |-> "none", n |-> 0]
Busy == {d \in Deliverers : cb[d].at # "idle"}
Pending == Busy # {}

-----------------------------------------------------------------------------
(***************************************************************************)
(* Callbacks.                                                              *)
(***************************************************************************)
(* External: a status of the source changes. The callback that is called   *)
(* resets the change (reset_on_invoke); the no-op ones leave it.           *)
NoopResets(k) == TRUE                                               \* mutant
ResetOnInvoke(k) == ~noop[k]

Raise(d, s) ==
    LET offer == Offer(s)
        called == offer.level \in Levels
        n == IF s \in Counted THEN unread[s] + 1 ELSE 0
        taken == called /\ ResetOnInvoke(offer.level)
    IN  /\ phase # "gone" /\ failure = "none"
        /\ cb[d] = NoCallback
        /\ s \in Raises(line[1])
        /\ s \in Counted => MapThenSumSet(LAMBDA c : total[c], Counted) < MaxChanges
        /\ total' = IF s \in Counted THEN [total EXCEPT ![s] = @ + 1] ELSE total
        /\ unread' = IF s \in Counted THEN [unread EXCEPT ![s] = IF taken THEN 0 ELSE n]
                     ELSE unread
        /\ IF called /\ ~noop[offer.level]
           THEN cb' = [cb EXCEPT ![d] = [at |-> "called", level |-> offer.level,
                                         status |-> offer.status, n |-> n]]
           ELSE UNCHANGED cb
        /\ UNCHANGED <<sourceVars, listenerVars, reported, failure>>

Move(d, at) == cb' = [cb EXCEPT ![d].at = at]

(* obtain_callback_lock: only a reader that closes refuses callbacks; the  *)
(* change goes with it.                                                    *)
Enter(d) ==
    /\ cb[d].at = "called"
    /\ IF shut /\ cb[d].level = 1 THEN cb' = [cb EXCEPT ![d] = NoCallback] ELSE Move(d, "entered")
    /\ UNCHANGED <<sourceVars, listenerVars, counterVars, failure>>

(* The entity itself is found by its weak reference, which init() sets; a  *)
(* container finds the source by its handle, in the map.                   *)
FoundByContainer == IF ~mapped THEN "no entry" ELSE IF ~owned THEN "null source" ELSE "none"
SkipsNull == line[1] \in {"reader", "writer"}
FindSource(d) ==
    IF cb[d].status = "data_on_readers" THEN "none"   \* it is about the subscriber
    ELSE IF cb[d].level > 1 THEN FoundByContainer
    ELSE IF ~owned \/ phase = "created" THEN "null source"
    ELSE "none"

Resolve(d) ==
    LET found == FindSource(d)
        class == line[cb[d].level]
    IN  /\ cb[d].at = "entered"
        /\ IF cb[d].status \notin Handles(class)
           THEN cb' = [cb EXCEPT ![d] = NoCallback] /\ failure' = "not handled"
           ELSE IF found = "null source" /\ cb[d].level = 1 /\ SkipsNull
           THEN cb' = [cb EXCEPT ![d] = NoCallback] /\ UNCHANGED failure
           ELSE /\ Move(d, "resolved")
                /\ failure' = IF found = "none" THEN failure ELSE found
        /\ UNCHANGED <<sourceVars, listenerVars, counterVars>>

(* A container calls its listener without a look; a source skips null, and *)
(* a topic looks at the mask, too.                                         *)
Told(s, n) == IF s \in Counted THEN [reported EXCEPT ![s] = @ + n] ELSE reported
Deliver(d) ==
    LET k == cb[d].level
        wanted == line[k] = "topic" => cb[d].status \in mask[k]
    IN  /\ cb[d].at = "resolved"
        /\ cb' = [cb EXCEPT ![d] = NoCallback]
        /\ failure' = IF k > 1 /\ ~registered[k] THEN "null listener" ELSE failure
        /\ reported' = IF registered[k] /\ wanted THEN Told(cb[d].status, cb[d].n) ELSE reported
        /\ UNCHANGED <<sourceVars, listenerVars, total, unread>>

-----------------------------------------------------------------------------
(***************************************************************************)
(* The application.                                                        *)
(***************************************************************************)
(* listener_set: the members change at once, the C layer's callbacks when  *)
(* none is running; before enable() only the members do.                   *)
ReadyToSet == setter = 0 /\ setters < MaxSetters /\ failure = "none"

SetListener(k, some, m) ==
    /\ ReadyToSet
    /\ k \in Levels /\ m \in Masks
    /\ ~some => m = {}
    /\ k = 1 => phase = "ready"
    /\ registered' = [registered EXCEPT ![k] = some]
    /\ mask' = [mask EXCEPT ![k] = m]
    /\ setter' = k
    /\ setters' = setters + 1
    /\ UNCHANGED <<sourceVars, hooks, noop, cb, counterVars, failure>>

Enabled(k) == ~noop[k]
Install ==
    /\ setter # 0
    /\ IF Enabled(setter)
       THEN ~Pending /\ hooks' = [hooks EXCEPT ![setter] = Callbacks(mask[setter])]
       ELSE UNCHANGED hooks
    /\ setter' = 0
    /\ UNCHANGED <<sourceVars, registered, mask, noop, setters, cb, counterVars, failure>>

(* init() of the source: it enters the map, and a reader or a writer       *)
(* enables itself, as does a topic unless the participant does not.        *)
EnterMap ==
    /\ phase = "created"
    /\ phase' = "mapped"
    /\ mapped' = TRUE
    /\ UNCHANGED <<line, owned, shut, listenerVars, cb, counterVars, failure>>

(* enable(): dds_set_listener with listener_callbacks.                     *)
Enable(k) ==
    /\ setter = 0 /\ failure = "none" /\ ~Pending
    /\ IF k = 1 THEN phase = "mapped" ELSE phase = "ready" /\ noop[k]
    /\ noop' = [noop EXCEPT ![k] = FALSE]
    /\ hooks' = [hooks EXCEPT ![k] = Callbacks(mask[k])]
    /\ phase' = IF k = 1 THEN "ready" ELSE phase
    /\ UNCHANGED <<line, owned, mapped, shut, registered, mask, setter, setters, cb, counterVars,
                   failure>>

(* A status that is asked for is reported, and its change is reset.        *)
GetStatus(s) ==
    /\ phase = "ready" /\ failure = "none" /\ s \in Raises(line[1]) \cap Counted
    /\ reported' = Told(s, unread[s])
    /\ unread' = [unread EXCEPT ![s] = 0]
    /\ UNCHANGED <<sourceVars, listenerVars, cb, total, failure>>

(* matched_publications() and matched_subscriptions() ask for the status   *)
(* to learn how many there are: that resets the change, untold.            *)
MatchedStatuses == {"subscription_matched", "publication_matched"}
GetMatched(s) ==
    /\ phase = "ready" /\ failure = "none"
    /\ s \in Raises(line[1]) \cap MatchedStatuses
    /\ unread' = [unread EXCEPT ![s] = 0]
    /\ UNCHANGED <<sourceVars, listenerVars, cb, total, reported, failure>>

(* close(), by the application or by the destructor of the last reference: *)
(* a reader refuses callbacks when it has none, the listener goes, and     *)
BeginClose(gone) ==
    /\ phase = "ready" /\ setter = 0 /\ failure = "none"
    /\ line[1] = "reader" => \A d \in Busy : cb[d].level # 1 \/ cb[d].at = "called"
    /\ gone => \A d \in Busy : cb[d].at # "resolved"
    /\ phase' = "closing"
    /\ owned' = ~gone
    /\ shut' = (line[1] = "reader")
    /\ registered' = [registered EXCEPT ![1] = FALSE]
    /\ mask' = [mask EXCEPT ![1] = {}]
    /\ setter' = 1
    /\ UNCHANGED <<line, mapped, hooks, noop, setters, cb, counterVars, failure>>

(* ... once it is uninstalled, the entity leaves the map ...               *)
LeaveMap ==
    /\ phase = "closing" /\ setter = 0
    /\ phase' = "unmapped"
    /\ mapped' = FALSE
    /\ UNCHANGED <<line, owned, shut, listenerVars, cb, counterVars, failure>>

(* ... and dds_delete waits for callbacks, those of containers included.   *)
DeleteSource ==
    /\ phase = "unmapped" /\ ~Pending
    /\ phase' = "gone"
    /\ UNCHANGED <<line, owned, mapped, shut, listenerVars, cb, counterVars, failure>>

-----------------------------------------------------------------------------
(* Containers are there first; each may be enabled or still have the no-op *)
(* listener, as the source that was just created has. A topic is created   *)
(* with the callbacks that its constructor was given.                      *)
CreatedListener(k, m) == IF line[1] = "topic" /\ k = 1 THEN Callbacks(m) ELSE {}
CreatedBare == FALSE                                                 \* mutant
CreatedNoop == line[1] # "topic"

DeliveryInit ==
    /\ line \in Lines
    /\ phase = "created"
    /\ mask \in [Levels -> Masks]
    /\ registered = [k \in Levels |-> mask[k] # {}]
    /\ noop \in [Levels -> BOOLEAN] /\ noop[1] = CreatedNoop
    /\ hooks = [k \in Levels |->
            IF k > 1 /\ ~noop[k] THEN Callbacks(mask[k]) ELSE CreatedListener(k, mask[k])]
    /\ owned = TRUE /\ mapped = FALSE /\ shut = FALSE /\ setter = 0 /\ setters = 0
    /\ cb = [d \in Deliverers |-> NoCallback]
    /\ total = [s \in Counted |-> 0] /\ unread = total /\ reported = total
    /\ failure = "none"

DeliveryNext ==
    \/ \E d \in Deliverers :
           (\E s \in AllStatuses : Raise(d, s)) \/ Enter(d) \/ Resolve(d) \/ Deliver(d)
    \/ \E k \in Levels, some \in BOOLEAN, m \in Masks : SetListener(k, some, m)
    \/ Install \/ EnterMap \/ (\E k \in Levels : Enable(k))
    \/ \E s \in AllStatuses : GetStatus(s) \/ GetMatched(s)
    \/ (\E gone \in BOOLEAN : BeginClose(gone)) \/ LeaveMap \/ DeleteSource

DeliverySpec == DeliveryInit /\ [][DeliveryNext]_deliveryVars

-----------------------------------------------------------------------------
(***************************************************************************)
(* Properties.                                                             *)
(***************************************************************************)
DeliveryTypeOK ==
    /\ line \in Lines
    /\ phase \in {"created", "mapped", "ready", "closing", "unmapped", "gone"}
    /\ registered \in [Levels -> BOOLEAN] /\ noop \in [Levels -> BOOLEAN]
    /\ mask \in [Levels -> Masks] /\ hooks \in [Levels -> SUBSET AllStatuses]
    /\ {owned, mapped, shut} \subseteq BOOLEAN /\ setter \in Levels \cup {0}
    /\ \A d \in Deliverers : cb[d].at \in {"idle", "called", "entered", "resolved"}
    /\ failure \in {"none", "no entry", "null source", "null listener", "not handled"}

(* The changes of a status that have been counted, that nobody has been    *)
(* told of and nobody will be.                                             *)
InFlight(s) == MapThenSumSet(LAMBDA d : IF cb[d].status = s THEN cb[d].n ELSE 0, Busy)
Lost(s) == total[s] - reported[s] - unread[s] - InFlight(s)

(* A listener is being taken away, or the source is being closed.          *)
Silencing(s) ==
    \/ phase \in {"closing", "unmapped", "gone"}
    \/ setter # 0 /\ (~registered[setter] \/ s \notin mask[setter])

(* Every change of a status is told once: by the callback that it leads to,*)
(* or by the next, or to whoever asks; those before a listener is          *)
(* installed too, since the no-op callbacks leave them unread. Only three  *)
(* things lose one: taking a listener away or closing the source while the *)
(* callback runs, asking for the matched endpoints, and the participant,   *)
(* who has no callback for an inconsistent topic.                          *)
ToldOnce ==
    [][\A s \in Counted \cap StatusesUsed :
        /\ Lost(s)' >= 0
        /\ Lost(s)' > Lost(s) =>
               \/ Silencing(s)
               \/ s \in MatchedStatuses /\ unread'[s] = 0 /\ UNCHANGED <<cb, total>>
               \/ failure' = "not handled"]_deliveryVars

(* A callback finds the entity it is about and the listener it is for: an  *)
(* entity that is being created has no-op callbacks until it is in the     *)
(* map, whatever listeners its containers have. It does not if             *)
(*   - a listener of a container is being taken away (the container calls  *)
(*     null),                                                              *)
(*   - the source closes: it has left the map before the C layer waits for *)
(*     callbacks, or its last reference has gone,                          *)
(*   - the source is a topic that was created with a listener, or          *)
(*   - the participant is called for an inconsistent topic.                *)
FailsForAReason ==
    CASE failure' = "null listener" -> setter # 0 /\ ~registered[setter]
      [] failure' = "no entry" -> phase = "unmapped"
      [] failure' = "null source" -> ~owned \/ (line[1] = "topic" /\ phase = "created")
      [] failure' = "not handled" ->
             \E d \in Busy : cb[d].status = "inconsistent_topic" /\ line[cb[d].level] = "participant"
      [] OTHER -> FALSE

SourceIsFound == [][failure' # failure => FailsForAReason]_deliveryVars

(* Every change of a status is told once, to a listener that exists.       *)
ChangesAreTold == ToldOnce /\ SourceIsFound
=============================================================================
