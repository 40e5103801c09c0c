# A TLA+ model of Cyclone DDS C++

Cyclone DDS C++ (`src/src/ddscxx`) is the ISO C++ PSM binding of Eclipse
Cyclone DDS, with a back end of the IDL compiler (`src/src/idlcxx`). The C
library does discovery, transport and storage on its own threads; the C++ layer
wraps every C entity in a delegate with a mutex, a reference count, listeners,
conditions and parent sets, and converts samples, policies and times. What is
hard in it is not the protocol on the wire, which is C, but the lifecycle of the
delegates (who may close what, while which callback runs, and what an exception
leaves behind), the ownership of samples, and the agreement of things that are
converted, measured or generated in two places. That is what these modules model.

Paths below are relative to `src/src/ddscxx`; `core/`, `sub/`, `pub/`, `topic/`
and `domain/` stand for the directories under `src/org/eclipse/cyclonedds`, and
headers are named by their last component.

## Inventory

| Component | State | Operations | Interacts through | Hard behaviour | What makes it correct |
|---|---|---|---|---|---|
| Listeners and callback delivery (`core/EntityDelegate.cpp`, `core/ListenerDispatcher.cpp`) | `callback_count` with its mutex and condition variable, `listener`, `listener_mask`, `listener_callbacks` and its `ListenerArg`, `enabled_`, object mutex and `closed`; the counters of statuses in C | callbacks, `listener(l, mask)`, `enable()`, `close()`, destructor, status getters | C threads call back with a raw `ListenerArg`; `dds_set_listener` and `dds_delete` wait for callbacks in progress | setter, closer, last reference and callbacks race; a callback may lock the entity it belongs to; a status falls to a container | the counter is exact, nothing freed is used, no old listener runs after the setter, calls return, a change is told once |
| Waitsets and conditions (`core/cond`, `sub/cond`) | `conditions_` of a waitset, `waitSetList` of a condition, the C waitset, three kinds of mutex | attach, detach, wait, dispatch, close, trigger | each side calls the other under its own locks | lock order; a wait that overlaps an attach, a detach or a close | the three records agree, what is closed or destroyed is detached, no deadlock |
| Domains and participants (`domain/`) | `domain_registry_` with shared `DomainWrap`s, a global mutex | constructors with and without configuration, failure, `close()` | the C library creates and deletes domains implicitly | what happens outside the global lock; constructors that throw | one configuration per domain as long as it lives, no domain taken away, none left behind |
| Entity tree and lifecycle (`core/EntitySet.cpp`, `sub/SubscriberDelegate.cpp`, `pub/PublisherDelegate.cpp`, `TDataReaderImpl.hpp`, `DataWriterImpl.hpp`, `TTopicImpl.hpp`, `ContentFilteredTopic.hpp`) | sets of weak references in each parent, `nrDependents` of each topic, object mutexes, `closed` | create, `close()` of a subtree, drop | children take themselves out of their parents' sets | a child closes while its parent does; exceptions interrupt `close()`; an unlocked counter | parents and topics outlive what uses them, nothing becomes impossible to close, no deadlock |
| Topics, filters and discovery (`topic/`, `ContentFilteredTopic.hpp`, `find.hpp`) | the sets of entities, filter functors and private C topics | find by name or handle, `contains_entity`, `filter_function` | a lookup makes weak references strong; the C layer calls functors without a lock | an entity closes, or its last reference goes, inside a lookup; a functor is replaced under its readers | a lookup finds what is there and throws only for a reason; a reader keeps the filter of its topic |
| Read path, selectors and queries (`sub/AnyDataReaderDelegate.cpp`) | the reader's mutex; sample holders | read and take by state, instance, maximum | collectors run as C callbacks | references taken in the middle of a walk through the cache | a sample is taken once, what `data()` returns is there |
| Loans and serialized samples (`datatopic.hpp`, `SampleRef.hpp`, `LoanedSamplesImpl.hpp`) | `m_t` (atomic), `loan`, reference counts | lazy `getT`, `setLoan`, conversions, copies | shared by all readers of a sample | compare-and-swap races, loans returned by the last reader | objects, references and loans have exactly the owners that give them up |
| Writing and instances (`pub/AnyDataWriterDelegate.cpp`, `DataWriterImpl.hpp`) | `td_`, `ddsc_entity`, object mutex | write and dispose of samples, ranges, pairs, CDR, loans; instances; close | C calls that may wait for room | writes take no lock while another thread closes | what returns was published, what throws was not, nothing after `close()` |
| CDR streams (`core/cdr`, `streamers.c`) | position, alignment, stacks of bounds and delimiters | align, measure, write, read over structures | called by serdata | boundaries, padding, optional and must-understand members, types that evolve | the passes agree on the size, reading inverts writing, equal keys hash alike |
| Entity properties of types (`core/cdr/entity_properties.cpp`) | trees of members, built once per type | build on first use | threads that stream at the same time | types that refer to each other while several threads build | a tree that may be used is complete |
| IDL compiler back end (`src/src/idlcxx`) | two output files, open streams | one run of `generate()` | the IDL parser | forward declarations, recursion, names that collide, failures half way | what is written is a program that streams what is declared |
| QoS policies and provider (`core/policy`, `*/qos`) | value records | check, set, merge, derive, convert | constructors, setters, references | consistency between policies, defaults, three ways to get a qos | what is held was checked and is what C has |
| Duration, Time (`src/dds/core`, `TimeHelper.hpp`) | seconds, nanoseconds | arithmetic, conversion | everywhere | carry, overflow, reserved values | results are exact, conversion keeps order |
| Status masks, sample states (`State.cpp`, `DataState.cpp`) | bit sets | build, convert | read path, conditions | bits differ between the two layers | what is selected is what is shown |
| Built-in topics (`BuiltinTopicDelegate.hpp`, `pubdiscovery.cpp`) | copies of endpoint data | matched endpoints, comparison, accessors | C allocates, C++ frees | copies share what C allocated | each has the data of its endpoint, freed once |
| Coherent access, X-Types, exceptions, examples, tests, build | - | - | - | no protocol | - |

`PROJECT.json` lists the same components with what is modelled of each, and the
hazards of the code with their lines.

## Modules

| Module | What it is |
|---|---|
| `ListenerContract` | abstract: what an application may rely on about listeners |
| `EntityListener` (`MCEntityListener`) | one entity, its listener, the callback gate, the threads |
| `StatusDelivery` | which change of a status is told to whom, over the chain from a source to its participant |
| `WaitSetConditions` (`MCWaitSetConditions`) | waitsets, conditions and threads |
| `DomainContract` | abstract: who is in a domain and with whose configuration |
| `DomainRegistry` (`MCDomainRegistry`) | participants and the registry |
| `EntityTree` (`MCEntityTree`) | the tree of entities and `close()` |
| `EntityLookup` | finding entities while others come and go |
| `FilteredTopic` | functors of filtered topics and the readers they are for |
| `ReadPath` | serialized samples, reads and takes, loans and references |
| `WritePath` | the calls of a `DataWriter` |
| `CdrStream` (`MCExchanges`: the types) | the streams of a sample from one type to another |
| `TypeProps` | the trees of members that streams walk, and who builds them |
| `UnionType` | the class generated for an IDL union and its stream functions |
| `IdlTypes` (`MCCompiler`: the files) | one run of the IDL compiler's back end |
| `PolicyValues`, `EntityQos`, `PolicyObjects` | the table of policies; the qos of an entity; policy objects |
| `TimeValues`, `DurationTime` | operations on durations and times; an application that uses them |
| `SampleStates`, `StatusMasks`, `ApplicationStates` | states that samples are selected by; status masks; both |
| `BuiltinData` | built-in topic data and its lookups |
| `MCEntities`, `MCFinding`, `MCReader`, `MCValues`, `MCWriter` | parts put together for one run each |
| `*Proofs` | theorems, see below |

`ListenerContract` and `DomainContract` are implemented by the modules below
them: `KeepsContract` is the abstract specification under a refinement mapping.
`PolicyObjects` and `EntityQos` extend `PolicyValues`, which extends
`TimeValues`; the other modules stand beside each other, and what one leaves to
another is said in its header.

### EntityListener

A callback thread of the C layer goes `idle` -> `called` (the C layer picked the
installed `ListenerArg`) -> `promote` (inside the gate) -> `fetch` -> `user` (in
the application's code) -> `unref` -> `release` -> `return`. An application
thread in `listener()` or `close()` goes `lock` -> `swap` -> `install` -> `free`,
then `teardown` for `close()`; a reader's `close()` passes the `gate` first.
Every step between two of these labels is one lock operation, one C call or one
access to a shared member, in the order of the source.

- `count`, `waiters`: `callback_count`, and the threads on `callback_cond`.
- `stored`, `fresh`, `live`, `hooked`, `installed`: the `ListenerArg` in
  `listener_callbacks`, the one being built, the allocated ones, those whose
  `dds_listener_t` has the callback set, and the copy in the C layer.
- `refs`: who holds a `shared_ptr`; whoever drops the last one, a callback thread
  included, runs the destructor, which closes.
- The C layer is external and stated by `Quiescent`: `dds_set_listener` and
  `dds_delete` wait until no callback of the entity is pending. The code relies on
  exactly that when it deletes the previous argument.
- `Kind` selects the class: a reader closes through the gate and refuses a lost
  reference, a writer does not use the gate to close, a topic goes on with a null
  reference and passes its callbacks to the C constructor.
- Assertions are compiled out (NDEBUG).

### StatusDelivery

`line` is the chain of classes from a source (reader, writer or topic) to its
participant. A change counts in `total` and `unread` of the source; the C layer
picks the nearest callback (`Offer`), the callback finds its source (`Resolve`)
and calls a listener (`Deliver`). `noop` is the listener that an entity which is
not enabled has in the C layer: it leaves the change unread. `reported` and
`failure` are ghosts. The matched-endpoint calls reset the change, as
`sub/AnyDataReaderDelegate.cpp:568-575` does. `data_on_readers` is offered to
containers only (`DataReaderListener.hpp:240-250`), and a null listener comes
with the mask none.

### WaitSetConditions

The scoped locks of the source appear as `wOwner`, `cOwner` and `lOwner`; the
three records of an attachment as `conditions`, `listed` and `attached`. Exceptions
release the locks a thread holds (`Throw`). A status condition shares the handle
of its entity: closing it zeroes the handle (`"nil"`), it never becomes
`"closed"`. `TimeOut` stands for a time-out or for a C waitset that was deleted.

### DomainRegistry

The global lock, the C calls and `domain_ref_` are separate steps, because
`close()` deletes the C participant before it takes the lock and a constructor
that fails releases the lock before it deletes its domain. A `DomainWrap` is
named after the participant that created it; `use_count()` is the number of
`domainRef`s plus the registry's entry. External: a domain created explicitly
goes when its wrap does, an implicit one with its last participant; the default
id resolves to an existing domain if there is one.

### EntityTree, EntityLookup

In `EntityTree` each member function is a list of stages (`Body`,
`ConstructorBody`), and each thread has a stack of frames, so that nested
`close()` calls, the mutexes they keep and the unwinding of an exception are
explicit. `all_close()` takes a copy of the set (`Copy`) and visits it in any
order (`Each`). `nrDependents--` is a load (`ReadDecr`) and a store (`Decr`).

In `EntityLookup` the same stacks serve `find_topic` and its like, which copy a
set and then ask each entity for its name outside the set's mutex, and
`contains_entity`, which keeps the mutex of every set it looks into. A lookup has
a reference to what it looks at, which may be the last: the destructor then runs
in the lookup. `close()` is reduced to what a lookup can see. `answer` keeps the
last result with what was there throughout (`steady`) and what was closed
meanwhile (`closing`). A caller lets go of what its last lookup returned before
it looks again or closes something (a bound).

### FilteredTopic

`filter_function()` copies the C topic, gives the copy a new functor and makes it
the current one of the filtered topic (a view); readers keep the C topic they
were created on. The application keeps its reference to a view during a call.

### ReadPath, WritePath

`ReadPath`: a `ddscxx_serdata` is a record (`life`, `refs`, `m_t`, `loan`,
`bytes`); a step that changes references goes through `Ref`, which frees what has
none left. `Collect` is one callback of the collector, with the two references of
`append_sample()`. The reader cache of C is external: oldest first, KEEP_LAST, its
lock excludes everything but `getT()`. Objects of the topic type (`heap`) are
named by the serdata and by who made them, so that a lost compare-and-swap in
`getT()` and a double free are visible.

`WritePath`: a call is a record of what was passed (`samples`, `n` handles,
`time`) with a ghost `sent`; a thread goes through the stages of the function in
the order of its tests. Writes take no lock; those on instances keep the object
mutex while C waits for room. `write_cdr()` and its like test `td_`
(`CheckReference`, `ReferenceImpl.hpp:171`), use it and then use what
`ddsi_serdata_from_ser_iov` made of the bytes (`UseReference`,
`pub/AnyDataWriterDelegate.cpp:106-114`): two more steps, without a lock, of which
the second ends in `crashed` if `close()` set `td_` to null after the test, or if
the bytes are not a sample (`Unreadable`). Once a thread has crashed nothing goes
on. That `td_` is read while it is assigned is taken as a read before or after; the
topic itself is kept by the application.

### CdrStream, TypeProps, UnionType, IdlTypes

`CdrStream` follows one sample through the passes of a writer and a reader:
measure the largest, measure this one, write, read. A type is a record of
members; what is written is a sequence of cells, and reading something else than
a cell gives `Junk`. In a type that has no list, the first member that is present
is found without asking whether bytes are left, every later one with (`first` in
`NextInOrder`). The stacks of ends, delimiters and alignment offsets are
those of `cdr_stream.hpp`; position and alignment are exact. `TypeProps` is
`get_type_props()`: several threads build lists of linked members of types that
refer to each other. `UnionType` is the class of one union with two objects;
`shape` is the IDL type. `IdlTypes` runs `generate()` over one file.

### EntityQos, PolicyObjects, DurationTime

`PolicyValues` is the table: for each policy its values, those `check()` refuses,
and both conversions. `EntityQos` keeps the application's object (`app`), the
entity's (`held`) and C's (`installed`); `byRef` remembers what was edited through
the reference that `policy<P>()` returns, which nothing checks. `PolicyObjects`
has the constructors, factories and setters of the policy classes. In
`DurationTime`, a second has `MS^3` nanoseconds and an int32 wraps at `Reserved`;
`exactD`, `exactT` follow the promised result.

### SampleStates, StatusMasks, BuiltinData

Bit sets on both sides and the conversions between them, with what the C layer
does to the samples and the statuses. `BuiltinData` has the classes of built-in
data over the endpoints a writer or a reader matched, and who frees what C
allocated for them.

## Runs

A run may hold several parts that share no state (`MCReader`, `MCEntities`,
`MCFinding`, `MCValues`, `MCWriter`): a variable `subject` says which of them a
behaviour is of, and the others keep their first state, so that the run explores
the sum of the parts and not their product.

| Run | Instance | Shows |
|---|---|---|
| `reader_close` | a reader with 2 callback threads that take the reader's mutex and 2 application threads; 2 views with 2 readers and 2 threads; 2 samples of an instance; the statuses of a reader | `GateExact`, `CloseReturns` (liveness), `KeepsContract`; `FiltersAreOwn`; `StatesAgree`; `ReaderTypeOK` |
| `waitset_use` | 2 threads, 1 waitset, a guard and a status condition, every operation | `AttachmentsAgree`, `NoDeadlock`, `CallsReturn` (liveness), `TypeOK` |
| `entities` | 3 participants in 2 domains; a reader, a writer or a topic with its containers and 2 callback threads; every kind of qos and of policy | `DomainsAgree`, `ExistingDomainIsUsed`, `KeepsContract`; `ChangesAreTold`; `HeldIsInForce`, `NothingIsDropped`; `PolicyObjectsAgree`; `EntitiesTypeOK` |
| `tree_close` | 9 entities of every kind and 2 threads; 10 entities, one thread that looks and one that closes and drops | `NoDeadlock`, `BalancedWhenQuiet`, `UsedOutlives`; `LookupsAreExact`; `ClosesAndLookupsEnd` (liveness); `FindingTypeOK` |
| `values` | durations; 20 union types; streams of both encodings over the types of `MCExchanges`; 2 serdatas of 2 instances with 2 threads | `DurationsAreExact`; `UnionsAgree`; `SizesAgree`, `ArrivesAsSent`; `OwnershipIsExact`, `DataIsThere`, `DataIsStable`; `ValuesTypeOK` |
| `writer` | the listener of a writer, enabled or not; 2 threads that write; 2 matched endpoints; 2 threads that build tables; 10 IDL files | `MemorySafe`, `NotCalledUntilEnabled`, `OldListenerQuiet`; `PublishesWhatIsAsked`; `BuiltinDataAgree`; `GeneratedCodeAgrees`; `CallsEnd` (liveness); `WriterTypeOK` |
| `unregister_blocks` | 1 callback thread, 1 caller | violates `SetterReturns` |
| `waitset_deadlock` | 2 threads, 1 waitset, 1 guard | violates `DestructorDoesNotDeadlock` |
| `wait_returns_nothing` | 2 threads, 1 waitset, 1 guard | violates `WaitReportsUnblockers` |
| `domain_exists` | 2 participants | violates `PreviousConfigIsUsed` |
| `tree_count` | 2 threads, 2 readers of 1 topic | violates `TopicCanClose` |
| `fixed_size` | keys that are unions with branches of two sizes | violates `KeyIsWritten` |

**Bounds.** Two callback threads are what it takes for one to be in a callback
while another enters, leaves or is refused, and two callers for two closers to
wait on one condition variable or for a setter to race a closer. Two listeners
tell old from new. Three `ListenerArg` addresses are the installed one, the one
being built, and one that can be reused; the proofs hold for any number. Three
participants let one open and one close on a domain while the constructor of a
third fails. In `tree_close` each kind of entity occurs; the first thread closes
the participant, its containers and the topics and creates the writer, the second
one closes the endpoints and the filtered topic and drops the read condition, so
that every `close()` of a parent can overlap that of each of its children.
`MaxDependents` stands for the wrap of a 32-bit counter and is 3, above the
number of dependents of any topic, so that an underflow shows. `MaxCalls` is one
lookup against two calls that close or drop, which is what it takes to close an
entity and drop its last reference inside one lookup.

`MaxTopics` 3 and `MaxFunctors` 2: each view gets a filter, or one of them gets
a second one. `MaxChanges` 2 counted changes tell a change that is told twice
from one that is lost; `MaxSetters` 1 call of `listener()` on top of those that
the entities were created with. `MaxEdits` 2: a policy is made inconsistent with
another that was edited before. `Depth` 1 with 2 serdatas of 2 instances pushes
a sample out under a thread that still refers to it; `MaxLost` 1 and the
constraint `OneInstanceIfLost` bound the leak of `SampleRef::operator=`.
`VisitedMax` 6 and `ReachMax` 4 are the limits of two searches in the code, made
small enough to be reached by the types given. A second has 8 nanoseconds (`MS` =
2) and `Reserved` 17 leaves room for a second and for a carry. The calls of
`SomeCalls` contain every operation of a writer, ranges of no, one and two
samples, and a range of handles that is shorter. Unions have 4 discriminators,
with and without default, with all of them named and with types that occur
twice. `k3` of the writer is a sample whose bytes nothing can be made of. The
exchanges of `LeadingExchanges` have a writer whose members are optional and absent
or present and a reader that has more: all of them in XCDR2, those in XCDR1 whose
sample ends where it needs no padding, because the code cannot tell padding from
members that were appended.

What the instances do not reach: in `reader_close` no listener is replaced
(`OldListenerQuiet` is checked in `writer` and proved for every kind of entity,
`OldListenersAreQuiet`); in `writer` one application thread calls the members of the
entity whose listener is modelled, so that `enable()` beside a setter of another
thread, which the code does not protect, does not occur (`EnablesAlone`).
`BuiltinDataAgree` is about an application that keeps what a lookup returned where it
is (`careful`): both cases of the hazard of `BuiltinTopicDelegate.hpp:341` are outside
of it.

**Left out of the instances on purpose.** `tree_close` has no two dependents of
one topic (`tree_count`), no thread that creates an endpoint while another closes
its container or topic, and no query closed explicitly by a thread while another
closes its reader: the code breaks there in ways the hazards of `PROJECT.json`
describe. Restrictions of this kind are in the constants of the MC modules, not
in the actions. Three are in the properties: `NoDeadlock` of waitsets allows a
circle around a thread that closes a condition (`waitset_deadlock`);
`LookupsEnd` one of `contains_entity` with itself; `ArrivesAsSent` leaves out
streams that the code misaligns (`stale`, below). Three more state what the code
does where a reader would expect something else: `Stranded` in `ArrivesAsSent` (a
sample that is refused), `CrashesAreExplained` in `PublishesWhatIsAsked` with
`Crashed` in `CallsEnd`, and the flags of properties in `EqualInstallsEqual`.

**Deadlock checking** is off in the passing runs, where the system really may
stop: an application that has closed everything calls nothing any more
(`reader_close`, `tree_close`, `writer`), participants and lookups live once, one
pass over a sample or a file ends (`values`, `entities`), a callback that drops
the last reference waits for itself in `dds_delete` (`core/EntityDelegate.cpp:254`
describes the case for the gate), and `waitset_use` contains the deadlock of
`waitset_deadlock`. Deadlocks of mutexes are stated as invariants instead
(`NoDeadlock`, twice), and that calls end as liveness. The runs that expect a
violation check one property each.

**Symmetry** is used for participants (`entities`) and for threads and instances
of the read path (`values`), in runs without liveness.

**Fairness.** `WF(Callback(d))`, `WF(Member(t))`, `WF(Step(t))`, and likewise
`WriteFairness`, `PropsFairness` and `LookupFairness`: a thread that is in the
library, or in a callback, is scheduled and callbacks return; a C call that waits
for room ends after `max_blocking_time`. Nothing obliges the application to call,
an event to occur or a wait to end. No mutex is assumed fair, so the liveness
properties of listeners and waitsets assume that the arrivals of new calls and
callbacks pause at some time; without that, a stream of callbacks really can hold
`prevent_callbacks` up. `RetriedCloseSucceeds` assumes an application that calls
`close()` of the participant again as long as it throws.

**Mutants.** For each property of a passing run `PROJECT.json` names a definition
and a wrong variant of it, next to it in the module and marked `mutant`: the
property fails when the variant takes its place.

## Findings

1. `unregister_blocks`: `listener(NULL, none)` holds the reader's mutex while
   `dds_set_listener` waits for a callback that waits for that mutex in `take()`.
2. `waitset_deadlock`: closing a waitset and one of its conditions at once locks
   the same mutexes in opposite orders.
3. `wait_returns_nothing`: a condition attached while `wait()` blocks unblocks it,
   but does not fit the array that was sized before; the result is empty.
4. `domain_exists`: a failing constructor leaves a moment in which a domain
   exists that the registry does not know; another constructor then throws.
5. `tree_count`: `nrDependents` is changed without a lock; a lost update makes a
   topic impossible to close.
6. `fixed_size`: the size of a type that is self-contained is remembered per
   thread, but a union is self-contained and its branches differ in size.

Other places where the code does what a reader would not expect. The models
follow the code there, and the properties say so or leave the case out:

- **Streams.** After a nested appendable struct with unknown trailing bytes in
  XCDR2, the position is restored and the current alignment is not; after an
  XCDR1 alignment offset is popped, the alignment stays 8, so that an absent
  optional double followed by a double is misread (`cdr_stream.hpp:316-330`); both
  are the ghost `stale`. A reader of an appendable type that has grown refuses a
  sample in which all members of the older type are absent: `first_entity()` looks
  for the first one that is present without asking whether bytes are left
  (`extended_cdr_v2_ser.cpp:171-180`, `extended_cdr_v1_ser.cpp:160-175`). In key mode the completeness check begins at the first
  member; appended members in XCDR1 may be read from padding; `serialize_into`
  counts the 4 bytes of the header in its limit; arrays beyond 64 KB overflow the
  16-bit length of XCDR1; an empty reader type accepts unknown must-understand
  members, and members of named types lose the flag (`streamers.c:787`).
- **Generated code.** Streamers of typedefs may have the same name; bitmasks keep
  identifiers that are keywords; switch types need `<cstdint>` and do not get it;
  an enum member with `@default` is refused after part of the output is written;
  a failure leaves stream buffers allocated. A union's setter assigns the
  discriminator before the value, which may throw, and a read into a union in use
  throws if it has a branch and the stream has none.
- **QoS.** What is edited through the reference of `policy<P>()` is never checked;
  an emptied list is not emptied in C; `pub/PublisherDelegate.cpp:131` leaks a qos
  on one path; `KeepLast(uint32_t)` casts; a time-based filter whose nanoseconds are
  0x7fffffff is compared with the deadline by its seconds alone. Properties and binary
  properties compare equal whatever their `propagate`, which is installed
  (`PolicyDelegate.cpp:1659`, `:1777`).
- **Durations.** `+=` carries only beyond a second, not at it (`Duration.cpp:169`,
  `Time.cpp:142`); `*=` throws after it has stored the seconds.
- **Read path.** `SampleRef::operator=` overwrites the reference it has
  (`SampleRef.hpp:126`); `read_cdr()` of a raw loan copies from null
  (`SamplesHolder.hpp:116`); lists of matched endpoints are sized by an earlier
  count (`sub/AnyDataReaderDelegate.cpp:581-585`); `next_instance` and
  `filter_content` throw.
- **Writing.** `write_cdr` uses `td_`, which `close()` of another thread resets,
  after it tested it, and uses serialized data that may be null: a `CDRBlob` that is
  not a sample, or a `close()` at the wrong time, ends the process; the handle that is passed to a write is ignored.
- **Listeners.** Containers call their listener without a test for null, and
  abort in debug builds when a source has lost its last reference; a participant
  has no callback for an inconsistent topic (`core/EntityDelegate.cpp:309`).
- **Lookup.** A reader of a filtered topic that was closed makes every search for
  readers of its subscriber throw; a discovered topic that was closed stays in the
  set; `contains_entity` that drops the last reference waits for the mutex it
  holds; the constructor of a filtered topic registers itself before it has a weak
  reference.
- **Filters.** Two calls of `filter_function()` at once may leave the current C
  topic with a deleted functor; a second call leaves readers of the earlier one
  with a deleted functor; private C topics are never deleted. `FiltersAreOwn`
  speaks of quiet readers of the current filter.
- **Built-in data.** `participant_key()` returns the key of the endpoint
  (`TBuiltinTopic.hpp:273`); comparison leaves out some members.

## Theorems

The proofs are checked by TLAPS with the SMT back end (Z3), Zenon and LS4. Each
module of proofs extends the modules it is about; constants are arbitrary, subject
to the named assumptions, which TLC evaluates in the runs.

`ReaderProofs`, about what surrounds a reader: its listener, for any threads,
listeners, addresses and any kind of entity,

- `GateIsExact`, `TypeCorrect`. The inductive invariant `GateInv` is `Typed`
  (types without the range of the counter), `CallbacksDoNotEnable` (callback
  threads execute members only to read or to destroy, never `enable()`, so that the
  program counters inside the gate are the ones counted) and `GateExact`. The
  range of the counter follows from `GateExact`, by the cardinality of a subset of
  the callback threads, which is why `Typed` leaves it out.
- `ListenerWaitsForEnable`: the listener of a reader or a writer is not called
  before `enable()`. The invariant (`EnableInv`) says that before `enable()` the C
  layer has nothing installed and no callback is pending (`QuietBefore`), and that
  what a setter will install is decided while it holds the mutex.
- `OldListenersAreQuiet` and `Implements` (`Spec => KeepsContract`), for readers,
  writers and topics that are created enabled (the hypothesis `WaitsForEnable`),
  `enable()` called by any thread at any time. The invariant `QuietInv` is `GateInv`
  and `QuietBefore` with: the object mutex is held by exactly the thread that is in
  a member that takes it (`MutexOwned`); setters work before the entity is closed,
  only a closed entity is destroyed, and a closed one has no argument installed and
  no callback pending (`ClosedIsQuiet`); a callback that runs a listener is inside
  the gate and is not the thread that destroys the entity (`RunningIsPending`); and
  `OldListenerQuiet` itself, on which the step `Settle` of the contract rests. The
  hypothesis is needed: a topic that is created disabled calls back although its
  setters do not wait for callbacks.
- `MemoryIsSafe` and `InstalledStaysLive`, where moreover `enable()` is never called
  or there is one application thread (`EnablesAlone`). The invariant `SafeInv` is
  `QuietInv` with: who executes a member has a reference, unless it is the thread
  that destroys the entity (`MembersRefer`), so that while the caller is inside
  `enable()` no callback can be closing, and what it loaded is still stored when it
  installs it (`EnableIsAlone`); the stored, the new and the installed argument are
  allocated, as are those of pending callbacks, and neither the C layer nor a
  pending callback has the old one any more when the setter deletes it
  (`ArgsAlive`). The hypothesis is needed: `enable()` takes no mutex, and a setter
  of another thread may delete the argument between its load and its use.

the filters of filtered topics, for any threads, views and readers,

- `FilterTypeCorrect`, `FiltersStayOwn`, from `FilterInv`: C topics and functors
  are numbered as they are made; a functor belongs to the C topic it was made for
  and to the view that made it; a call that is between its two assignments is the
  only one that may disagree.

and the states that samples and entities are selected by, for any number of samples:

- `StatesStayAgreed`: `MaskSelects` compares the mask of `get_ddsc_state_mask()`
  with what `SampleInfo` shows, state by state; `SampleInv` relates the read flag
  of C to the reads that were made; `MaskInv` relates the statuses enabled in C to
  the bits that were asked for.
- `ReaderTypeCorrect` (`ReaderTypeOK`) puts the type theorems of the parts together
  for the composition that run `reader_close` checks: a step of the composition is
  a step of one part and leaves the others alone, so that it implements each part's
  specification.

`EntitiesProofs`, about domains (any participants and any domains),

- `TypeCorrect`, `AssertHolds` (`ClosingFindsDomain`), `NothingIsLeftBehind`,
  `Implements` (`KeepsContract`). The inductive invariant `Inv` is `TypeOK` with:
  the lock is held exactly while a constructor creates and registers (`LockInv`);
  what `domain_ref_` may be at each place, and that an open or closing
  participant has the reference the registry has (`RefInv`); the registry has no
  entry for a domain that a constructor holding the lock has created
  (`CreatingInv`); an entry was made by a participant of that domain and some
  participant still refers to it (`RegistryInv`); an explicit domain has its wrap in
  the registry or in a constructor (`ExplicitInv`); an implicit one has a C
  participant, and C participants are those of open participants (`AliveInv`).
  The assertion of `close()` is a part of `RefInv`, but inductive only with the
  rest: `Release` of another participant must not take the entry out.
- `OpenStaysInItsDomain`, `ConfigurationIsAccepted`, with the two further conjuncts
  `WrapInv` and `ExistsInv`, which hold as long as no constructor failed after it
  created its domain (`Clean`); the condition is part of the properties, and run
  `domain_exists` shows that it is needed. `DomainsAlwaysAgree` puts the three
  invariants together as the run checks them.
- `SourceStaysFound`, `DeliveryTypeCorrect` of `StatusDelivery` (any callback
  threads, listeners, masks and numbers of changes; the three chains of entities):
  a callback that runs finds the entity it is about and the listener it is for,
  but for the four cases that `SourceIsFound` names. The inductive invariant
  `DeliveryInv`: a callback is of a status that the source raises, at a level that
  has it (`CallbacksAreMeant`); a container whose callback is called has a
  listener or the setter that took it away is still waiting, because a container
  that is not enabled has no callbacks in C and an installed mask without a
  listener is empty (`ContainersAreHooked`); and while the source is not in the
  map yet, C asks a container about nothing but `data_on_readers`, since the no-op
  callbacks of the source come first (`PhasesAreKept`).

and about qos objects, policy objects, durations and times:

- `QosTypeCorrect`, `HeldStaysInForce` (`HeldIsInForce`), `QosIsPassedOn`
  (`NothingIsDropped`), for every kind of entity and any number of edits. The
  lemma `PoliciesFaithful` goes through the table policy by policy: what
  `set_c_policy()` writes `set_iso_policy()` reads back (`Faithful`), and a new
  object has a value that `check()` accepts (`StartsWell`). Two qos that compare
  equal give C the same policies, but for the `propagate` of properties of both
  kinds, which `operator==` does not compare (`EqualInstallsEqual`). `QosInv` says that
  the application's object has values of the table, refused ones only where it
  was edited by reference (`QosObject`, `Honest`), and that the qos an entity
  holds also passed the checks between policies and is what C has (`Sound`).
  They rest on `ProperDurations`: durations given to policies have less than a
  second of nanoseconds or are infinite. The constructor also accepts the
  nanoseconds 0x7fffffff with any seconds (`Duration.cpp:70`), and `check()`
  compares seconds first, so that a filter of 5 s and 0x7fffffff ns passes for
  shorter than a deadline of 6 s, and C gets a longer one.
- `ObjectsStayAgreed` (`PolicyObjectsAgree`), `ObjectsTypeCorrect`. `ObjectsInv`: a policy object that
  no setter touched has a value of its class that is not refused, the two maps
  of a property policy name the same properties, and what no call touched since
  its construction is the default of its class; the default of each class is
  computed once (`DefaultsAgree`).
- `DurationsStayExact` (`DurationsAreExact`), `DurationTypeCorrect`, for any units
  and any arguments. One lemma for each operator says what it leaves in whole
  nanoseconds (`PlusExact`, `MinusExact`, `TimesExact`, `OverExact`, and those of
  the time), over lemmas on quotients by a unit (`QuotientAndRest`, `InUnits`,
  `CarryKeepsTotal`); `DurationInv` is then inductive. `ArgumentsInRange` excludes
  seconds beyond 32 bits, which the setter casts (`Duration.cpp:62`), and times
  that C cannot count in 64 bits of nanoseconds. `OrderIsKept`, `ComesBack` and
  `NeverIsInvalid` are the conversion to C.
- `EntitiesTypeCorrect` (`EntitiesTypeOK`), under `ProperDurations`, puts the type
  theorems of these parts together for the composition of run `entities`. That a
  policy object keeps to its class rests on the classes being closed under the
  setters (`ProperClasses`) and on the maps of properties having values for the
  same names (`ProperMaps`, `MapsStay`).

`WaitSetProofs` (any threads, waitsets and conditions of any kind):

- `WaitSetTypeCorrect`, `AttachmentsStayAgreed`, `OnlyClosingDeadlocks`. The
  inductive invariant `WInv` says, for each stage of a call, which mutexes the
  thread has and what its locals may be; that the map of a waitset is what its C
  waitset observes outside the two stages between them; that what is attached is
  in the condition's list unless that list is locked; and that a closed or
  destroyed object is in no record, or its closer is still removing it. The
  absence of circles follows from the order in which every call but `close()` of a
  condition takes the three kinds of mutex.

`EntityTreeProofs` (any tree of entities, any threads):

- `TreeTypeCorrect`, `NoThreadsWaitInACircle`. The inductive invariant `TreeInv`
  orders the stack of a thread: frames go down the tree from a container to what
  it contains (`Contains`), so that a rank (participant, container, endpoint,
  query; topics beside them) falls from frame to frame; and the thread that has
  the mutex of an entity is inside a function of that entity, in a stage after it
  was taken (`Owners`). A thread that waits for a mutex waits for one of lower
  rank than those it has, hence no circle. The unwinding of an exception pops
  frames and releases what they held, which keeps both.
- `UsedOutlivesAlone` and `WhatIsUsedOutlives` (`UsedOutlives`): nothing closes
  before what is in it or what uses it. The inductive invariant `UsedInv` follows
  every function on every stack:
  - `ShapeOK`: what is left of `close()` is a suffix of the list of its kind, or
    such a suffix with a loop in front (`Shaped`), so that a stage still to come
    says what has not been done yet.
  - `KidsOK`: while a container closes, each entity that was made in it is past its
    own `close()`, or belongs to a set that has yet to be copied, or to the rest of
    the loop, or is above it on the stack. With `Fresh` (what nobody is closing is
    in its container's set) no copy of a set can miss an entity.
  - `CountersOK`, `CountOK`: `nrDependents`, as stored and as a thread has read it,
    is at least the number of those that hold the topic. The unlocked counter may
    lose decrements: then the topic refuses to close, as `tree_count` shows. It
    loses no increment as long as the thread that creates is the only one to change
    that counter at that moment.

  The last condition is `CreatesAlone`, and `UsedOutlivesAlone` states it as a
  condition on behaviours. `WhatIsUsedOutlives` has one on the calls instead:
  `CreatorsOwn`, a thread creates an endpoint only of a parent and a topic that no
  other thread closes, drops or creates, nor whatever contains them, nor another
  dependent of that topic; `ReachInv` says that the functions a thread is in are
  of entities its calls lead to, hence `CreatesAlone`. Without it the same gap in
  `Topic::close` that `NoLateWriters` is about (below) closes a topic beside the
  constructor of what will use it. Both assume `NoQueryCloses`:
  the application drops read conditions or leaves them to the reader, and does not
  call their `close()`. The calls of the run satisfy both.

`LookupStacks` and `LookupProofs` (any entities, any threads, any calls):

- `LookupInvariant`, `LookupTypeCorrect`, `FoundIsThere` and `AnswersExact`
  (`LookupsAreExact`). That an answer is right when it is given says nothing of
  how a lookup came by it, so the inductive invariant `LookupInv` follows a lookup
  from the copy of the set to its return:
  - `CallStacks`: a reference that a lookup drops may be the last one, whose
    destructor then runs on the stack above the lookup and closes, which drops
    further references. Above a lookup there are only destructors and what they
    call; a function below them waits in the stage `release`, at which it gives up
    what it has in `loose`.
  - `References`: a lookup has one reference to each entity that it looks at, has
    found or is about to release; holders are referred to by what they hold; a
    destroyed entity has no references, so that what was found cannot be gone.
  - `Closings`: an entity is out of its set before it is closed, an endpoint out
    of the count of its topic before *it* is, and who closes at all is known to
    every lookup under way. `find_datareaders` and `find_datawriter` ask an
    endpoint for the name of its topic, which throws only if the endpoint or the
    topic is closed, and a topic closes only when nothing counts on it.
  - `SetsLocked`: a mutex of a set has one owner, and `contains_entity`, which
    takes no references, looks only at entities that are listed in a set whose
    mutex it has.
  - `Knowledge`: what was found matches; and what matches and nobody disturbed
    since the set was copied is still to be looked at, in the lookup's hands, or
    found. A lookup that unwinds has met something that was closed.

  Each of the twenty or so stages keeps all six; `LookupStacks` says once what a step on
  the top frame, a call and a return keep (`LookupKeeps`, `CloseKeeps`,
  `KnowledgeKept`) and has the lemmas for the first stages of a function and the
  visits to entities; `LookupProofs` has those for the others.
- `AnswersExact` has the hypothesis `NoLateWriters`: no writer is created beside
  the lookups. `FoundIsThere`, that nothing wrong is returned and nothing missed,
  holds without it. It is needed for why a lookup throws: `Topic::close` may have
  found no dependent and still have to finish when the constructor of a writer
  counts itself in (`TTopicImpl.hpp:229`, `DataWriterImpl.hpp:392`); then
  `find_datawriter` asks that writer for the name of a closed topic and throws,
  though neither the publisher nor a writer was closed.
- `FindingTypeCorrect` (`FindingTypeOK`), for the lookups and the tree of
  `EntityTree` in the composition that run `tree_close` checks.

`WritePathProofs` (any threads, any calls; any endpoints):

- `WritesAreWhatIsAsked`, `WriteTypeCorrect`. The inductive invariant `WriteInv`
  is: a call has published a prefix of what it was asked, its stage says how much
  and that the handle was open when it was read (`Progress`); `close()` is
  executed by one thread at a time, which has the mutex, and once it has deleted
  the C writer no thread is in a C call that could publish (`Closing`). That a call
  crashes for one of two reasons needs that `td_` is null only while a thread closes
  or once it has (`Reasons`).
- `BuiltinDataStayTrue`, the invariant `BuiltinDataAgree`: data of a matched
  endpoint tell what the endpoint has, compare equal exactly if what they tell
  does, and free the endpoint once. Which classes keep an endpoint, and that they
  copy all of it but the durability service, is read off the nine classes
  (`CopiedMembers`); the invariant `DataInv` says that an object that was filled
  still has what was copied (`FilledByCopy`), and that in a careful application
  the endpoints that C allocated are those of the objects, each of one
  (`EachOwnsItsEndpoint`).

`ValuesProofs`:

- `UnionsStayAgreed`, `UnionTypeCorrect`, for every union type that IDL allows
  (`UnionAssumption`: no label twice, no `default:` where every discriminator is
  named). The lemmas are about the switches that idlc generates: which case a
  discriminator names (`CaseOfDiscriminator`), that the label which stands for a
  case names it (`LabelNamesCase`), and that `_is_compatible_discriminator()`
  accepts exactly the discriminators of one case (`CompatibleNamesCase`).
  `UnionInv` then says that an object which no exception has interrupted holds
  the branch its discriminator names. `SmallestElement`, the least element of a
  set of naturals, is derived from the well-foundedness of the strict subset
  order, which the provers can use where they cannot use induction.
- `OwnershipStaysExact` (`OwnershipIsExact`), `DataStaysThere` (`DataIsThere`) and
  `DataStaysStable` (`DataIsStable`), for any number of serdatas, threads and
  instances and any history depth. The inductive invariant `ReadInv` is: a serdata
  that was delivered is at one place, and one read at a time passes samples on
  (`InOnePlace`); an object belongs to one serdata, and who makes one in `getT()`
  has not published it while the C library keeps the serdata (`ObjectsOwned`);
  what the application has, or a read or the cache will give it, has an object
  (`ObjectsThere`); what has never been seen is nobody's (`NewIsFree`); and
  `OwnershipIsExact`. `Claims` counts over sequences and threads, so the proof
  rests on what each change does to a count: `OccursAppend`, `SdOfAppend` and
  `SdOfRemove` for the cache, `HoldsCounted` and `HeldChange` for the samples of
  one thread among those of all, `ClaimsChange` for the whole. `RefStep` and
  `RefKeeps` are then proved once for every step that goes through `Ref`, and
  each action has only to count what it moves. The references that
  `SampleRef::operator=` loses are counted too (`leaked`): the theorem says that
  nothing else is lost.

**Assumptions.** Null values are not members of the sets they extend; the sets of
callback threads and of entities in the tree are finite (`FiniteAssumption`,
`TreeAssumption`); the tree is one: parents, topics and queries are of the kinds
the constructors take (`TreeAssumption`), and a topic has fewer dependents than
the counter can count (`MaxAssumption`); calls are well formed and create
only endpoints in containers that exist from the start (`CallsAssumption`,
`WriteAssumption`); entities are in holders and about topics of the sorts that their
constructors take, exist after both, and are asked only for what exists in the
interface (`LookupAssumption`); null and unwritten pointers are not addresses of endpoints
(`DataAssumption`); the chains and statuses are those of the standard
(`LinesAssumption`, `StatusesAssumption`); threads are told apart from the loan
(`ReadPathAssumption`); `FilterAssumption`, `UnionAssumption`, `SampleAssumption`,
`StatusMaskAssumption`, `UnitsAssumption`, `DurationsAssumption` and
`ArgumentsAssumption` as said in their modules. `ProperDurations`,
`ArgumentsInRange`, `NoLateWriters`, `WaitsForEnable`, `EnablesAlone`,
`NoQueryCloses` and `CreatorsOwn` are hypotheses of their theorems; the runs satisfy
the first four (`reader_close`, `unregister_blocks` and `writer` the fourth),
`unregister_blocks` and `writer`, with their one application thread, the fifth, and
`tree_close` and `tree_count` the last two.

**Only model-checked.**
- Liveness: `CloseReturns`, `CallsReturn`, `ClosesAndLookupsEnd`, `CallsEnd`. The
  provers handle neither `ENABLED` nor the leads-to arguments these need.
- `SizesAgree`, `ArrivesAsSent`, `GeneratedCodeAgrees`: the modules walk over
  recursive types with `RECURSIVE` operators, and what a recursive definition
  computes needs an induction over data.
- `BalancedWhenQuiet`: it holds for the calls the run allows and not for all (see
  `tree_count`). That nothing is lost when nothing runs needs equality of the
  counter and the dependents, where `UsedInv` has bounds.
- `ToldOnce`, the first half of `ChangesAreTold`: it counts the changes in flight
  with a sum over the callback threads, and what the fold of a sum computes needs
  an induction over the set. `SourceIsFound`, the other half, is proved.
- `ValuesTypeOK` and `WriterTypeOK`: they speak of parts with `RECURSIVE` operators,
  which no module with a theorem can reach. Of their conjuncts, those of unions,
  durations and writing are proved on their own (`UnionTypeCorrect`,
  `DurationTypeCorrect`, `WriteTypeCorrect`); the bound on the length of the reader
  cache sums over the instances, which is an induction on a set.

## What is assumed of code that is not here

The C library: as said with each module, and that a C call does all or nothing.
The IDL parser: it refuses types that contain themselves by value except through
optional members, labels that occur twice and a default case that no
discriminator is left for; where all discriminators are named, the default one is
the label of the first case. Further: `get_type_props()` loads its `initialized`
flag relaxed, and the model takes the accesses in order; the C layer refuses to
enable a status that the entity does not have.

## Not modelled

The components marked `not_modelled` in `PROJECT.json`, with the reason there: the
X-Types and coherent-access interfaces throw or do nothing, exceptions and reports
format text, examples, tests and build have no behaviour of the library. Within
the modelled parts: the functor of a condition; the destruction of a waitset;
`enable()` of containers with their children; the built-in subscriber, which
nothing creates (`dds::sub::builtin_subscriber` throws), and `ignore()`, which
throws; templates that are never instantiated (`TShare`, `TProductData`,
`TSubscriptionKey`, `TReaderLifespan`, `TScheduling`); the evaluation of filter
expressions, which the code never does; mutable unions and maps in streams; byte
swapping; the text, options and directory layout of the IDL compiler.

## Plan

Everything that the survey listed is written and runs, and what the provers can
reach is proved, with `BalancedWhenQuiet` of `EntityTree` as the one exception (see
above). What remains is outside the runs rather than inside them: the three cases
that the hazards of `PROJECT.json` list without a property because the code breaks
there, each of which could have a run that shows it.
