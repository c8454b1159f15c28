# Verification of rmw_dps_cpp

`rmw_dps_cpp` is the ROS 2 middleware interface (rmw) on top of DPS for IoT, a
publish/subscribe library. This directory holds TLA+ specifications of the parts of it
where threads meet, the TLC configurations that check them on small instances, and proofs
of their safety properties, checked by TLAPS, for every instance. Paths below are relative
to `src/rmw_dps_cpp/`.

## 1. The system

Three kinds of thread run this code. *Application threads* call the `rmw_*` functions. The
*DPS loop thread* of each node calls back: `Listener::onPublication` and
`Listener::onAcknowledgement` for messages, `NodeListener::onDiscovery` for announcements,
and completion callbacks. *Executors* are application threads that sit in `rmw_wait`.

| Component | Code | State | Operations |
|---|---|---|---|
| Waiting | `src/rmw_wait.cpp`, `Listener.hpp`, `types/guard_condition.hpp`, `rmw_wait_set.cpp`, take functions | per listener: queue, mutex, pointer to a wait set's mutex and condition variable; per guard condition: flag, mutex, pointers; per wait set: mutex, condition variable | `rmw_wait`, `trigger`, `onPublication`, `onAcknowledgement`, `takeNextData`, create/destroy wait set |
| Graph discovery | `custom_node_info.hpp`, `rmw_node.cpp`, parts of `rmw_publisher.cpp`, `rmw_subscription.cpp`, `rmw_service.cpp`, `rmw_client.cpp` | payload, discovered nodes, endpoint maps, each endpoint's set of matches and atomic count, graph guard condition; four mutexes | add/remove a topic, `onDiscovery`, register/unregister an endpoint, queries |
| Entities' lifecycle | `rmw_node.cpp`, `rmw_publisher.cpp`, `rmw_subscription.cpp`, `rmw_service.cpp`, `rmw_client.cpp` | DPS objects, listeners, type supports, and who frees them | create, destroy, error paths |
| Requests and responses | `rmw_request.cpp`, `rmw_response.cpp`, `custom_service_info.hpp` | DPS sequence numbers, `requests_`, the two listeners | send/take request, send/take response |
| Publishing and taking | `rmw_publish.cpp`, `publish_common.cpp`, `rmw_take.cpp` | a stream and an event per call; the buffer lent to DPS | publish, publish serialized, `_published`, take, take serialized |
| Graph queries | `rmw_count.cpp`, `rmw_node_names.cpp`, `rmw_node_info_and_types.cpp`, `rmw_service_server_is_available.cpp`, `demangle.cpp`, `names_common.cpp` | none; they read the discovered nodes | count, list, is available |
| Type supports | `type_support_common.cpp` | none: the registry is a stub that finds nothing | create, register, unregister, delete |
| Serialisation | `CborStream.hpp`, `TypeSupport.hpp`, `TypeSupport_impl.hpp`, `ros_message_serialization.cpp`, `rmw_serialize.cpp` | a stream's buffer, capacity and status; the caller's `rmw_serialized_message_t` | write and read one value, a sequence, a message; `rmw_serialize`, `rmw_deserialize` |
| Init, identifiers, gids, qos | `rmw_init.cpp`, ... | none that changes | checks and copies |

How they interact: listeners and guard conditions are written by the DPS loop thread and
read by executors, through a pointer each holds to the wait set of the `rmw_wait` in
progress. Creating an endpoint changes the discovery payload; DPS announces it; every
node, the sender included, gets it in `onDiscovery`, which updates its map of nodes and
the matches its own endpoints cache, and triggers the node's graph guard condition, which
again wakes an `rmw_wait`. A publish writes the message to a stream, lends the stream's
memory to DPS and waits for DPS to call back; the listener of a subscription queues a copy
of what DPS received, which a take deserialises.

What is hard: two mutexes taken in one order by callbacks while `rmw_wait` needs them in
the other; a wakeup lost between a check and a block; a wait set destroyed under a
callback that is about to notify it; readiness decided under a lock and read again
without; a graph change that comes while the graph is read; announcements lost or
repeated; a publish that fails after the payload was changed; a snapshot of
matches that starts after the changes it should have counted; a buffer that DPS reads
while its owner goes on; a message that does not fit the stream it is written to; a take
that fails when the message has already left the queue.

What makes each component correct:

* Waiting: no wakeup is lost; no deadlock between callbacks and `rmw_wait`; no callback
  uses a wait set that is gone; a call's verdict was true at one instant while it ran.
* Discovery: a watcher of the graph never misses a change; an endpoint's matches are a
  subset of what was discovered (they fail to be all of it, see 4); the payload
  announces every endpoint that exists; a node discovers its own endpoints.
* Requests: a response reaches the client with the number of the request it answers; a
  request is answered at most once.
* Lifecycle: nothing a callback uses is freed before the callback can no longer run; an
  error path releases what was acquired and nothing else.
* Queries: what they return is true of the graph at one instant, however it changes while
  they copy, and whatever allocation fails.
* Messages: a buffer does not change while DPS may read it; what is on its way, queued,
  taken or stored is the whole encoding of one message; a publication is claimed at most
  once and in the order of arrival; every call returns. Their encoding: who has the same
  type reads what was written, in C and in C++.

## 2. Modules

| Module | What it is |
|---|---|
| `WaitSelect` | What `rmw_wait` promises: it decides at one instant, then reads each entity once. No mutexes, no loops |
| `WaitSet` | `rmw_wait`, listeners, guard conditions and wait sets, by critical section; a refinement mapping to `WaitSelect` |
| `MCWaitSet` | Instances for TLC: threads, entities and wait lists |
| `WaitSetProofs` | Proofs about `WaitSet` |
| `Discovery` | One node's payload, endpoint maps, matches, `onDiscovery` and a watcher of the graph |
| `MCDiscovery` | Instances for TLC |
| `DiscoveryProofs` | Proofs about `Discovery` |
| `ServiceCalls` | What services promise their clients: each call is answered at most once by each server, to its client |
| `RequestReply` | Clients, services, requests, acknowledgements and `requests_`; a refinement mapping to `ServiceCalls` |
| `MCRequestReply` | Instances for TLC |
| `RequestReplyProofs` | Proofs about `RequestReply` |
| `Lifecycle` | Creation and destruction of a node and its endpoints, step by step, with every error path, beside the loop thread; who frees which object |
| `MCLifecycle` | An instance for TLC |
| `LifecycleProofs` | Proofs about `Lifecycle` |
| `GraphView` | What the queries promise: the answer of one instant, or none. No strings, arrays or allocations |
| `GraphQueries` | Announcements as strings, `onDiscovery`'s parsing of them, the queries, and their copying out; a refinement mapping to `GraphView` |
| `MCGraphQueries` | Instances for TLC |
| `GraphQueriesProofs` | Proofs about `GraphQueries` |
| `Codec` | How a message becomes CBOR items and comes back, by type and language; what both should do together, without items |
| `Delivery` | What a topic promises: a publication is one message, sent, lost or claimed once. No streams, buffers or encodings |
| `Messages` | Publishing, serialising, taking and deserialising, with DPS reading the publishers' buffers; a refinement mapping to `Delivery` |
| `RosMessages` | `Messages` with the encoding of `Codec`; `RoundTrip` |
| `MCMessages` | Instances of `RosMessages` for TLC: message types, messages and who publishes what |
| `MessagesProofs` | Proofs about `Messages`, for any encoding |
| `CodecProofs` | Proofs about `Codec`, for any message types |
| `RosMessagesProofs` | The proof of `RoundTrip`, from those two |

Definitions preceded by a comment "Mutant:" are faulty variants of the definition below
them. No specification uses them; replacing the definition by its variant must break the
property it is paired with in `PROJECT.json`, which shows that the property can fail.

### WaitSet

`ready[e]` is a listener's queue length or a guard condition's flag, `cond[e]` the pointer
to a wait set, `internalMutex`/`conditionMutex` the owners of the mutexes. `pc[w]`, `list`,
`idx`, `deadline`, `result`, `reported` are `rmw_wait`'s locals, `spc[s]`, `target` those
of a callback or `trigger`.

| Code | Actions |
|---|---|
| attach loops, `rmw_wait.cpp:113-143` | `Attach` |
| lock and check, `:149-155`, `:26-75` | `LockForCheck`, `CheckNext`, `CheckTrue` |
| `wait`, `wait_for`, no time, `:157-169` | `Block`, `WakeSpuriously`, `Expire`, `Reacquire`, `GiveUp` |
| unlock, `:176` | `Unlock` |
| detach loops and the second reading, `:178-220` | `Detach`, `Read` |
| `onPublication`, `onAcknowledgement`, `trigger` | `Signal`, `StoreDetached` or `LockCondition`, `StoreAttached`, `Notify` |
| `takeNextData` | `TakeNextData` (by the caller, after the wait), `Poll` (by another thread) |

A critical section that takes one mutex and cannot block inside is one step. `hasData` and
`getHasTriggered` in the detach loops are steps of their own (`Read`), because they are not
under a mutex. The wait predicate, which `wait` and `wait_for` evaluate again before they
block, adds nothing to the check that precedes it under the same mutex. Time is a
three-valued deadline: never, pending, past; a timeout of zero starts past.

Assumed of the callers, and stated as guards or assumptions: an entity is in at most one
call at a time, and once in a list; a wait set is used by one thread, which does not
destroy it during a call. These are the conditions under which rcl calls this interface.

### Discovery

An announcement is how many payload entries of each kind there are for each topic: that is
all that the comparison of announcements, `topic_difference` and the queries tell apart,
for one name and type per endpoint. Order in the payload, node names and type lists are
left out. `onDiscovery` is four steps, one per critical section: `UpdateNodes`,
`UpdatePublishers`, `UpdateSubscribers`, `NotifyGraph`. Creation is `AddTopic` (the payload
changed and published under `discovery_mutex_`), then `Register`; `AddTopicFails` is the
publish that DPS refuses. Destruction is `Unregister`, then `RemoveTopic`. The network
(`RemoteAnnounce`, `Lose`, the queue `inbox`) is external: other nodes announce anything
in `RemoteInfos`, again or not, and leave. The watcher of the graph (`GraphChanged`,
`ReadGraph`) stands for a thread that waits for the graph guard condition and then calls
the queries. `unseen` is a history variable: whether nodes or matches changed since the
watcher last read them.

### RequestReply

A client is a DPS publication; `sequence[c]` is its sequence number. `sending[c]` is the
request of a `rmw_send_request` that has published and not yet read the number, `issued[c]`
the ids such calls returned. `backlog[s]` and `responses[c]` are the queues of the
listeners of a service and of a client, `requests[s]` is `requests_`, `answers[c]` what
`rmw_take_response` has returned. `requested` and `acks` are the messages under way.

| Code | Actions |
|---|---|
| `rmw_send_request`, `publish` | `PublishRequest`, then `ReadSequence`; or `PublishFails` |
| `onPublication` of a service's listener | `OnPublication`, which may leave the message to be delivered again |
| `rmw_take_request` | `TakeRequest` (`emplace` keeps an entry that is there) |
| `rmw_send_response` | `SendResponse`, both outcomes; the entry goes in both |
| `onAcknowledgement` of a client's listener | `OnAcknowledgement` |
| `rmw_take_response` | `TakeResponse` |
| `rmw_destroy_service`, `rmw_destroy_client` | `DestroyService`, `DestroyClient` |

Each call is one step but `rmw_send_request`: between its publish and its reading of the
number the whole exchange may happen. The locks inside the listeners are `WaitSet`'s
subject. Of DPS, which is external, the model takes that it numbers the publications of a
client from 1, that the copy of a publication keeps its writer and number, and that an
acknowledgement goes to the writer and carries the number of what it acknowledges. It may
lose messages and deliver requests again, in any order, and a publish that it reports as
failed may have reached some of the services (`PublishFails`): such a request is served, and
its answer comes to a client whose call returned no id for it. The code leaves two
threads that send on one client, or serve one service, to exclude each other; the model
gives each one thread. What a response says is the request the server's application had
in hand when it answered (`to`), which is what the header stands for.

### Lifecycle

Each `rmw_create_*`, its code under the label `fail`, and each `rmw_destroy_*` is a
program: a sequence of steps, one definition per function (`CreatePublisher`,
`FailPublisher`, `DestroyPublisher`, ...), in the order of the code. `stage[e]` says which
program of `e` runs, `at[e]` where it is, `done[e]` what the creation has obtained or
handed over, `freed[e][o]` how often object `o` was freed. An object is the custom info, the
type supports, the DPS object, the listener, the rmw handle; of a node also the discovery
service and the graph guard condition. `doomed` are the DPS objects whose destruction was
asked for, `loop` is what the loop thread is calling.

| Code | Actions |
|---|---|
| `rmw_create_*`, `create_node` | `Create`, `Obtain` per step, `Return`; `Fail` is `goto fail` at each step that has it |
| code under `fail`, `rmw_destroy_*`, `destroy_node` | `Release`, then `DeleteObject`, `DestroyObject`, `AwaitObject`, `LeaveMap`, `Return` |
| `destroy_node` without an event | `Leak` |
| `onPublication`, `onAcknowledgement` | `CallListener`, `EndListener` |
| `NodeListener::onDiscovery` | `OnDiscovery`, `Continue` (nodes, publishers, subscriptions, guard condition) |
| the callbacks of `DPS_Destroy*` | `Destroyed`, which deletes the listener the object was given |

A step that fails leaves its object unobtained, and the release skips what was never
obtained. One exception: when a node fails to announce itself, DPS may have kept the handler
that `DPS_DiscoveryPublish()` was given (`FailedStep`), so that `onDiscovery` runs beside the
release of a half-built node, or for a leaked one. The handle and its name and namespace are
one object and one step, and the graph guard condition never fails: the check at
`rmw_node.cpp:216` fires only for a context that `rmw_create_node` has refused before.
Assumed of callers: what they destroy was created, once, and the node last.
Assumed of DPS: it does not refuse to destroy, runs its callbacks on one loop thread, and
finishes a node after the endpoints it was asked to destroy before. Left out: rejected
arguments, which change nothing; and a node handle whose `data` is read before it is set
(`rmw_node.cpp:112`), which depends on `rmw_node_allocate`.

### GraphQueries

A string of the payload is a record of the parts the code concatenates and finds again:
prefix, text, types. `payload[p]` is `discovery_payload_` of a node; `discovered[p]` the
`Node` this node has of it, or `None`. A query takes its data under the listener's mutex
(`ReadGraph`), then copies it by one allocation after another (`CopyTopic`, `CopyType`,
`CopyNode`), any of which may fail (`OutOfMemory`), while endpoints and announcements come
and go (`Create`, `Destroy`, `OnDiscovery`, `OnLeave`). Counts have no copying and are
functions (`CountOf`, `ServerIsAvailable`). `seen[p]` and `then` are history variables:
which endpoints a node had when it announced what is known of it, now and when the query
read. The properties compare what the caller gets with these, never with the strings.

A `Node`'s vectors are sets of entries, each with its place in the payload: no query shows
their order, and two equal endpoints are two entries. The mapping to `GraphView` takes
`seen` for the graph, the read under the mutex for the whole question, and for the answer
what is in the caller's arrays together with what is still to be copied, line by line with
how often it appears (`Answer`); copying is a step it does not see.

Types are those of `_create_type_name` and of services; strings of other software, which
the demangling passes through or rejects, are left out. So is the string that a refused
announcement leaves in the payload (`rmw_node.cpp:64`), which would be counted: `Create` is a
creation whose announcement is accepted, and `Discovery` has the other (`AddTopicFails`). The
order of `std::map` and
`std::set` is left open, but a query by node finds the node with the smaller UUID.

### Codec and Messages

`Codec` has no state. A type support is a language (`c` or `cpp`) and a list of members; a
member has a kind, an array kind (none, fixed, bounded, unbounded), a size, a bound for
strings, and members of its own when it is a message. `ScalarItems` and `SequenceItems` are
`operator<<` and `encodeSequence`; `MemberItems`, `MessageItems` and `CborOf` are
`serialize_field` and the two `serializeROSmessage`; `Accepted` the checks that throw. `ReadItem`,
`ReadScalar`, `ReadSequence`, `ReadMember`, `ReadMessage` and `MessageOf` are their
counterparts. An item is what it holds and how long it is: sizes depend on the number as
the macros `CBOR_SIZEOF_*` of DPS do, up to three bytes of head. `Understood`, made of `Carried`, is
the reference: the value that was sent, with strings cut at the first null character if C was
on the way, and booleans 0 or 1.

The code calls itself for a message in a message. `Codec` calls constants there
(`NestedItems`, `NestedReading`, `NestedAccepted`, `NestedCarried`), so that proofs can be
about it; `MCMessages` gives them the operators that they stand for, which ties the
recursion for TLC, and `NestingAssumption` says to the prover that they are equal.
`TypesAssumption` says that types are finite (`Depth`), `ValuesAssumption` that a message
has a value of the right kind for each member. TLC evaluates all three. `RosMessages` puts
`Codec` into `Messages` (`SupportsAssumption`): `CborOf` and `MessageOf` are what the public
`serializeROSmessage()` and `deserializeROSmessage()` do.

`Messages` leaves the encoding open (`Encode`, `Decode`, `Sums`) and models who writes,
reads and owns which bytes. `stream[t]` is the `TxStream` of a call, `wire[t]` the items it
will write and `pos[t]` how many it has; `serialized[t]` is the caller's
`rmw_serialized_message_t`, with the memory it has (`allocated`) beside the capacity that is
recorded; `lent[t]` is the buffer that DPS may read, `read[t]` whether it has; `network` and
`queue` are the payloads on their way and in the listener; `hand[t]` is what `takeNextData`
moved out of it, `got[t]` what the caller's message was last filled with. `published` is a
history variable, and each payload carries the message it was made from (`of`), so that
properties can compare.

| Code | Actions |
|---|---|
| `rmw_publish`, `rmw_serialize`: first stream | `Begin`, which may throw |
| `TxStream::operator<<` | `WriteItem` |
| `TxStream(ser.size_needed())`, a second pass | `Enlarge`, or `OutOfMemory` |
| `rmw_serialize`: copy out, resizing | `Serialize`, or `SerializeFails` |
| `publish()` | `Publish`, or `PublishFails` |
| `rmw_publish_serialized_message` | `PublishSerialized` |
| `_published()` and the return of `publish()` | `Completed`, whether DPS sent anything or not |
| `onPublication` | `OnPublication` |
| `rmw_take`, `rmw_take_with_info` | `TakeNextData`, then `Deserialize`, which fills in or fails |
| `rmw_take_serialized_message` | `TakeNextData`, then `Copy` or `CopyFails` |
| `rmw_deserialize` | `ReadSerialized` |

`Transmit` (DPS reads the buffer, at any time until it calls back) and `Lose` are external,
as are the size of an item, `rmw_serialized_message_resize` and an allocation that fails.
DPS delivers a publication to the listener once here, where `RequestReply` lets it repeat
a request: the listener takes what comes without comparing numbers, so that the "at most
once" of `Delivery` rests on DPS for that. Each thread has one publisher and one
serialized message; the takers share a subscription, and `rmw_deserialize` is called with
its type. A reading is one step, since the bytes are the taker's own by then. The mapping
to `Delivery` takes a publication as sent from the moment its buffer is lent
(`OnTheWay`), a queued payload as arrived, one that was popped as held, and what is in a
serialized message as kept; writing, overflowing and failing before publication are steps
it does not see.

## 3. Runs

| Run | Instance | Checks |
|---|---|---|
| `wait_shared` | 2 executors, lists `<sub, guard>`, `<guard>` and `<sub>`; loop and application threads, 2 signals each | the inductive `Inv`, `NoLostWakeup`, `NoDanglingCondition`, `NoStaleAttachment`, `OkMeansReady`, and the safety half of the refinement |
| `wait_live` | 1 executor with `<sub, srv, guard>`, `<guard>` and the empty list; `srv` is taken from by others | `ReadyEndsWait`, `TimedCallReturns`, `SignalCompletes`, `ImplementsSelect` |
| `wait_late` | 1 executor, `<sub, guard>` | `LateArrivalKept`, violated (section 4) |
| `discovery_matches` | this node and a remote one, a publisher and a subscription, loss, 1 refused publish | `TypeOK`, `NoMissedGraphChange`, `MatchedIsSound`, `Inv` |
| `discovery_local` | two publishers sharing one payload string, a service, 1 refused publish | `PayloadCovers`, `EndpointIsDiscovered` |
| `discovery_late` | as `discovery_matches` | `MatchedIsComplete`, violated (section 4) |
| `calls_once` | 1 client with 2 requests, 2 servers, 2 messages lost, 1 answer that fails | the inductive `Inv`, `ImplementsServiceCalls`, `EveryRequestIsAnswered` (unless something was lost) |
| `calls_repeated` | 2 clients with 2 requests each, 1 server, 1 message lost, 1 repeated delivery, 1 answer that fails, or 1 publish that fails after it reached the server or not | `TypeOK`, `ResponseAnswersRequest` |
| `life_objects` | a node and any 2 endpoints of different kinds, one callback at any time | `TypeOK`, the inductive `Inv`, `CallbacksFindObjects`, `FreedOnce`, `NothingElseLeaks`, `ReleaseEnds` |
| `graph_listing` | 2 nodes of one name in different domains, 2 equal publishers, a subscription of the same topic and another type, a server; every query | the inductive `Inv`, `CountsAreTrue`, `ListingIsTrue`, `NodeNamesAreTrue`, `ImplementsView` |
| `graph_types` | 1 node with a server | `ServiceTypesAreListed`, violated (section 4) |
| `messages` | 3 threads, 2 of them taking from one subscription; 34 message types in C and in C++, equal and different at the two ends; two publications in flight where threads meet | `TypeOK`, the inductive `Inv`, `SlotIsSound`, `TakenIsPublished`, `RoundTrip`, `ImplementsDelivery`, `CallsReturn`, `EveryMessageIsHandled` |

**Bounds.** `MaxSignals` (2 per signaler) lets a signal arrive before, during and after a
wait, and two signalers meet in one wait set; a third adds no new place to be. Two
executors are enough for two calls to follow each other on an entity and to run beside
each other; each locking argument involves one executor, one signaler and one entity.
`MaxInbox` is 1 or 2 announcements under way: the handler takes one at a time, so two
orders of arrival and a change during a handler all occur. `MaxFailures` 1 makes a ghost
entry that meets a later endpoint with the same string. One topic is enough for matching,
which never relates two topics. Two requests (`MaxRequests`) are the least that can be
confused or answered out of order; two servers answer one request both, and two clients
meet in one `requests_`. One repetition (`MaxRepeats`) lets a request come again while it
is held or after it was answered. `MaxBacklog` 2 or 4 fits what can be queued, so that
no delivery waits for the bound in `calls_once`; `MaxLosses` 1 or 2 loses a request, an
answer or both. Clients are alike and so are servers: `calls_repeated`, which has no
liveness, declares that symmetry.
`calls_once` has no repetitions: a request delivered again after its answer is answered
again, which `ServiceCalls` excludes and the code does not.

In `life_objects` two endpoints (`MaxEndpoints`) meet in every pair of kinds: endpoints
share nothing but the node's maps, the loop thread and the node itself. One call of DPS
(`MaxCalls`) falls between any two steps; a second would find the same states, since a
call changes none of the objects. In `graph_listing`, equal publishers test the removal of
equal strings, two types of one topic the union of types, two nodes of one name the choice
of `find_if`; a third node would add no new relation.

In `messages` a stream begins with `Hint` = 4 bytes instead of 1024: some messages fit,
others overflow at each of their items. `Endowments` gives each pair of type supports one
publishing thread with one call (the data do not depend on other threads), and one type two
publications, by one thread or by two, beside two takers: enough for two
buffers lent at once, for one message taken by either, and for a message stored by one
thread and published again. `MaxCount` is those two. The types are every kind with every
array, messages in messages to a depth of two, empty ones, and a string and an array at
their bounds; each has two messages, chosen for what encodings tell apart (numbers of one,
two and three bytes, empty and full arrays, a string with a null character, a boolean that
is neither 0 nor 1). The numbers are small because `NestingAssumption` is evaluated for every
type and every position of every encoding, and reading from the wrong position takes any
number for the length of an array.

**Deadlock.** TLC checks for it in the runs of `WaitSet`, `Discovery` and `GraphQueries`,
but there a caller can always create or destroy a wait set, or a node announce itself: that
every thread gets on is what the liveness properties say. The `calls_*` runs switch the
check off, because that system does stop: once everything is destroyed, or every request
was sent and answered. `messages` does too, for it stops when every call was made and every
message taken; that a call returns is `CallsReturn`. So does `life_objects`, once the node is
destroyed; that nothing stops before its release is over is what `ReleaseEnds` says.

**Fairness.** In `WaitSet`, weak fairness of every thread's own steps inside `rmw_wait`,
a callback or `trigger`: the operating system runs threads that can run. `Expire` is fair
because time passes. Nothing is assumed of callers: they need not call, trigger, or take.
No mutex is assumed to be fair: signals are finite (`MaxSignals`), so contention ends. The
assumption that wakeups without cause are finitely many is needed because such a wakeup
makes a call check again, and a thread woken for ever would never be seen to block.
In `Discovery`, the DPS loop thread runs its handler and the watcher keeps watching. In
`RequestReply`, the loop threads deliver what arrives, and the applications do their
part, without which no answer can be promised: the server takes and answers each request,
the client takes its responses. In `Lifecycle`, threads that are in a call and the loop
thread run; the mutexes of the maps need no fairness, since a walk of a map ends. In `Messages`,
a thread in a call goes on, and DPS calls back for each buffer it accepted, with success or
failure (`publish()` waits for it without a timeout, so nothing less will do); for
`EveryMessageIsHandled` only, the takers go on taking, as `rmw_wait` tells them to.

## 4. Where code and comments disagree

* `wait_late`. The comment at `rmw_wait.cpp:173-175` says that an entity that triggers
  after the check "will be caught on the next call to this function". For a listener it
  is. A guard condition that triggers between the unlock and its turn in the detach loop
  is read by `getHasTriggered()`, which clears it: the call returns `RMW_RET_TIMEOUT`, its
  array still names the guard condition, and the next call does not find it triggered. A
  caller that looks at the arrays only after `RMW_RET_OK` loses the trigger.
* `discovery_late`. `custom_node_info.hpp:177` and `:196` update the cached counts on
  *changes* of a node only, and a publisher or subscription starts with none. One that is
  registered after a matching node was discovered does not count it, until that node drops
  the topic and adds it again. The tests create the publisher first
  (`test/test_publisher.cpp:44-57`).
* `graph_types`. `rmw_get_service_names_and_types` (`rmw_node_info_and_types.cpp:326`)
  demangles both types of a service to the name of the service type and lists that twice.
  `test/test_node.cpp:146-148` asserts the two DPS names, of the request and of the
  response.
One more limit is known and is not a disagreement with any text: `names_common.cpp:30`
prefixes the domain id to topics, but announcements do not carry it, and
`rmw_service_server_is_available` removes it before it counts (`:71-72`). A server of
another domain is counted as available. `GraphQueries` models this as it is.

The runs of `Lifecycle` found no more than what the property states as known: a listener
that no DPS object was given is left behind (`rmw_service.cpp:121`,
`rmw_subscription.cpp`, `rmw_client.cpp` between the listener and its handing over), and
a node is leaked if its creation fails and no event can be allocated.

## 5. Proofs

`WaitSetProofs`, for any number of threads, entities, lists and signals, from the named
assumptions of `WaitSet` alone:

* `Typing`, `Invariance`: `Inv` is inductive. Its parts are proved one lemma each.
  `NoLostWakeup` alone is not inductive: that a waiter that blocks leaves nothing ready
  needs `CheckedEmpty` (what the check has passed is still not ready), which needs that
  a store into a call that is checking is impossible, which needs `LocksHeld` (mutual
  exclusion) and `Attachment` (during the check every entity of the call points to this
  wait set, so a signaler that found no pointer is storing elsewhere), which needs
  `CallShape` (lists of calls in progress are disjoint).
* `WakeupsAreNotLost`, `CallbacksFindTheWaitSet`, `NoAttachmentIsStale`, `OkIsReported`.
* `WaitImplementsSelect`: each step of `WaitSet` is, under the mapping (`Phase`,
  `Unread`), a step of `WaitSelect` or none. The point of decision is the end of the check.

`DiscoveryProofs`, for any network, topics and endpoints (finitely many endpoints):

* `Typing`, `Invariance` (`ChangeIsAnnounced`: who still owes the watcher a trigger;
  `MatchesFollow`: a match follows from the announcement before the handler's, until the
  handler has updated that kind, and from the current one afterwards).
* `GraphChangesAreSeen`, `MatchesAreSound`.
* `PayloadCoversEndpoints`: entries are at least the endpoints that hold them; by counting.

`RequestReplyProofs`, for any number of clients, servers, requests, losses and
repetitions:

* `Typing`, `Invariance`: `Inv` adds `Paired`, that a publication stays with the header made
  of it through `requests_`, the acknowledgement and the client's queue, and that a client
  reads the number of a request before it publishes the next.
* `ResponsesAnswerRequests`, which follows from `Paired`.
* `CallsAreServed`: with `MaxRepeats` = 0, `RequestReply` implements `ServiceCalls`. The state of
  a call is where it is found (`Asked`, `Taken`, `Answered`, `Returned`); `Once`, the rest of
  `Inv`, says that it is found in one place only, and that nothing is queued twice or both
  queued and on its way, without which taking one copy would leave the call where it was.
  `Effects` reduces every step to one of four kinds (a client makes its next call, no call
  moves, one call moves, some come to nothing), and each kind to a step of `ServiceCalls`. With
  repetitions the theorem is false, as it should be: a request that DPS delivers after it was
  answered is answered again.

`LifecycleProofs`, for any number of endpoints and callbacks:

* `Typing`, `Invariance`. `CallbacksFindObjects` is about objects; that it holds follows
  from the order of steps in the programs. `StepsInOrder` ties what a creation has done to
  where it is, `NothingFreedEarly` that only a release frees. Three parts then cover the
  three things a callback uses: `ListenerOfObject` (a listener lives as long as the DPS
  object that calls it), `InfoOfRegistered` (leaving the map is the first step of a
  release), `ServiceGoesFirst` (a node frees nothing until its discovery service is gone).
* `CallbacksAreSafe`.
* `NothingFreedTwice`, `ReleasesAreComplete`. A count of what was freed is not inductive: what
  matters is what the release has still to do (`ToCome`). `Accounts` says of each entity that
  nobody has freed, or asked DPS to destroy, what its release is yet to free (`FreedByOne`),
  and that whatever its creation obtained was freed, is doomed, or is yet to be, but for the
  listener that goes with its DPS object (`EverythingGoes`). Three facts about the programs
  carry the proof, each by cases on the kind of entity: the steps of a release differ
  (`OneWay`), each object of a creation has a step in every release (`AllWays`), and a DPS
  object comes before the listener is handed to it (`ObjectFirst`).

`GraphQueriesProofs`, for any network, names, topics and types (finitely many nodes and
endpoints, nodes numbered in the order of their UUIDs):

* `Typing`, `Invariance`. `PayloadIsTrue` says that the strings behind the greeting and the
  node's endpoints match one to one. Counts follow from nothing less: removing the first
  string that is *equal* to an endpoint's may remove that of another, after which the two
  have each other's place, and only a matching that is chosen anew in each state survives it
  (`RemoveAnnounces`). `DiscoveredIsTrue` says the same of a `Node` and the endpoints its node
  had when it announced itself (`NodeOfAnnounced`). Of a query in progress,
  `TopicsInHand` says that one set of endpoints, fixed when it read, accounts for each topic
  in the array with the types that are not left, and for each that is still to be copied;
  `NodesInHand` matches the copied nodes with their indices; `NothingInHand` says that a
  failure leaves nothing in the arrays.
* `CountsEachOnce`, `ListsOneInstant`, `ListsNodesOnce`, from these.
* `QueriesImplementView`: every step is a step of `GraphView` or none. A copied type counts as
  much as it did when it was left (`CopiedForLeft`), and a topic is at one index only, so each
  copying step leaves the answer as it is; what the query took under the mutex is an answer
  that `GraphView` allows (`ViewRead`). It needs no history of its own, and says more than
  `ListingIsTrue`: how often each line appears.
* `MinProperties`: a set of nodes has a first one, which `find_if` finds; from the
  well-foundedness of finite sets under inclusion, applied to the intervals `0..i`.

`MessagesProofs`, for any threads, types, messages and stream sizes, and for any encoding
that satisfies `EncodingAssumption` (items have sizes, and sizes add up; TLC evaluates it
for `Codec`):

* `Typing`, `Invariance`. `PayloadsAreWhole` (a payload is the whole encoding of its message)
  needs `BuffersAreStable` (a buffer is untouched while it is lent), because DPS reads it
  later than it was lent; that needs `StreamCounts`, by which a stream without overflow
  holds exactly the items written, and a second stream, of the size that the first has
  counted, cannot overflow; and `PublicationsAreUnique`, by which a number has one message.
* `SlotsAreSound`, `TakenMessagesArePublished`.
* `Refinement`: every step is a step of `Delivery` or none. That a publication is in one place
  at a time (a payload on its way is not in a buffer yet to be read) is part of
  `PayloadsAreWhole`.

`CodecProofs`, for any message types and messages, arrays of any size, and messages nested to
any depth, in C and in C++:

* `MessagesSurvive`: what one language writes the other reads, to the last item, as
  `Carried` says. The notion that carries it is `Reads`: wherever the items `e` stand in a
  stream, this reader makes this value of them and goes on behind them. It holds of each
  scalar (`ScalarReads`); from readers that have it, `ReadEach` gets it for their items one
  after the other (`EachReads`), and with a length in front `ReadArray` does (`ArrayReads`,
  `CountedReads`). Each of the four ways to write a member pairs with the one that reads it
  (`MessageMemberReads`, `MessageArrayReads`, `ScalarMemberReads`, `ScalarArrayReads`), where
  a string that was cut once is not cut again (`CStringOnce`). A message is read if its
  members are (`MembersRead`), which is the step of an induction on `Depth` (`MessageReads`).
* Two folds had to be opened: `FlattenSeq` of the community modules (`Flattened`: where each
  part begins) and the recursive function in `ReadEach`. `Induction` makes that possible: a
  set of numbers that has each number whose predecessors it has is all of them. It follows
  from the well-foundedness of finite sets under inclusion, applied to the intervals `0..i`,
  and unlike the library's theorem it takes a set where that takes a predicate.

`RosMessagesProofs`, from `Inv` of `Messages`, `MessagesSurvive` and `SupportsAssumption`:

* `MessagesAreUnderstood`: `RoundTrip` in every reachable state. What a taker has in hand is
  the whole encoding of one message (`PayloadsAreWhole`), and an encoding is understood.

Only model-checked: all liveness (`ReadyEndsWait`, `TimedCallReturns`, `SignalCompletes`,
`EndpointIsDiscovered`, `EveryRequestIsAnswered`, `ReleaseEnds`, `CallsReturn`,
`EveryMessageIsHandled`) and the fairness half of `ImplementsSelect`, since liveness needs
fairness and ENABLED, which the prover does not handle. Every other property of a passing
run is a theorem.

## 6. Not modelled

What could follow: a composition of `WaitSet` and `Discovery` at the graph guard condition,
in place of the watcher of `Discovery`.

Left out:

* The bytes of an item (DPS writes and reads them), and integers by their width
  (`CborStream.hpp:295-371`): a number is a number, and only octets and wide characters have a
  range. A character is written as `(int64_t)char` (`CborStream.hpp:123`), which keeps it
  where the compiler's `char` is signed.
* Allocations that fail while a message is read: out of memory in `rmw_take`, a C
  sequence that cannot be initialised, which throws (`TypeSupport_impl.hpp:376`), and one of
  messages that cannot be resized, which is ignored (`:508`). A message that fails to be read is not given to the caller, whose own message may
  be half filled by then.
* The bound of strings beyond the check that the code makes (`TypeSupport_impl.hpp:150`
  counts no terminator where the bound allows for one; C++ strings are not checked). `Codec`
  models the check as it is.
* Memory that is lost rather than misused while messages are read: a C sequence that is read
  into without being freed first (`TypeSupport_impl.hpp:356`), and the type support of
  `rmw_serialize` when the message cannot be resized (`rmw_serialize.cpp:54`).
* What only reports that it is unsupported: loaned messages, events,
  `rmw_get_serialized_message_size`.
* Arguments that are rejected at once, logging, `rmw_init` and its options, the constants of
  identifiers, gids and QoS profiles, and the conversion of timeouts: nothing in them
  depends on an order of events. The history depth of the QoS is not applied by the code;
  queues grow without bound, and the models bound what is sent instead.
* DPS itself, which is external and is modelled by what this code relies on.
