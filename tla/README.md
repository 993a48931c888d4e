# A verification development for NServiceBus

TLA+ modules that model parts of NServiceBus as they are in `src/`, TLC
configurations that check them on small instances, and TLAPS proofs of the
properties that matter most. Paths below are relative to `src/src/`.

## 1. The system

NServiceBus is a service bus: an endpoint receives messages from a queue, runs
handlers inside a transaction and sends messages to other queues. Around that
loop the repository has satellites with queues of their own: a timeout manager,
second level retries, a distributor with its workers, a gateway between sites.

| Part | State it keeps | Operations | What is hard |
|---|---|---|---|
| Transactional transport (`impl/unicast/transport/…/TransactionalTransport.cs`) | worker threads; failures and last exception per message id, under a reader-writer lock | `Process`, `HandledMaxRetries`, `IncrementFailuresForMessage`, `ClearFailuresForMessage`, `Start`, `ChangeNumberOfWorkerThreads`, `AbortHandlingCurrentMessage` | the count is written after the rollback, check and write are two locks, memory dies with the process, the forward and the receive may be two transactions |
| Worker threads (`utils/WorkerThread.cs`) | list of threads, stop flag of each | `Start`, `Stop`, `Loop` | the list counts threads that were told to stop |
| Satellite launcher (`satellites/`) | `Started`, `FailedAttempts` and a transport per satellite | timer, `Execute`, its catch block | the timer races the catch block |
| Timeout manager (`timeout/`) | cache by due time; persister; polling thread | `PushTimeout`, `PopTimeout`, `ClearTimeout`, `Handle` of requests, clears and dispatch requests, `CacheExistingTimeouts` | the cache is outside the transaction; start-up fills it while handlers run |
| Distributor (`distributor/`) | storage queue with one entry per free slot of a worker; list of licensed workers | `PopAvailableWorker`, `WorkerAvailable`, `ClearAvailabilityForWorker`, `LimitAddingAWorker`, ready messages of the workers | restarts of either side, messages finished before anybody listens, a list shared without a lock |
| Second level retries and fault forwarding (`management/retries/`, `impl/faults/`) | headers and reply address of the message | `ProcessingAlwaysFailsForMessage`, `SerializationFailedForMessage`, `Handle`, `Defer`, `SendToErrorQueue`, the return of a message by hand | the message travels through four queues and its headers with it; the reply address makes room for the queue it failed in |
| Unicast bus (`unicast/NServiceBus.Unicast/UnicastBus.cs`) | callbacks per message id, handlers | `Start`, `Send`, `Publish`, `Subscribe`, `Unsubscribe`, `HandleTransportMessage` | subscribe in the background against unsubscribe; callback registered after the send; a reply handled more than once |
| MSMQ subscription storage (`impl/unicast/NServiceBus.Unicast.Subscriptions.Msmq/`) | a queue with a message per subscription; in memory a list of entries and a lookup | `Init`, `Subscribe`, `Unsubscribe`, `GetSubscriberAddressesForMessage` | memory does not roll back and the queue does; two minor versions of a type are equal with different hash codes |
| Other subscription storages (in memory, Raven, NHibernate, Azure) | entries | the same | another contract's implementation |
| Gateway (`gateway/`) | a queue and transport at the sending site; records of received messages by client id, acknowledged or not, at the receiving one | routing and `CloneAndSendLocal`, `SendToSite` and `Forward` (submit, data bus, acknowledge), `HandleSubmit`, `HandleAck`, `InsertMessage` and `AckMessage` of three persisters | lost answers and repeated calls, two calls of one message side by side, persisters outside the transaction or without a unique key, routers evaluated lazily over a header that changes |
| Sagas (`impl/Sagas/`, `impl/SagaPersisters/`, `impl/Persistence/RavenPersistence/`) | entities by id; in Raven a document per saga and one per value of the unique property, and a session per thread | the dispatcher: find, create, invoke, `Save`, `Update`, `Complete`; `End` of the unit of work | two threads at one saga or one value; deletions outside of the session; a session that outlives the message whose `SaveChanges` has thrown; objects shared in memory |
| Scheduling (`scheduling/`) | tasks in memory | `Schedule`, `Start` | tasks do not survive a restart, their timeouts do |
| Proxy, master node, data bus, hosting, configuration, serializers, object builder, Azure, NHibernate, tools | wiring, conversions, other storages | | see section 8 |

How the parts interact: every part that receives has a `TransactionalTransport`
of its own and gets messages through its `TransportMessageReceived` event; the
parts talk to each other by sending messages to queues (timeout requests,
dispatch requests, ready messages, deferred messages). The transport calls the
fault manager when a message has failed too often, and the critical error
action, which stops the worker threads. Satellites are started by the launcher,
the others by the bus when its transport has already started
(`unicast/NServiceBus.Unicast.Config/StartupRunners.cs`).

What makes the parts correct: a message is settled once and never lost without
being reported; retries are bounded; locks are given back; threads asked for are
there; a timeout is neither lost nor early, and repeated only for a reason;
capacity of workers is neither invented nor lost; the reply address of a message
survives its retries; what a publisher has in memory is what it will know after a
restart; a callback is invoked once; there is one saga per value of its unique
property, what it did is neither overwritten nor repeated, and it does not come back
when it has completed.

## 2. Modules

| Module | Models | Notes |
|---|---|---|
| `Settlement` | what a transport promises of its messages, and distributor and workers of theirs | abstract specification, one variable: the fate of each message |
| `TransactionalTransport` | `Process` on every thread | implements `Settlement` |
| `MCTransactionalTransport` | an instance with every map from messages to ids | |
| `TransactionalTransportProofs` | | theorems |
| `WorkerThreads` | list of threads of one transport | composed by the next two |
| `TransportThreads` | callers that change the number of threads | |
| `SatelliteLauncher` | one satellite, its launcher and its transport's threads | composes with `WorkerThreads` |
| `WorkerThreadsProofs` | | theorems about both users of `WorkerThreads` |
| `TimeoutManager`, `MCTimeoutManager`, `TimeoutManagerProofs` | requests, cache, polling thread, store | |
| `Distributor`, `DistributorProofs` | distributor and workers | implements `Settlement` |
| `Gateway`, `MCGateway`, `GatewayProofs` | sending gateway, HTTP calls, receiving gateway with its persister | |
| `SecondLevelRetries`, `MCSecondLevelRetries`, `SecondLevelRetriesProofs` | the way of a failing message through fault manager, retries satellite, timeout manager, error queue and back | composes with the timeout manager's handlers |
| `MsmqSubscriptionStorage` | a publisher's storage: memory, queue and the transactions of its threads | extended by the next |
| `UnicastBus`, `MCUnicastBus`, `UnicastBusProofs` | clients that subscribe, unsubscribe and send requests; the publisher that handles them | composes with `MsmqSubscriptionStorage` |
| `Sagas`, `MCSagas`, `SagasProofs` | the saga dispatcher on several threads, with the persister in memory or the one for Raven | |

Definitions whose comment says *Mutant of* are deliberate faults. They are not
part of any specification; each one shows that a property notices a plausible
mistake in the code.

### TransactionalTransport

`pc[t]` is the place of thread `t` in `Process`; each action is the code up to
the next point where another thread can be seen. `queue`, `handled`, `dropped`,
`errorQueue` say where messages are; a message in the hands of a thread is in
none of them. `failuresPerMessage` and `exceptionsForMessages` are the two
dictionaries, `writer` the holder of the write lock. A read under the read lock
is one action that needs `writer = NoThread`; the writes that happen under one
write lock are one action, except where the lock is held across the call of the
fault manager or an exception (`EnterWriteLock`, `ExceptionMissing`).

`mode` covers the three configurations: all in one distributed transaction,
`SupressDTC` (the handling runs outside the receive transaction) and no
transaction. `failed` is bookkeeping: failed attempts since the counts of the id
were last cleared. `idOf` is any of the maps `IdMaps`: ids may be shared, because
`MsmqUtilities.Convert` takes the id from the header `OriginalId` when there is one.

Crash is the death of the process followed by its start: open transactions roll
back (without a transaction the message is gone) and memory is lost.

### WorkerThreads, TransportThreads, SatelliteLauncher

`workerThreads` is the list, a set of numbers, because threads are added at its end
and only removed otherwise; `stopRequested` are the threads of it that were told to
stop. `Stopped(t)` is the event by which a thread leaves the list, when it has
finished its message. In `SatelliteLauncher` the statements of the catch block
are one action each, because the timer's thread reads `Started` and
`FailedAttempts` without a lock, and `FailedAttempts++` is a read and a write.
`prompt` selects the behaviours in which the timer, which elapses once a second,
never elapses during a catch block: in the others the catch block of one attempt may
stop the thread of the next, and the satellite counts as started and receives
nothing.

### TimeoutManager

A message is in `queue` until the transaction that took it commits (`Commit`) or
for longer if it rolls back. `adds` and `deletes` are what the transaction of a
handler does to the store. `cache` is `DefaultTimeoutManager.data` as a function
from entries to occurrences: a slot, the list of one due time, is what has that
`Due`. `popped` is the slot `PopTimeout` has removed and is sleeping on or
dispatching. `handlersFirst` selects whether the worker threads may start before
`CacheExistingTimeouts` has filled the cache; the order in which the parts run
when the bus starts is not defined by the code. `ClearTimeoutsFor` deletes any
subset of the entries of the saga, since the index it queries may be stale.

### Distributor

`credits[w]` is the number of entries of worker `w` in the storage queue,
including those popped by a transaction that is still open; `control` is the
control queue as a bag; `known` is `WorkersList`, where two entries of one worker
are told apart by the thread that added them. The lookup, the count and the
addition in `LimitAddingAWorker` are three steps. `phase[w]` is the worker's
start: the transport, then the report of its threads, then the subscription to
`FinishedMessageProcessing`. A worker's transport is reduced to its outcomes:
completed, or failed too often and passed to the second level retries, which
hold the message back and return it to the worker's own queue, or give up.

### Gateway

A message at the sending site is an *envelope*: the message and the keys in its
header `DestinationSites`, taken as a set. A clone has one key and an id of its own,
so an envelope with one key stands for a client id at the receiving site, and
`storage[e]` counts the records of it that are new and acknowledged. The gateway's
transport is reduced to what the module about it promises: `Receive`, `Rollback`
with a count, `HandledMaxRetries`, and one action for each way a handling commits.
`Split`, `NoDestination` and `OneDestination` are the three branches of
`OnTransportMessageReceived`; `SplitOver` keeps the lazy evaluation of the routers
(finding 3). `Addresses` are keys with a colon, which the router by prefix knows,
`Configured` those of the section `GatewayConfig`; they are assumed disjoint. An
audit store is assumed configured, which is what makes a forwarded message visible.

An HTTP call is a record in a slot: envelope, type, the sender that waits for it or
`None`, the step its handler has reached and what its transaction will write.
`Transmit` makes a call and `Answer` ends it. `NoAnswer` loses the request, or lets
the sender time out while the call goes on without anybody waiting, so that the
repetition may run beside it. `Throws` fails the handler at any step, and each side
may restart.

The receiving site has three persisters, chosen in `Init`:

- *InMemory* writes at once. A handler that fails later does not take it back, so the
  message is acknowledged and never sent; a restart forgets everything.
- *Raven* refuses a second insert but acknowledges without optimistic concurrency:
  two calls that have both loaded an unacknowledged document may both send it on.
- *Sql* has no unique key (`Schema.sql`), so two submits may store two rows;
  the acknowledgement then updates both and returns no message (`@@ROWCOUNT = 1`).

The properties excuse each persister for exactly these cases (`LossExcused`,
`RepeatExcused`) and for nothing else. Left out: replies of sites and the router of
2.x messages; the data bus, whose properties the sender never transmits, because
`HeaderMapper` adds a prefix to the names that `TransmittDataBusProperties` looks for.

### SecondLevelRetries

A message is in one place: every queue is transactional and every step one
transaction, so what is modelled is what travels with it: `replyTo`, the headers
`failedQ` (`FailedQ`), `original` (`OriginalReplyToAddress`), `retries`, and the
times `wait` until `Expire` and `age` since `RetriesTimestamp`. `HandleRetry` is
`SecondLevelRetries.Handle` with `DefaultRetryPolicy`, `Store` and
`DispatchTimeout` are what the timeout manager does to the message (its reply
address becomes `TimeoutData.Destination`), and `ReturnMessageToSourceQueue` is the
tool. `NullAddress` is the value that
`GetOriginalReplyToAddressAndRemoveItFromHeaders` leaves in the header, which is set
to null and not removed. `RetryAlwaysFails` is the satellite's own fault manager;
`Restart` may change the configuration. `bypassed` and `overwritten` are history: a
deferred message that a fault manager sent to the error queue itself, and one
deferred again over the null header.

### MsmqSubscriptionStorage and UnicastBus

The storage is for one message type, which has minor versions. `entries` counts the
entries of each client in the list, `lookup` is the dictionary, `stored` the queue,
`sent` and `received` what the open transaction of a handled message will change in
it. `ownTransaction` is `DontUseExternalTransaction`. The list compares types with
`MessageType.Equals` (same major version), the dictionary hashes the whole version
(`MessageType.cs:120`), so the list has one entry per client where the dictionary has
one per client and version. `Load` is `Init` with its order unknown.

In `UnicastBus` a call of a client is a number, in the order of the calls. A
subscription waits in `background` for the thread pool and is sent when the
publisher's queue exists, within `MaxSendRetries`; the other calls are sent at
once. `arrived` is the publisher's input queue in order of arrival, `step` the
progress of a message with `numberOfWorkerThreads` threads, `failures` the count of
its transport. A request has a reply and a callback: `Register` is
`Callback.Register`, after the send; `HandleCorellatedMessage` removes the callback
from the lookup and invokes it, and `EndReply` ends the handling, or fails it so that
the reply is handled again. `MCUnicastBus` names the publishers: with either kind of
transaction, one or two threads, one that lets the client only unsubscribe, and two
whose client is upgraded to another minor version.

### Sagas

A configuration is a persister, whether the handling is part of the transaction of the
message (`ambient`), and the messages there are. A thread goes through the dispatcher:
`Receive`, find (`GetFromMemory`; `LoadLookup` and `LoadSaga`), `Invoke`, the end of
the unit of work, `Commit`. What a saga does to its data is abstracted to the value of
its unique property and `applied`, the messages whose effect is in it (`repeated` when
one is there twice).

In memory the entity is the object in the store: `Invoke` and a handler that throws
(`LeaveObject`) change it at once. With Raven each thread has a `session`: entities it
tracks, the new or modified ones (`changed`), those another session has written since
they were loaded (`stale`, what optimistic concurrency notices), those to be deleted,
and the documents `SagaUniqueIdentity` it tracks (`lookups`) or will add (`added`).
`Batch` is what `SaveChanges` sends and `Conflict` when it throws. `DeleteUniqueProperty`
is no part of the session: `Unlink` deletes at once or in the transaction `tx[t]`, whose
documents others cannot write and wait for when they load them. `RavenUnitOfWork.End`
disposes of the session, except when its own `SaveChanges` throws: `UnicastBus` takes
the unit of work for ended then and does not end it with the exception
(`UnicastBus.cs:1260-1291`), so `SaveChangesThrows` leaves the session to the next message of the
thread. An answer carries the id of the saga that sent the request in its header.

`handledBy`, `spoiled` (messages whose `SaveChanges` has thrown) and `risked` (values
whose uniqueness was put at risk) are history. `MaxDisturbances` bounds restarts,
handlers that throw and commits that fail; what the persister itself throws is not
bounded but by the retries of the transport.

## 3. Runs

| Run | Instance | Shows |
|---|---|---|
| `Transport` | 2 threads; 3 messages, one of them unreadable, with ids of their own or the two others sharing one; all modes; `MaxRetries` 2; 2 disturbances | types; counts exact; retries bounded; the error queue has what failed too often, once; a message is given up only for a reason; every message is settled; implements `Settlement` |
| `TransportThreads` | 2 threads, 3 calls | **violated**: the number asked for is not reached (finding 1) |
| `Satellite` | 3 failures allowed, 4 launches | a satellite that is not running leaves no thread, a running one has one (when the timer is prompt) and never two; a decision is reached |
| `Timeouts` | 2 timeouts of one saga due at 0 and 1, 2 copies of each, 2 handlers, 1 disturbance | nothing lost, never early, repeated for a reason, revoked not dispatched, every timeout delivered |
| `Distributor` | 2 workers with 1 thread each, 2 messages, 2 data and 2 control threads, licence for 1 worker, 1 retry, 1 disturbance | capacity neither invented nor lost; the licence exceeded by no more than the threads that write the list; every message handled; implements `Settlement` |
| `DistributorRestart` | 1 message, 1 worker with 1 thread, 1 disturbance | **violated**: more entries than the worker is ready for (finding 2) |
| `Gateway` | 1 sender; a message for two addresses, one for an unknown key, a web message; 2 calls at a time, each persister, 1 disturbance | no destination forgotten, at most once, records and queue agree, every destination decided |
| `GatewayMixed` | one message for an address and a configured key | **violated**: the configured site is forgotten (finding 3) |
| `Retries` | a message from a client and an unreadable one without reply address, of one saga; up to 3 retries, 2 returns by hand, 2 disturbances | retries bounded; the sender's address is not lost and is back in the error queue; each retry waits longer; every message decided |
| `RetriesReply` | one message, one retry | **violated**: a reply goes to the endpoint itself (finding 4) |
| `UnicastBus` | 1 client, 3 calls (1 request), seven kinds of publisher, 2 disturbances | memory and storage queue agree, the last request wins, callbacks invoked once, every call decided |
| `Sagas` | 2 threads; two messages that start sagas, of two values or of one, and the answer to what the first one sends; memory, Raven with and without the transaction; `MaxRetries` 2, 1 disturbance | one saga per value, effects match what was handled, a completed saga does not come back |

Bounds. `MaxDisturbances` bounds crashes, rollbacks that are not failures of a
handler, failed sends and the like; failures of handlers are not bounded, except in
`Sagas`. Two threads are enough for every race listed among the hazards, since each is
between two holders of one id, one list, one document or one queue; two disturbances
allow a crash during the recovery from another, where the instance allows two. `MaxRetries = 2` is the smallest value
at which a count is both incremented and found too small. In `Timeouts` the clock runs
to 1, so that one timeout is due at once and the other only after a tick; each
timeout may be stored twice, which one rollback can cause. In `Distributor` two
workers and two control threads are the fewest that race for the last place of the
licence; one worker with two control threads is refused by its own duplicate. Each
worker has one thread, so a second report (a restart) is what makes entries of one worker
interact, and one disturbance is enough for it; the safety properties are proved for any
number of threads, workers and disturbances. `MaxLaunches = 4` lets all three
failures and one more attempt happen. In `Gateway` one sender suffices: calls of one
message run side by side only when an answer was lost, since the queue gives a
message to one thread at a time. The slots are as many as calls can be in flight:
one per sender, one per answer not waited for and one per web client. In `Retries`
three retries are what `DefaultRetryPolicy` allows, `MaxAge` is one more than the time
these take, and two returns by hand let a message come back whose header was reset. In
`UnicastBus` three calls are subscribe, unsubscribe and subscribe, or a request between
two of them; the client has one attempt to send again, and each of the three calls may
be handled in a transaction of its own. In `Sagas` seven ids are as many as can be in
use, so that a new saga always finds one; ids are taken in order, since only their
being new matters. `SYMMETRY` is over the threads, which are the same to every
definition; the run has no liveness property.

`CHECK_DEADLOCK FALSE`: all these systems may come to rest. The threads of a
transport end after a critical error or wait on an empty queue; a satellite is
given up or runs; all timeouts are delivered; all messages are handled or
forwarded; all calls are answered.

Fairness. Threads of the operating system run, timers elapse and time passes:
weak fairness per worker thread (`Process(t)`, `Handle(h)`, `HandleControl(t)`),
for the polling thread, the timer and the clock; in the gateway per sender thread
(`Send(s)`) and per call (`Serve(c)`, the handler and its answer); in the second level retries per
message for the endpoint, for the satellite and for the timeout manager, and for the
clock (`Tick`); on the bus for the thread pool that sends subscriptions, for each
thread of the publisher and for the client's thread that handles a reply. It is for the thread as a whole,
never for a choice it makes: nothing says that a handler succeeds, that a commit
goes through or which of several messages is received. No fairness is assumed for
a disturbance, and disturbances are bounded, so the liveness properties say what
happens once they have ceased. A process that died is restarted by its host; the
models treat death and restart as one step, or give the start weak fairness.

## 4. What is proved

TLAPS checks these for every value of the constants that satisfies the named
assumptions (finitely many threads, positive `MaxRetries`, and so on). None of the
properties is inductive as it stands; each invariant is a stack of layers, each
inductive given those below it.

**Transport.** `TypeCorrect`, `FailuresAccountedCorrect`, `RetriesBoundedCorrect`,
`TransportImplementsSettlement`, `DeadLettersKeptCorrect`,
`GivenUpForAReasonCorrect`.

1. types, with counts that might still be negative, and a thread past `Receive`
   has a message;
2. `LockDiscipline` (who holds the write lock is in the fault manager or on the way
   to the finally block that exits it) and `FailuresAccounted`. A count is cleared
   only by subtracting what the dictionary holds, so the bookkeeping is never
   negative: with layer 1 this is `TypeOK`;
3. `AttemptsBounded`: `Active(i)` are the threads that may yet add to the count of
   `i`. A thread gets there by seeing a count below `MaxRetries`, so the count plus
   the active threads stay below `MaxRetries + Cardinality(Threads)`; what is
   unrecorded is part of `Active`, so `RetriesBounded` follows. `DictionariesAgree`
   and `NothingCounted` are needed for the step that looks at one dictionary and
   acts on the other;
4. `OwnedByOne` and `SettledIsGone`: a message in flight belongs to one thread and
   is neither queued nor settled. `FateStep` shows that a step settles nothing, one
   message, or what a dying process without transactions held, and each of these is
   a stutter, a `Settle` or a `DropAll` of `Settlement`;
5. `CommitNoted`: who is about to commit a forwarded message has already put it into
   the error queue, when that queue is not part of the transaction. With layer 4 the
   error queue has a dead message once, or more often only after a commit failed;
6. `DroppedHalts` (who gave up because the fault manager failed has told all threads
   to stop), `SeenToFail` (who is on the way to the fault manager with a message that
   shares its id with none has `MaxRetries` failures of it on record) and
   `ClearedIsSettled` (who clears counts has settled its message, so it does not
   take the failures from under the former).

**Worker threads.** `NeverMoreThanAskedCorrect`, `AsManyAsAskedUnlessStopping`. In the
list of threads each index is the index of one thread (`Indexed`, an injection between
finite sets of one size), so a call for `n` threads keeps `n` of them (`FirstThreads`)
and leaves `n` active, less those it keeps that an earlier call has told to stop
(`Changed`). Too many never are, and too few only in this way: this bounds finding 1.

**Satellites.** `TypeCorrect`, `ThreadsMatchLaunchCorrect`. Layer 1 counts:
`FailedAttempts` never exceeds the launches that failed, although it is incremented
without a lock, and no launch attaches the handler twice. Layer 2 tells the launch
`Started` stands for (`OneLive`) from those in the rest of their catch block: the
threads belong to the former unless one of the latter is about to stop them
(`ThreadsOfLive`), which a prompt timer excludes (`PromptTimer`).

**Timeout manager.** `TypeCorrect`, `NothingLostCorrect`, `NeverEarlyCorrect`,
`RevokedNotDispatchedCorrect`, `RepeatedForAReasonCorrect`. Layer 1 is types, `KnownEntries` (only ids that were
given out are in the cache, a popped slot or a request) and `Jobs` (what a handler's
transaction adds and deletes belongs to the message in its hand).
`EveryHandIsQueued`: no more handlers have a message in hand than there are copies,
so a commit consumes one that exists; `TypeOK` follows. On these rest three
invariants: `NothingLost` itself, since only a commit takes anything from the queue
or the store and each kind of transaction leaves its timeout somewhere; `Punctual`,
that requests exist only for what is due; and `CacheFirst`, that with the cache
filled first an entry is in memory once, and once revoked it is not there at all.
The last theorem is an account of one timeout: the deliveries made, those on the way
(`OnTheWay`, in which each thread and queue has its `Weight`) and the one to come
(`ToCome`) are at most one, plus one for each disturbance, plus one if the handlers start
before the cache is filled. It needs that a timeout is stored once (`StoredOnce`) and that
handlers that wait for the cache have nothing in hand (`HandlersWait`).

**Distributor.** `TypeCorrect`, `CapacityAccountedCorrect`,
`OnlyWhatIsReadyUnlessRestarted`, `LicenseExceededByThreadsCorrect`,
`DistributorImplementsSettlement`. Layer 1 is types over the integers, `Whereabouts` (a message is in one place) and
`Jobs`. Layer 2 says that no more entries are popped than are stored and no more
control messages are in hand than are queued, so that nothing goes below zero. Layer
3 is the account of a worker: the parts of its capacity only turn into each other (a
pending report into entries, an entry into a message at the worker, such a message
into a pending report) or into `lost`. The account also bounds finding 2: a worker that
has reported its threads at most once has no more entries than threads. `ListBounded`
is the invariant of the licence list: unless it is empty and nobody is about to add, its
entries and the threads past the count (`Adding`) are together fewer than the licence
and the control threads; the thread that passes the count finds a list shorter than the
licence, so the bound holds however many pass it at once. For the refinement,
`Whereabouts` gives each message one place (`FateFacts`), what is done, dead or dropped
stays so (`EndedOnce`), and a step settles nothing, or one message (`NothingSettled`,
`OneSettled`).

**Gateway.** `TypeCorrect`, `AtMostOnceCorrect`, `RecordsAgreeCorrect`,
`OnlyConfiguredForgotten`, `NoDestinationForgottenCorrect`, for each persister. Layer 1 has the sending site,
`Hands` (a thread that is not idle has a message of its own that has not failed too
often) and `Owners` (a thread waits for one call), and the receiving site,
`Transactions`: what a call may be about to write at each step (`Fits`), that of the
calls for one envelope only one is about to acknowledge (`Exclusive`), and that it
acknowledges no more records than there are (`Covered`). Without the last two the number
of records could become negative, so `TypeOK` needs them. Layer 2 is an account of the
records of one envelope. For a persister in a database and calls that never overlapped,
`StoredOnce`: one call at a time is handled (`Alone`), there is at most one record, as
many deliveries as acknowledged records (`Settled`), and a call carries exactly what its
step has done (`Exact`). For the persister in memory while it has not been restarted,
`Remembered`: one record, and whoever acknowledged it is the only one to deliver it
(`OneCarrier`). `Bystanders` says that a step leaves alone every envelope it does not
handle. `OnlyConfiguredForgotten`
has no assumption on the keys: it says of each destination the first router that knows
any returns (`Served`) what `NoDestinationForgotten` says of all, and so bounds finding
3. When the keys of each message are known to one router only (`Unmixed`), these are
all, and `NoDestinationForgottenCorrect` follows. The proof follows a destination across
the two sites: what a successful Submit and a successful Ack stand
for (`Held`, `Acked`) and that an answer is never taken back (`AnswersKept`), what a
call has done at each of its steps (`Submitting`, `Acking`), that the call a sender
waits for is about the message in its hand (`Linked`), what the sender knows from its
answers (`Knows`), and with these where each destination is (`Traced`). For Raven, that
the record is acknowledged in the transaction that sends (`RavenSends`).

**Second level retries.** `TypeCorrect`, `RoundsBoundedCorrect`, `ReplyAddressKeptCorrect`,
`ReplyStraysAfterRetryOnly`, `BackedOffCorrect`. `Underway` says what the headers
have at each place; `RoundsMatched` that the endpoint has given up on a message once
for each retry it counts, once more for each return by hand, and once for the way it is
on. Layer 3 follows the sender's address: it is in the header
`OriginalReplyToAddress`, or in place and the message not with the timeout manager
(`AddressKept`), and in the error queue the header is used up (`HeaderUsedUp`). The
theorem about replies bounds finding 4: a message has the sender's address or, once
deferred, its own endpoint's (`TwoAddresses`), and a reply goes to the address its message
had when it was handled (`RepliesFollow`); so a reply that misses the sender was made by a
retried message and goes to the endpoint itself, and the right address is in the header
unless it was overwritten. Layer
4, `WaitsEnough`, says that a deferred message waits at least as long as its number
of retries asks for.

**Bus and subscription storage.** `TypeCorrect`, `CallbackInvokedOnceCorrect`,
`MemoryMatchesQueueCorrect`, `LastRequestWinsCorrect`. Layer 1 is types and where a call
is. `CallbackInv`: a callback that waits was not invoked. Layers 3 and 4 say what a
transaction of the storage has pending (`TxInv`: one message, of the client whose
request it handles), that a single thread has one transaction at a time (`OneAtATime`),
and that each message in the storage queue is a subscription of its client (`Named`).
Layer 5 is about the clients `MemoryMatchesQueue` speaks of (`Coherent`): what the queue
will have when the open transactions have committed (`Effective`) is the message the
lookup names, if the list has the client, and nothing otherwise. Layers 6 and 7 are for
one thread, and for the requests of one client: they leave the queue in the order they
were sent, one at a time (`InTurn`; a call arrives once, `Once`); the list follows the
requests that have left the queue, or is ahead by the one at the head (`ListFollows`);
and where the storage takes part in the message's transaction, the storage queue follows
too with each commit (`QueueFollows`), which is what a restart loads.

**Sagas.** `TypeCorrect`, `CompletedForGoodCorrect`, `OneSagaPerValueCorrect`,
`EffectsMatchHandledCorrect`. Layer 1 is types; what a thread found is in its session or
in memory (`InHand`); it clears the timeouts of the saga it has in hand and no other
(`Clearing`); and the id of a new saga is known to nobody else (`FreshInHand`). Layer 2
is for Raven with the transaction of the message: no two transactions write one saga
(`OneWriter`), a saga whose timeouts will be cleared is removed by the same transaction
or was never stored (`Going`), and a saga whose timeouts were cleared is `Dead`: not
stored, and every session that still has it knows an old version, which `SaveChanges`
refuses. `OneSagaPerValue` has a proof for each persister. In memory it is inductive as
it stands (layer 4). For Raven, layer 3 says that the document of a value that is not at
risk names the saga that has it (`OneDocument`); that what a session holds is what the
store has, or a value with a new document (`Based`); that who has removed the document
of a value gives its saga another value or removes it (`Renames`); that two transactions
never write one document of a value; and that what a transaction will change keeps
`OneDocument` (`Consistent`). `BatchConsistent` is the heart of it: what `SaveChanges`
sends is consistent because it was checked against the documents there are, and what was
not checked nobody else could change (`Watcher`).

For `EffectsMatchHandled`, a message that is handled is in the hand of one thread and a
new saga in the hand of one (layer 5: `Holding`, `FreshAlone`). In memory every object
has what was done to it, by messages that are handled or about to be (layer 6). With
Raven (layer 7) whoever holds data of a saga that is not stale, the store, a session or
a transaction, has all that was done to it (`Included`), and what a thread has done is
in what it will save, or its saga is `Dead` (`Carried`); a message counts as handled
when its transaction commits or, without the transaction of the thread, when the unit of
work ends, and at that step every other session that has the saga becomes stale
(`CountedIncluded`). For the other direction, layer 8 explains each entry of the data by
a message that was handled, one in work or one whose `SaveChanges` has thrown
(`Accounted`): an entry is made twice only in the last case, since a message in hand was
not handled before.

Only model-checked are the liveness properties (`EverySettled`, `Decided`,
`EveryDelivered`, `EveryMessageHandled`, `EveryDestinationDecided`, `EveryMessageDecided`,
`EveryCallDecided`): TLAPS does not prove properties under fairness.

## 5. Findings

1. `ChangeNumberOfWorkerThreads` (`TransactionalTransport.cs:150`) counts threads
   that are about to stop. Shrinking and growing again leaves too few, against the
   documentation of `ITransport` (lines 35-38). There are never too many, and the number
   is right when no call counts on a thread that is stopping
   (`AsManyAsAskedUnlessStopping`).
2. A worker that restarts with messages in its queue reports all its threads
   (`ReadyMessageSender.cs:24`) and these messages once more when it finishes them;
   the distributor then overestimates it, against `IWorkerAvailabilityManager.cs:20`.
   Without a second report it does not (`OnlyWhatIsReadyUnlessRestarted`).
3. `GatewaySender.cs:65` enumerates the destinations lazily and sends a clone for each
   one; `CloneAndSendLocal` overwrites `DestinationSites` of the message itself (92)
   before the next router reads it. With an address and a configured key in the header
   the configured site gets nothing, although line 65 means to send to each. All other
   destinations are served (`OnlyConfiguredForgotten`).
4. `Defer` (`SecondLevelRetries.cs:73`) puts the queue a message failed in into its
   reply address, and `TimeoutDispatcher.cs:27` its own; the header that keeps the
   sender's is read on the way to the error queue only. A handler that succeeds at a
   later attempt replies to its own endpoint (`UnicastBus.cs:496` and 514), against
   `IBus.cs:208`. Only replies of retried messages stray, and only
   to that endpoint (`ReplyStraysAfterRetryOnly`).

Behaviour the models make visible without a document to contradict:

- Satellites: the timer may start a satellite again while the catch block of the failed
  attempt is about to stop its transport's threads (`SatelliteLauncher.cs:128-135`): the
  new attempt loses its thread and the satellite counts as started. Each attempt attaches
  the handler once more. A disabled satellite is not started, so the test of `Disabled`
  in its `Handle` is never true.
- Distributor: a message finished before `ReadyMessageSender` subscribes, a ready message
  handled before the storage queue is open and a worker refused by its own duplicate in
  the licence list lose capacity for good (`lost`).
- Timeouts: a dispatch request whose send failed waits for a restart (`undispatched`).
- Transport: with shared ids a message may be forwarded after a single failure of its
  own; a message is consumed by nobody after `Distributor.Stop` (`dropped`).
- Gateway: a message of which some keys are known loses the others without a word, while
  one of which no key is known ends with the fault manager. What each persister cannot
  cope with is listed in section 2.
- Second level retries: when the satellite itself fails, the message in the error queue
  names the queue of the satellite as the one it failed in. Returned by hand and deferred
  again, a message has no sender any more, because the header was set to null and not
  removed (`overwritten`). Messages that pass the satellite over because a restart has
  disabled it keep the endpoint's own reply address (`bypassed`), as does, at the end, a
  message that had none. `SecondLevelRetriesFaultManager.cs` is used by nothing.
- Subscriptions: a transaction that rolls back after `Subscribe` leaves the client in
  memory and not in the queue, so that a restart loses it; one that rolls back after
  `Unsubscribe` leaves the message, so that a restart brings the client back, and so does
  a second message of one client. Two worker threads may handle requests in
  another order than they were made. `Unsubscribe` is sent at once and may overtake a
  `Subscribe` that waits in the background. A client upgraded to another minor version
  leaves its old message in the queue when it unsubscribes.
- Callbacks: one that is registered after its reply was handled is never invoked and
  stays in the lookup.
- Sagas: when `SaveChanges` throws, the session stays with the thread and later messages
  of that thread fail, or save what the failed one has left. There may be two
  sagas of one value although `UniqueAttribute.cs:9-11` promises one: `risked` names the
  cases. A saga that changes its value and completes in one message leaves the document of
  the old value, and a message that starts a saga for that value then always throws. In
  memory an `Update` that overlaps a `Complete` puts the saga back. Without a transaction
  a failed attempt has already cleared the timeouts. The text "A saga with the same Unique
  property already existed" also stands for any other concurrent update.

## 6. Hazards

`PROJECT.json` lists each with its line and the properties that cover it. One is not
covered: a critical error during `Start` (`TransactionalTransport.cs:183`), because the
models let nobody call a transport that is still starting. Two are plain from their lines
and have no property: the handler attached once more at each attempt of a satellite, and
the prefix that hides data bus properties from the gateway.

## 7. Plan

Done: transport, worker threads, satellites, timeout manager, distributor, gateway, second
level retries, bus and MSMQ storage, sagas. To come, in this order:

1. *Scheduling and proxy*: the scheduler keeps its tasks in memory and its timeouts in the
   store, so a restart leaves timeouts without tasks; the proxy keeps the return address
   of a request in a storage of its own and removes it with the first answer.
2. *Other storages*: the subscription storages for Raven and NHibernate against the
   promise `MemoryMatchesQueue` makes, the saga persister for NHibernate against
   `OneSagaPerValue`, which it leaves to a unique column.
3. *Composition*: a saga's timeouts with the timeout manager; a deferred message with a
   worker's transport. `Settlement`, which the transport and the distributor implement,
   and the queues of `SecondLevelRetries` are the interfaces; the instances are large.

The set of runs is kept small on purpose: one for each part, and one for each finding.

## 8. Not modelled, and why

Scheduling and proxy: planned above, small. Other subscription storages, NHibernate and
Azure: other implementations of contracts that are modelled once. Master node: wiring
that says which endpoint starts which satellites. Serializers, message mapper,
encryption, mutators, headers, data bus: conversions on the thread that handles the
message. Object builder, configuration, hosting, installation, licensing, tools: wiring
and input or output; where their order matters (what starts first) it is part of the
modules that depend on it. The scripts of the samples are copies of jQuery and part of no
endpoint. MSMQ, the transaction coordinator and Raven are not in the repository:
they are modelled as the code uses them, transactional queues and a store that takes part
in the transaction. Throttling, message expiry and time-outs of a peek are delays that
change no state.
