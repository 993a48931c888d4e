------------------------ MODULE TimeoutManagerProofs ------------------------
(***************************************************************************)
(* Proofs about TimeoutManager for every set of timeouts, sagas, ids and   *)
(* handlers, any interval and any number of disturbances.                  *)
(***************************************************************************)
EXTENDS TimeoutManager, FiniteSetTheorems, TLAPS

(* What the definitions of entries and messages amount to.                 *)
LEMMA EntryFacts ==
  \A e \in Entries :
    /\ TimeoutOf(e) \in Timeouts
    /\ Saga(e) \in Sagas
    /\ Saga(e) = SagaOf[TimeoutOf(e)]
    /\ DueAt(e) \in Nat
  BY TimeoutsAssumption DEF Entries, TimeoutOf, Saga, DueAt

LEMMA MessageFacts ==
  /\ \A t \in Timeouts : Store(t) \in Messages
  /\ \A s \in Sagas : Clear(s) \in Messages
  /\ \A e \in Entries : Dispatch(e) \in Messages
  /\ \A t : Store(t).type = "store" /\ Store(t).timeout = t
  /\ \A s : Clear(s).type = "clear" /\ Clear(s).saga = s
  /\ \A e : Dispatch(e).type = "dispatch" /\ Dispatch(e).entry = e
  BY DEF Messages, Store, Clear, Dispatch

-----------------------------------------------------------------------------
(* Layer 1: types, with queue allowed to be negative, and what the message *)
(* in hand says of the transaction.                                        *)

Types ==
  /\ now \in 0..MaxTime
  /\ queue \in [Messages -> Int]
  /\ store \subseteq used
  /\ used \subseteq Entries
  /\ pc \in [Handlers -> {"idle", "push", "clear", "commit"}]
  /\ job \in [Handlers -> Messages \cup {NoMessage}]
  /\ adds \in [Handlers -> SUBSET used]
  /\ deletes \in [Handlers -> SUBSET used]
  /\ cache \in [Entries -> Nat]
  /\ polling \in {"getAll", "loading", "pop", "sleep", "dispatch"}
  /\ loading \subseteq used
  /\ popped \in [Entries -> Nat]
  /\ handlersFirst \in BOOLEAN
  /\ delivered \in [Timeouts -> Nat]
  /\ cleared \subseteq Sagas
  /\ revoked \subseteq used
  /\ undispatched \subseteq Timeouts
  /\ disturbances \in Nat

(* Only entries that were given an id are in the cache, in the slot that   *)
(* was popped, or in a dispatch request.                                   *)
KnownEntries ==
  \A e \in Entries :
    cache[e] > 0 \/ popped[e] > 0 \/ queue[Dispatch(e)] > 0 => e \in used

Storing(h) ==
  \E e \in Entries : job[h] = Store(TimeoutOf(e)) /\ adds[h] = {e} /\ deletes[h] = {}
Clearing(h) ==
  \E s \in Sagas : job[h] = Clear(s) /\ adds[h] = {} /\ \A e \in deletes[h] : Saga(e) = s
Dispatching(h) ==
  \E e \in Entries : job[h] = Dispatch(e) /\ adds[h] = {} /\ deletes[h] \subseteq {e}

Job(h) ==
  /\ pc[h] = "idle" => job[h] = NoMessage /\ adds[h] = {} /\ deletes[h] = {}
  /\ pc[h] = "push" => Storing(h)
  /\ pc[h] = "clear" => Clearing(h)
  /\ pc[h] = "commit" => Storing(h) \/ Clearing(h) \/ Dispatching(h)

Jobs == \A h \in Handlers : Job(h)

Layer1 == Types /\ KnownEntries /\ Jobs

LEMMA Layer1Init == Init => Layer1
<1> SUFFICES ASSUME Init PROVE Layer1
  OBVIOUS
<1>1. queue \in [Messages -> Int]
  BY DEF Init, Requested
<1>2. Types
  BY <1>1, TimeoutsAssumption DEF Init, Types, NoEntries
<1>3. \A e \in Entries : queue[Dispatch(e)] = 0
  BY MessageFacts DEF Init, Requested
<1>4. KnownEntries
  BY <1>3 DEF Init, KnownEntries, NoEntries
<1>5. Jobs
  BY DEF Init, Jobs, Job
<1>6. QED
  BY <1>2, <1>4, <1>5 DEF Layer1

(* A handler takes only a message that is in the queue.                    *)
LEMMA TakenIsQueued ==
  ASSUME Types, NEW h \in Handlers, NEW m \in Messages, Take(h, m)
  PROVE  queue[m] > 0
<1>1. IsFiniteSet(InHand(m))
  BY TimeoutsAssumption, FS_Subset DEF InHand
<1>2. Cardinality(InHand(m)) \in Nat
  BY <1>1, FS_CardinalityType
<1>3. QED
  BY <1>2 DEF Take, Types

(* A step of one handler leaves the jobs of the others as they are.        *)
LEMMA OtherJobs ==
  ASSUME Jobs, NEW h \in Handlers, Job(h)',
         \A k \in Handlers \ {h} : /\ pc'[k] = pc[k] /\ job'[k] = job[k]
                                   /\ adds'[k] = adds[k] /\ deletes'[k] = deletes[k]
  PROVE  Jobs'
<1>1. SUFFICES ASSUME NEW k \in Handlers \ {h} PROVE Job(k)'
  BY DEF Jobs
<1>2. Job(k)
  BY DEF Jobs
<1>3. QED
  BY <1>2 DEF Job, Storing, Clearing, Dispatching

(* The steps of the handlers.                                              *)
LEMMA Layer1AddTimeout ==
  ASSUME Layer1, NEW h \in Handlers, NEW t \in Timeouts, NEW c \in Copies, AddTimeout(h, t, c)
  PROVE  Layer1'
<1>1. <<t, c>> \in Entries /\ TimeoutOf(<<t, c>>) = t /\ Store(t) \in Messages
  BY MessageFacts DEF Entries, TimeoutOf
<1>2. Types'
  BY <1>1 DEF Layer1, Types, AddTimeout, Take, handlerVars, runnerVars, historyVars
<1>3. KnownEntries'
  BY DEF Layer1, KnownEntries, AddTimeout, runnerVars
<1>4. pc'[h] = "push" /\ job'[h] = Store(t) /\ adds'[h] = {<<t, c>>} /\ deletes'[h] = {}
  BY DEF Layer1, Types, Jobs, Job, AddTimeout, Take
<1>5. Job(h)'
  BY <1>1, <1>4 DEF Job, Storing
<1>6. QED
  BY <1>2, <1>3, <1>5, OtherJobs DEF Layer1, Types, AddTimeout, Take

LEMMA Layer1PushTimeout ==
  ASSUME Layer1, NEW h \in Handlers, PushTimeout(h)
  PROVE  Layer1'
<1>1. adds[h] \subseteq used
  BY DEF Layer1, Types
<1>2. Types'
  BY DEF Layer1, Types, PushTimeout, runnerVars, historyVars
<1>3. KnownEntries'
  BY <1>1 DEF Layer1, Types, KnownEntries, PushTimeout, runnerVars
<1>4. pc'[h] = "commit" /\ Storing(h)'
  BY DEF Layer1, Types, Jobs, Job, Storing, PushTimeout
<1>5. Job(h)'
  BY <1>4 DEF Job
<1>6. QED
  BY <1>2, <1>3, <1>5, OtherJobs DEF Layer1, Types, PushTimeout

LEMMA Layer1ClearTimeoutsFor ==
  ASSUME Layer1, NEW h \in Handlers, NEW s \in Sagas, NEW found \in SUBSET store,
         ClearTimeoutsFor(h, s, found)
  PROVE  Layer1'
<1>1. Clear(s) \in Messages /\ found \subseteq used
  BY MessageFacts DEF Layer1, Types
<1>2. Types'
  BY <1>1 DEF Layer1, Types, ClearTimeoutsFor, Take, runnerVars, historyVars
<1>3. KnownEntries'
  BY DEF Layer1, KnownEntries, ClearTimeoutsFor, runnerVars
<1>4. pc'[h] = "clear" /\ job'[h] = Clear(s) /\ adds'[h] = {} /\ deletes'[h] = found
  BY DEF Layer1, Types, Jobs, Job, ClearTimeoutsFor, Take
<1>5. \A e \in found : Saga(e) = s
  BY DEF ClearTimeoutsFor
<1>6. Job(h)'
  BY <1>4, <1>5 DEF Job, Clearing
<1>7. QED
  BY <1>2, <1>3, <1>6, OtherJobs DEF Layer1, Types, ClearTimeoutsFor, Take

LEMMA Layer1ClearTimeout ==
  ASSUME Layer1, NEW h \in Handlers, ClearTimeout(h)
  PROVE  Layer1'
<1>1. \A e \in Entries : cache'[e] = cache[e] \/ cache'[e] = 0
  BY DEF ClearTimeout
<1>2. revoked' \subseteq used
  BY DEF Layer1, Types, KnownEntries, ClearTimeout
<1>3. Types'
  BY <1>2 DEF Layer1, Types, ClearTimeout, runnerVars
<1>4. KnownEntries'
  BY <1>1 DEF Layer1, KnownEntries, ClearTimeout, runnerVars
<1>5. pc'[h] = "commit" /\ Clearing(h)'
  BY DEF Layer1, Types, Jobs, Job, Clearing, ClearTimeout
<1>6. Job(h)'
  BY <1>5 DEF Job
<1>7. QED
  BY <1>3, <1>4, <1>6, OtherJobs DEF Layer1, Types, ClearTimeout

LEMMA Layer1HandleDispatch ==
  ASSUME Layer1, NEW h \in Handlers, NEW e \in Entries, HandleDispatch(h, e)
  PROVE  Layer1'
<1>1. Dispatch(e) \in Messages
  BY MessageFacts
<1>2. e \in used
  BY <1>1, TakenIsQueued DEF HandleDispatch, Layer1, KnownEntries
<1>3. Types'
  BY <1>1, <1>2 DEF Layer1, Types, HandleDispatch, Take, runnerVars, historyVars
<1>4. KnownEntries'
  BY DEF Layer1, KnownEntries, HandleDispatch, runnerVars
<1>5. pc'[h] = "commit" /\ job'[h] = Dispatch(e) /\ adds'[h] = {} /\ deletes'[h] = {e}
  BY DEF Layer1, Types, Jobs, Job, HandleDispatch, Take
<1>6. Job(h)'
  BY <1>5 DEF Job, Dispatching
<1>7. QED
  BY <1>3, <1>4, <1>6, OtherJobs DEF Layer1, Types, HandleDispatch, Take

(* A handler that is not idle has a message in hand.                       *)
LEMMA BusyHasMessage ==
  ASSUME Layer1, NEW h \in Handlers, pc[h] # "idle"
  PROVE  job[h] \in Messages
<1>1. Storing(h) \/ Clearing(h) \/ Dispatching(h)
  BY DEF Layer1, Types, Jobs, Job
<1>2. QED
  BY <1>1, MessageFacts, EntryFacts DEF Storing, Clearing, Dispatching

LEMMA Layer1Commit ==
  ASSUME Layer1, NEW h \in Handlers, Commit(h)
  PROVE  Layer1'
<1>1. job[h] \in Messages
  BY BusyHasMessage DEF Commit
<1>2. queue' \in [Messages -> Int] /\ \A m \in Messages : queue'[m] <= queue[m]
  BY <1>1 DEF Layer1, Types, Commit
<1>3. delivered' \in [Timeouts -> Nat]
  BY <1>1, EntryFacts DEF Layer1, Types, Commit, Messages, Store, Clear, Dispatch
<1>4. cleared' \subseteq Sagas
  BY <1>1 DEF Layer1, Types, Commit, Messages, Store, Clear, Dispatch
<1>5. Types'
  BY <1>2, <1>3, <1>4 DEF Layer1, Types, Commit, EndJob, runnerVars
<1>6. KnownEntries'
  BY <1>2, MessageFacts DEF Layer1, Types, KnownEntries, Commit, runnerVars
<1>7. Job(h)'
  BY DEF Layer1, Types, Commit, EndJob, Job
<1>8. QED
  BY <1>5, <1>6, <1>7, OtherJobs DEF Layer1, Types, Commit, EndJob

LEMMA Layer1Rollback ==
  ASSUME Layer1, NEW h \in Handlers, Rollback(h)
  PROVE  Layer1'
<1>1. Types'
  BY DEF Layer1, Types, Rollback, EndJob, Disturb, runnerVars, historyVars
<1>2. KnownEntries'
  BY DEF Layer1, KnownEntries, Rollback, runnerVars
<1>3. Job(h)'
  BY DEF Layer1, Types, Rollback, EndJob, Job
<1>4. QED
  BY <1>1, <1>2, <1>3, OtherJobs DEF Layer1, Types, Rollback, EndJob

(* The other steps leave the handlers alone, or send all of them home.     *)
LEMMA JobsKept == Jobs /\ UNCHANGED handlerVars => Jobs'
  BY DEF Jobs, Job, Storing, Clearing, Dispatching, handlerVars

LEMMA Layer1Run ==
  ASSUME Layer1, Run
  PROVE  Layer1'
<1> USE DEF Layer1
<1>1. CASE GetAll
  <2>1. Types' /\ KnownEntries'
    BY <1>1 DEF GetAll, Types, KnownEntries, handlerVars, historyVars
  <2>2. QED
    BY <1>1, <2>1, JobsKept DEF GetAll
<1>2. CASE StartPolling
  <2>1. Types' /\ KnownEntries'
    BY <1>2 DEF StartPolling, Types, KnownEntries, handlerVars, historyVars
  <2>2. QED
    BY <1>2, <2>1, JobsKept DEF StartPolling
<1>3. CASE Wake
  <2>1. Types' /\ KnownEntries'
    BY <1>3 DEF Wake, Types, KnownEntries, handlerVars, historyVars
  <2>2. QED
    BY <1>3, <2>1, JobsKept DEF Wake
<1>4. CASE SlotDispatched
  <2>1. Types' /\ KnownEntries'
    BY <1>4 DEF SlotDispatched, Types, KnownEntries, handlerVars, historyVars
  <2>2. QED
    BY <1>4, <2>1, JobsKept DEF SlotDispatched
<1>5. ASSUME NEW e \in Entries, PushExisting(e) PROVE Layer1'
  <2>1. Types' /\ KnownEntries'
    BY <1>5 DEF PushExisting, Types, KnownEntries, handlerVars, historyVars
  <2>2. QED
    BY <1>5, <2>1, JobsKept DEF PushExisting
<1>6. ASSUME NEW e \in Entries, DispatchTimeout(e) PROVE Layer1'
  <2>1. Dispatch(e) \in Messages /\ e \in used
    BY <1>6, MessageFacts DEF DispatchTimeout, KnownEntries
  <2>2. Types'
    BY <1>6, <2>1 DEF DispatchTimeout, Types, handlerVars, historyVars
  <2>3. ASSUME NEW f \in Entries, cache'[f] > 0 \/ popped'[f] > 0 \/ queue'[Dispatch(f)] > 0
        PROVE  f \in used
    <3>1. CASE f = e
      BY <2>1, <3>1
    <3>2. CASE f # e
      <4>1. Dispatch(f) # Dispatch(e) /\ Dispatch(f) \in Messages
        BY <3>2, MessageFacts
      <4>2. queue'[Dispatch(f)] = queue[Dispatch(f)] /\ popped'[f] = popped[f]
        BY <1>6, <3>2, <4>1 DEF DispatchTimeout, Types
      <4>3. QED
        BY <1>6, <2>3, <4>2 DEF DispatchTimeout, KnownEntries
    <3>3. QED
      BY <3>1, <3>2
  <2>4. KnownEntries'
    BY <1>6, <2>3 DEF DispatchTimeout, KnownEntries
  <2>5. QED
    BY <1>6, <2>2, <2>4, JobsKept DEF DispatchTimeout
<1>7. ASSUME NEW t \in Timeouts, Pop(Due[t]) PROVE Layer1'
  <2>1. Types' /\ KnownEntries'
    BY <1>7 DEF Pop, Types, KnownEntries, handlerVars, historyVars
  <2>2. QED
    BY <1>7, <2>1, JobsKept DEF Pop
<1>8. QED
  BY <1>1, <1>2, <1>3, <1>4, <1>5, <1>6, <1>7 DEF Run

LEMMA Layer1DispatchFails ==
  ASSUME Layer1, NEW e \in Entries, DispatchFails(e)
  PROVE  Layer1'
<1>1. Types'
  BY EntryFacts DEF Layer1, Types, DispatchFails, Disturb, handlerVars
<1>2. \A f \in Entries : popped'[f] > 0 => popped[f] > 0
  BY DEF Layer1, Types, DispatchFails
<1>3. KnownEntries'
  BY <1>2 DEF Layer1, KnownEntries, DispatchFails
<1>4. QED
  BY <1>1, <1>3, JobsKept DEF Layer1, DispatchFails

LEMMA Layer1Crash ==
  ASSUME Layer1, Crash
  PROVE  Layer1'
<1>1. Types'
  BY DEF Layer1, Types, Crash, Disturb, NoEntries
<1>2. KnownEntries'
  BY DEF Layer1, Types, KnownEntries, Crash, NoEntries
<1>3. Jobs'
  BY DEF Crash, Jobs, Job
<1>4. QED
  BY <1>1, <1>2, <1>3 DEF Layer1

LEMMA Layer1Tick ==
  ASSUME Layer1, Tick
  PROVE  Layer1'
<1>1. Types'
  BY TimeoutsAssumption DEF Layer1, Types, Tick, handlerVars, runnerVars, historyVars
<1>2. KnownEntries'
  BY DEF Layer1, KnownEntries, Tick, runnerVars
<1>3. QED
  BY <1>1, <1>2, JobsKept DEF Layer1, Tick

LEMMA Layer1Step == Layer1 /\ [Next]_vars => Layer1'
<1> SUFFICES ASSUME Layer1, [Next]_vars PROVE Layer1'
  OBVIOUS
<1>1. CASE UNCHANGED vars
  BY <1>1, JobsKept DEF Layer1, Types, KnownEntries, vars, handlerVars, runnerVars, historyVars
<1>2. ASSUME NEW h \in Handlers, Handle(h) PROVE Layer1'
  BY <1>2, Layer1AddTimeout, Layer1PushTimeout, Layer1ClearTimeoutsFor, Layer1ClearTimeout,
     Layer1HandleDispatch, Layer1Commit DEF Handle
<1>3. QED
  BY <1>1, <1>2, Layer1Run, Layer1Rollback, Layer1DispatchFails, Layer1Crash, Layer1Tick
     DEF Next

LEMMA Layer1Correct == Spec => []Layer1
  BY Layer1Init, Layer1Step, PTL DEF Spec
-----------------------------------------------------------------------------
(* Layer 2: no more handlers have a message in hand than the queue has     *)
(* copies of it, so that a commit always has one to consume.               *)

EveryHandIsQueued == \A m \in Messages : Cardinality(InHand(m)) <= queue[m]

LEMMA InHandFinite ==
  \A m : IsFiniteSet(InHand(m)) /\ Cardinality(InHand(m)) \in Nat
<1> SUFFICES ASSUME NEW m PROVE IsFiniteSet(InHand(m)) /\ Cardinality(InHand(m)) \in Nat
  OBVIOUS
<1>1. IsFiniteSet(InHand(m))
  BY TimeoutsAssumption, FS_Subset DEF InHand
<1>2. QED
  BY <1>1, FS_CardinalityType

LEMMA InHandFinite2 ==
  \A m : IsFiniteSet(InHand(m)') /\ Cardinality(InHand(m)') \in Nat
<1> SUFFICES ASSUME NEW m PROVE IsFiniteSet(InHand(m)') /\ Cardinality(InHand(m)') \in Nat
  OBVIOUS
<1>1. IsFiniteSet(InHand(m)')
  BY TimeoutsAssumption, FS_Subset DEF InHand
<1>2. QED
  BY <1>1, FS_CardinalityType

(* Fewer hands and no fewer messages.                                      *)
LEMMA HandsKept ==
  ASSUME EveryHandIsQueued, Types, Types',
         \A m \in Messages : InHand(m)' \subseteq InHand(m) /\ queue'[m] >= queue[m]
  PROVE  EveryHandIsQueued'
<1> SUFFICES ASSUME NEW m \in Messages PROVE Cardinality(InHand(m)') <= queue'[m]
  BY DEF EveryHandIsQueued
<1>1. Cardinality(InHand(m)') <= Cardinality(InHand(m))
  BY InHandFinite, FS_Subset
<1>2. Cardinality(InHand(m)) <= queue[m] /\ queue'[m] >= queue[m]
  BY DEF EveryHandIsQueued
<1>3. queue[m] \in Int /\ queue'[m] \in Int
  BY DEF Types
<1>4. QED
  BY <1>1, <1>2, <1>3, InHandFinite, InHandFinite2

LEMMA HandsAfterTake ==
  ASSUME EveryHandIsQueued, Layer1, NEW h \in Handlers, NEW m \in Messages,
         Take(h, m), queue' = queue
  PROVE  EveryHandIsQueued'
<1> SUFFICES ASSUME NEW n \in Messages PROVE Cardinality(InHand(n)') <= queue'[n]
  BY DEF EveryHandIsQueued
<1>1. job[h] = NoMessage /\ job'[h] = m
  BY DEF Layer1, Types, Jobs, Job, Take
<1>2. CASE n = m
  <2>1. InHand(n)' = InHand(n) \cup {h} /\ h \notin InHand(n)
    BY <1>1, <1>2, NoMessageAssumption DEF Layer1, Types, Take, InHand
  <2>2. Cardinality(InHand(n)') = Cardinality(InHand(n)) + 1
    BY <2>1, InHandFinite, FS_AddElement
  <2>3. QED
    BY <1>2, <2>2, InHandFinite DEF Take, Layer1, Types
<1>3. CASE n # m
  <2>1. InHand(n)' = InHand(n)
    BY <1>1, <1>3, NoMessageAssumption DEF Layer1, Types, Take, InHand
  <2>2. QED
    BY <2>1 DEF EveryHandIsQueued
<1>4. QED
  BY <1>2, <1>3

LEMMA HandsAfterCommit ==
  ASSUME EveryHandIsQueued, Layer1, NEW h \in Handlers, Commit(h)
  PROVE  EveryHandIsQueued'
<1> SUFFICES ASSUME NEW n \in Messages PROVE Cardinality(InHand(n)') <= queue'[n]
  BY DEF EveryHandIsQueued
<1>1. job[h] \in Messages /\ job'[h] = NoMessage
  BY BusyHasMessage DEF Commit, EndJob, Layer1, Types
<1>2. CASE n = job[h]
  <2>1. InHand(n)' = InHand(n) \ {h} /\ h \in InHand(n)
    BY <1>1, <1>2, NoMessageAssumption DEF Layer1, Types, Commit, EndJob, InHand
  <2>2. Cardinality(InHand(n)') = Cardinality(InHand(n)) - 1
    BY <2>1, InHandFinite, FS_RemoveElement
  <2>3. queue'[n] = queue[n] - 1 /\ queue[n] \in Int
    BY <1>1, <1>2 DEF Commit, Layer1, Types
  <2>4. QED
    BY <2>2, <2>3, InHandFinite DEF EveryHandIsQueued
<1>3. CASE n # job[h]
  <2>1. InHand(n)' = InHand(n)
    BY <1>1, <1>3, NoMessageAssumption DEF Layer1, Types, Commit, EndJob, InHand
  <2>2. queue'[n] = queue[n]
    BY <1>3 DEF Commit, Layer1, Types
  <2>3. QED
    BY <2>1, <2>2 DEF EveryHandIsQueued
<1>4. QED
  BY <1>2, <1>3

LEMMA HandsInit == Init => EveryHandIsQueued
<1> SUFFICES ASSUME Init, NEW m \in Messages PROVE Cardinality(InHand(m)) <= queue[m]
  BY DEF EveryHandIsQueued
<1>1. InHand(m) = {}
  BY NoMessageAssumption DEF Init, InHand
<1>2. queue[m] \in {0, 1}
  BY DEF Init, Requested
<1>3. QED
  BY <1>1, <1>2, FS_EmptySet

LEMMA HandsStep == Layer1 /\ EveryHandIsQueued /\ [Next]_vars => EveryHandIsQueued'
<1> SUFFICES ASSUME Layer1, EveryHandIsQueued, [Next]_vars PROVE EveryHandIsQueued'
  OBVIOUS
<1>t. Types /\ Types'
  BY Layer1Step DEF Layer1
<1>1. ASSUME job' = job, queue' = queue PROVE EveryHandIsQueued'
  BY <1>1 DEF EveryHandIsQueued, InHand
<1>2. ASSUME NEW h \in Handlers, Handle(h) PROVE EveryHandIsQueued'
  <2>1. ASSUME NEW t \in Timeouts, NEW c \in Copies, AddTimeout(h, t, c)
        PROVE  EveryHandIsQueued'
    BY <2>1, HandsAfterTake, MessageFacts DEF AddTimeout
  <2>2. ASSUME NEW s \in Sagas, NEW found \in SUBSET store, ClearTimeoutsFor(h, s, found)
        PROVE  EveryHandIsQueued'
    BY <2>2, HandsAfterTake, MessageFacts DEF ClearTimeoutsFor
  <2>3. ASSUME NEW e \in Entries, HandleDispatch(h, e) PROVE EveryHandIsQueued'
    BY <2>3, HandsAfterTake, MessageFacts DEF HandleDispatch
  <2>4. CASE PushTimeout(h)
    BY <1>1, <2>4 DEF PushTimeout
  <2>5. CASE ClearTimeout(h)
    BY <1>1, <2>5 DEF ClearTimeout
  <2>6. QED
    BY <1>2, <2>1, <2>2, <2>3, <2>4, <2>5, HandsAfterCommit DEF Handle
<1>3. ASSUME NEW h \in Handlers, Rollback(h) PROVE EveryHandIsQueued'
  <2>1. \A m \in Messages : InHand(m)' \subseteq InHand(m)
    BY <1>t, <1>3, NoMessageAssumption DEF Rollback, EndJob, InHand, Types
  <2>2. QED
    BY <1>t, <1>3, <2>1, HandsKept DEF Rollback, Types
<1>4. ASSUME NEW e \in Entries, DispatchTimeout(e) PROVE EveryHandIsQueued'
  <2>1. \A m \in Messages : InHand(m)' \subseteq InHand(m)
    BY <1>4 DEF DispatchTimeout, handlerVars, InHand
  <2>2. \A m \in Messages : queue'[m] >= queue[m]
    BY <1>t, <1>4 DEF DispatchTimeout, Types
  <2>3. QED
    BY <1>t, <2>1, <2>2, HandsKept
<1>5. CASE Crash
  <2>1. \A m \in Messages : InHand(m)' \subseteq InHand(m)
    BY <1>5, NoMessageAssumption DEF Crash, InHand
  <2>2. QED
    BY <1>t, <1>5, <2>1, HandsKept DEF Crash, Types
<1>6. CASE Run
  <2>1. ASSUME NEW e \in Entries, PushExisting(e) PROVE EveryHandIsQueued'
    BY <1>1, <2>1 DEF PushExisting, handlerVars
  <2>2. ASSUME NEW t \in Timeouts, Pop(Due[t]) PROVE EveryHandIsQueued'
    BY <1>1, <2>2 DEF Pop, handlerVars
  <2>3. CASE GetAll \/ StartPolling \/ Wake \/ SlotDispatched
    BY <1>1, <2>3 DEF GetAll, StartPolling, Wake, SlotDispatched, handlerVars
  <2>4. QED
    BY <1>4, <1>6, <2>1, <2>2, <2>3 DEF Run
<1>7. ASSUME NEW e \in Entries, DispatchFails(e) PROVE EveryHandIsQueued'
  BY <1>1, <1>7 DEF DispatchFails, handlerVars
<1>8. CASE Tick
  BY <1>1, <1>8 DEF Tick, handlerVars
<1>9. CASE UNCHANGED vars
  BY <1>1, <1>9 DEF vars, handlerVars
<1>10. QED
  BY <1>2, <1>3, <1>5, <1>6, <1>7, <1>8, <1>9 DEF Next

LEMMA HandsCorrect == Spec => []EveryHandIsQueued
  BY HandsInit, HandsStep, Layer1Correct, PTL DEF Spec

(* A message that is consumed was in the queue: the counts of the queue    *)
(* never go below zero, whatever the handlers take, commit and roll back.  *)
THEOREM TypeCorrect == Spec => []TypeOK
<1>1. Layer1 /\ EveryHandIsQueued => TypeOK
  <2> SUFFICES ASSUME Layer1, EveryHandIsQueued PROVE TypeOK
    OBVIOUS
  <2>1. \A m \in Messages : queue[m] \in Nat
    BY InHandFinite DEF EveryHandIsQueued, Layer1, Types
  <2>2. queue \in [Messages -> Nat]
    BY <2>1 DEF Layer1, Types
  <2>3. QED
    BY <2>2 DEF Layer1, Types, TypeOK
<1>2. QED
  BY <1>1, Layer1Correct, HandsCorrect, PTL
-----------------------------------------------------------------------------
(* No timeout is lost: with the layer of the jobs the property is          *)
(* inductive, for only a commit takes anything out of the queue or the     *)
(* store, and each kind of transaction leaves its timeout somewhere.       *)

Kept(t) ==
  \/ delivered[t] > 0
  \/ SagaOf[t] \in cleared
  \/ queue[Store(t)] > 0
  \/ \E e \in Entries : TimeoutOf(e) = t /\ (e \in store \/ queue[Dispatch(e)] > 0)

LEMMA KeptByCommit ==
  ASSUME Layer1, NEW h \in Handlers, Commit(h), NEW t \in Timeouts, Kept(t)
  PROVE  Kept(t)'
<1> USE DEF Layer1
<1>q. \A m \in Messages : m # job[h] => queue'[m] = queue[m]
  BY BusyHasMessage DEF Commit, Types
<1>1. CASE Storing(h)
  <2>1. PICK e \in Entries : job[h] = Store(TimeoutOf(e)) /\ adds[h] = {e} /\ deletes[h] = {}
    BY <1>1 DEF Storing
  <2>2. store' = store \cup {e} /\ delivered' = delivered /\ cleared' = cleared
    BY <2>1, MessageFacts DEF Commit
  <2>3. \A f \in Entries : queue'[Dispatch(f)] = queue[Dispatch(f)]
    BY <1>q, <2>1, MessageFacts
  <2>4. CASE TimeoutOf(e) = t
    BY <2>2, <2>4 DEF Kept
  <2>5. CASE TimeoutOf(e) # t
    <3>1. queue'[Store(t)] = queue[Store(t)]
      BY <1>q, <2>1, <2>5, MessageFacts
    <3>2. QED
      BY <2>2, <2>3, <3>1 DEF Kept
  <2>6. QED
    BY <2>4, <2>5
<1>2. CASE Clearing(h)
  <2>1. PICK s \in Sagas : job[h] = Clear(s) /\ adds[h] = {} /\ \A e \in deletes[h] : Saga(e) = s
    BY <1>2 DEF Clearing
  <2>2. store' = store \ deletes[h] /\ delivered' = delivered /\ cleared' = cleared \cup {s}
    BY <2>1, MessageFacts DEF Commit
  <2>3. queue'[Store(t)] = queue[Store(t)]
        /\ \A f \in Entries : queue'[Dispatch(f)] = queue[Dispatch(f)]
    BY <1>q, <2>1, MessageFacts
  <2>4. CASE SagaOf[t] = s
    BY <2>2, <2>4 DEF Kept
  <2>5. CASE SagaOf[t] # s
    <3>1. \A e \in Entries : TimeoutOf(e) = t => e \notin deletes[h]
      BY <2>1, <2>5, EntryFacts
    <3>2. QED
      BY <2>2, <2>3, <3>1 DEF Kept
  <2>6. QED
    BY <2>4, <2>5
<1>3. CASE Dispatching(h)
  <2>1. PICK e \in Entries : job[h] = Dispatch(e) /\ adds[h] = {} /\ deletes[h] \subseteq {e}
    BY <1>3 DEF Dispatching
  <2>2. /\ store \ {e} \subseteq store' /\ cleared' = cleared
        /\ delivered' = [delivered EXCEPT ![TimeoutOf(e)] = @ + 1]
    BY <2>1, MessageFacts DEF Commit
  <2>3. CASE TimeoutOf(e) = t
    BY <2>2, <2>3 DEF Kept, Types
  <2>4. CASE TimeoutOf(e) # t
    <3>1. delivered'[t] = delivered[t] /\ queue'[Store(t)] = queue[Store(t)]
      BY <1>q, <2>1, <2>2, <2>4, MessageFacts DEF Types
    <3>2. ASSUME NEW f \in Entries, TimeoutOf(f) = t
          PROVE  queue'[Dispatch(f)] = queue[Dispatch(f)] /\ f # e
      BY <1>q, <2>1, <2>4, <3>2, MessageFacts
    <3>3. QED
      BY <2>2, <3>1, <3>2 DEF Kept
  <2>5. QED
    BY <2>3, <2>4
<1>4. QED
  BY <1>1, <1>2, <1>3 DEF Commit, Jobs, Job, Types

(* Every other step takes nothing out of the queue or the store.           *)
LEMMA KeptOtherwise ==
  ASSUME Types, Types', NEW t \in Timeouts, Kept(t),
         \A m \in Messages : queue'[m] >= queue[m],
         UNCHANGED <<store, delivered, cleared>>
  PROVE  Kept(t)'
<1>1. \A m \in Messages : queue[m] > 0 => queue'[m] > 0
  BY DEF Types
<1>2. QED
  BY <1>1, MessageFacts DEF Kept

LEMMA KeptStep ==
  ASSUME Layer1, [Next]_vars, NEW t \in Timeouts, Kept(t)
  PROVE  Kept(t)'
<1>t. Types /\ Types'
  BY Layer1Step DEF Layer1
<1>q. ASSUME UNCHANGED <<queue, store, delivered, cleared>> PROVE Kept(t)'
  BY <1>q DEF Kept
<1>1. CASE UNCHANGED vars
  BY <1>q, <1>1 DEF vars, historyVars
<1>2. ASSUME NEW h \in Handlers, Handle(h) PROVE Kept(t)'
  BY <1>q, <1>2, KeptByCommit DEF Handle, AddTimeout, PushTimeout, ClearTimeoutsFor,
     ClearTimeout, HandleDispatch, historyVars
<1>3. ASSUME NEW h \in Handlers, Rollback(h) PROVE Kept(t)'
  BY <1>q, <1>3 DEF Rollback, historyVars
<1>4. ASSUME NEW e \in Entries, DispatchTimeout(e) PROVE Kept(t)'
  <2>1. \A m \in Messages : queue'[m] >= queue[m]
    BY <1>t, <1>4 DEF DispatchTimeout, Types
  <2>2. QED
    BY <1>t, <1>4, <2>1, KeptOtherwise DEF DispatchTimeout, historyVars
<1>5. ASSUME NEW e \in Entries, PushExisting(e) PROVE Kept(t)'
  BY <1>q, <1>5 DEF PushExisting, historyVars
<1>6. ASSUME NEW u \in Timeouts, Pop(Due[u]) PROVE Kept(t)'
  BY <1>q, <1>6 DEF Pop, historyVars
<1>7. CASE GetAll \/ StartPolling \/ Wake \/ SlotDispatched
  BY <1>q, <1>7 DEF GetAll, StartPolling, Wake, SlotDispatched, historyVars
<1>8. ASSUME NEW e \in Entries, DispatchFails(e) PROVE Kept(t)'
  BY <1>q, <1>8 DEF DispatchFails
<1>9. CASE Tick \/ Crash
  BY <1>q, <1>9 DEF Tick, Crash, historyVars
<1>10. QED
  BY <1>1, <1>2, <1>3, <1>4, <1>5, <1>6, <1>7, <1>8, <1>9 DEF Next, Run

(* However the process crashes and the transactions roll back, a timeout   *)
(* that was requested is delivered, cleared with its saga, or waiting: in  *)
(* the store or as a message in the manager's queue.                       *)
THEOREM NothingLostCorrect == Spec => []NothingLost
<1>1. NothingLost <=> \A t \in Timeouts : Kept(t)
  BY DEF NothingLost, Kept
<1>2. Init => \A t \in Timeouts : Kept(t)
  BY MessageFacts DEF Init, Requested, Kept
<1>3. Layer1 /\ (\A t \in Timeouts : Kept(t)) /\ [Next]_vars => (\A t \in Timeouts : Kept(t))'
  BY KeptStep
<1>4. Init => NothingLost
  BY <1>1, <1>2
<1>5. Layer1 /\ NothingLost /\ [Next]_vars => NothingLost'
  BY <1>3 DEF NothingLost, Kept
<1>6. QED
  BY <1>4, <1>5, Layer1Correct, PTL DEF Spec
-----------------------------------------------------------------------------
(* No timeout is early: a dispatch request exists only for what is due,    *)
(* since the polling thread sends it after it slept until the slot's time. *)

RequestsAreDue ==
  /\ \A e \in Entries : queue[Dispatch(e)] > 0 => DueAt(e) <= now
  /\ polling = "dispatch" => \A e \in Entries : popped[e] > 0 => DueAt(e) <= now
  /\ \A h \in Handlers, e \in Entries : job[h] = Dispatch(e) => DueAt(e) <= now

Punctual == RequestsAreDue /\ NeverEarly

LEMMA PunctualInit == Init => Punctual
<1> SUFFICES ASSUME Init PROVE Punctual
  OBVIOUS
<1>1. \A e \in Entries : queue[Dispatch(e)] = 0 /\ Dispatch(e) # NoMessage
  BY MessageFacts, NoMessageAssumption DEF Init, Requested
<1>2. QED
  BY <1>1 DEF Init, Punctual, RequestsAreDue, NeverEarly

LEMMA PunctualHandle ==
  ASSUME Layer1, Layer1', Punctual, NEW h \in Handlers, Handle(h)
  PROVE  Punctual'
<1> USE DEF Punctual, RequestsAreDue, NeverEarly
<1>n. \A e \in Entries : Dispatch(e) # NoMessage
  BY MessageFacts, NoMessageAssumption
<1>1. ASSUME NEW t \in Timeouts, NEW c \in Copies, AddTimeout(h, t, c) PROVE Punctual'
  BY <1>1, MessageFacts DEF AddTimeout, Take, runnerVars, historyVars, Layer1, Types
<1>2. ASSUME NEW s \in Sagas, NEW found \in SUBSET store, ClearTimeoutsFor(h, s, found)
      PROVE  Punctual'
  BY <1>2, MessageFacts DEF ClearTimeoutsFor, Take, runnerVars, historyVars, Layer1, Types
<1>3. ASSUME NEW e \in Entries, HandleDispatch(h, e) PROVE Punctual'
  <2>1. DueAt(e) <= now
    BY <1>3, MessageFacts, TakenIsQueued DEF HandleDispatch, Layer1
  <2>2. \A f \in Entries : Dispatch(f) = Dispatch(e) => f = e
    BY MessageFacts
  <2>3. QED
    BY <1>3, <2>1, <2>2 DEF HandleDispatch, Take, runnerVars, historyVars, Layer1, Types
<1>4. CASE PushTimeout(h)
  BY <1>4 DEF PushTimeout, runnerVars, historyVars
<1>5. CASE ClearTimeout(h)
  BY <1>5 DEF ClearTimeout, runnerVars
<1>6. CASE Commit(h)
  <2>1. \A m \in Messages : queue'[m] > 0 => queue[m] > 0
    BY <1>6, BusyHasMessage DEF Commit, Layer1, Types
  <2>2. \A k \in Handlers : job'[k] = job[k] \/ job'[k] = NoMessage
    BY <1>6 DEF Commit, EndJob, Layer1, Types
  <2>3. ASSUME NEW t \in Timeouts, delivered'[t] > 0 PROVE Due[t] <= now
    <3>1. CASE delivered[t] > 0
      BY <3>1
    <3>2. CASE ~ delivered[t] > 0
      <4>1. job[h].type = "dispatch"
        BY <1>6, <2>3, <3>2 DEF Commit
      <4>2. PICK e \in Entries : job[h] = Dispatch(e)
        BY <4>1, <1>6, BusyHasMessage DEF Commit, Messages, Store, Clear
      <4>3. TimeoutOf(e) = t
        BY <1>6, <2>3, <3>2, <4>2, MessageFacts DEF Commit, Layer1, Types
      <4>4. QED
        BY <4>2, <4>3 DEF DueAt
    <3>3. QED
      BY <3>1, <3>2
  <2>4. QED
    BY <1>6, <1>n, <2>1, <2>2, <2>3, MessageFacts DEF Commit, runnerVars
<1>7. QED
  BY <1>1, <1>2, <1>3, <1>4, <1>5, <1>6 DEF Handle

LEMMA PunctualRun ==
  ASSUME Layer1, Layer1', Punctual, Run
  PROVE  Punctual'
<1> USE DEF Punctual, RequestsAreDue, NeverEarly
<1>1. CASE GetAll \/ StartPolling \/ SlotDispatched
  BY <1>1 DEF GetAll, StartPolling, SlotDispatched, handlerVars, historyVars
<1>2. CASE Wake
  BY <1>2 DEF Wake, handlerVars, historyVars
<1>3. ASSUME NEW e \in Entries, PushExisting(e) PROVE Punctual'
  BY <1>3 DEF PushExisting, handlerVars, historyVars
<1>4. ASSUME NEW t \in Timeouts, Pop(Due[t]) PROVE Punctual'
  BY <1>4 DEF Pop, handlerVars, historyVars
<1>5. ASSUME NEW e \in Entries, DispatchTimeout(e) PROVE Punctual'
  <2>1. DueAt(e) <= now
    BY <1>5 DEF DispatchTimeout
  <2>2. \A f \in Entries : f # e => queue'[Dispatch(f)] = queue[Dispatch(f)]
    BY <1>5, MessageFacts DEF DispatchTimeout, Layer1, Types
  <2>3. \A f \in Entries : popped'[f] > 0 => popped[f] > 0
    BY <1>5 DEF DispatchTimeout, Layer1, Types
  <2>4. QED
    BY <1>5, <2>1, <2>2, <2>3 DEF DispatchTimeout, handlerVars, historyVars
<1>6. QED
  BY <1>1, <1>2, <1>3, <1>4, <1>5 DEF Run

LEMMA PunctualStep == Layer1 /\ Punctual /\ [Next]_vars => Punctual'
<1> SUFFICES ASSUME Layer1, Punctual, [Next]_vars PROVE Punctual'
  OBVIOUS
<1> USE DEF Punctual, RequestsAreDue, NeverEarly
<1>t. Layer1'
  BY Layer1Step
<1>n. \A e \in Entries : Dispatch(e) # NoMessage
  BY MessageFacts, NoMessageAssumption
<1>1. CASE UNCHANGED vars
  BY <1>1 DEF vars, handlerVars, runnerVars, historyVars
<1>2. CASE Tick
  <2>1. \A e \in Entries : DueAt(e) \in Nat
    BY EntryFacts
  <2>2. \A t \in Timeouts : Due[t] \in Nat
    BY TimeoutsAssumption
  <2>3. QED
    BY <1>2, <2>1, <2>2 DEF Tick, handlerVars, runnerVars, historyVars, Layer1, Types
<1>3. CASE Crash
  BY <1>3, <1>n DEF Crash
<1>4. ASSUME NEW h \in Handlers, Rollback(h) PROVE Punctual'
  BY <1>4, <1>n DEF Rollback, EndJob, runnerVars, historyVars, Layer1, Types
<1>5. ASSUME NEW e \in Entries, DispatchFails(e) PROVE Punctual'
  <2>1. \A f \in Entries : popped'[f] > 0 => popped[f] > 0
    BY <1>5 DEF DispatchFails, Layer1, Types
  <2>2. QED
    BY <1>5, <2>1 DEF DispatchFails, handlerVars
<1>6. QED
  BY <1>t, <1>1, <1>2, <1>3, <1>4, <1>5, PunctualHandle, PunctualRun DEF Next

(* The polling thread sleeps until the slot it took is due, and nothing    *)
(* that is sent to a destination was requested by anyone else.             *)
THEOREM NeverEarlyCorrect == Spec => []NeverEarly
<1>1. Punctual => NeverEarly
  BY DEF Punctual
<1>2. QED
  BY <1>1, PunctualInit, PunctualStep, Layer1Correct, PTL DEF Spec
-----------------------------------------------------------------------------
(* What ClearTimeout took from the cache is not dispatched while the       *)
(* process lives, when the cache is filled before the handlers start: an   *)
(* entry is then only once in memory, and each id is pushed only once.     *)

Pushing(h, e) == pc[h] = "push" /\ e \in adds[h]

OnceInMemory ==
  \A e \in Entries :
    /\ cache[e] + popped[e] <= 1
    /\ e \in loading => cache[e] = 0 /\ popped[e] = 0
    /\ \A h \in Handlers : Pushing(h, e) => cache[e] = 0 /\ popped[e] = 0
    /\ \A h, k \in Handlers : Pushing(h, e) /\ Pushing(k, e) => h = k

RevokedGone ==
  \A e \in revoked :
    /\ cache[e] = 0 /\ popped[e] = 0 /\ e \notin loading
    /\ \A h \in Handlers : ~ Pushing(h, e)

StartsQuiet ==
  /\ polling \in {"getAll", "loading"} =>
       /\ \A h \in Handlers : pc[h] = "idle"
       /\ popped = NoEntries
       /\ revoked = {}
  /\ polling = "getAll" => cache = NoEntries
  /\ polling # "loading" => loading = {}

CacheFirst == OnceInMemory /\ RevokedGone /\ StartsQuiet

LEMMA CacheFirstInit == Init => CacheFirst
  BY DEF Init, CacheFirst, OnceInMemory, RevokedGone, StartsQuiet, NoEntries, Pushing

LEMMA CacheFirstHandle ==
  ASSUME Layer1, CacheFirst, ~ handlersFirst, NEW h \in Handlers, Handle(h)
  PROVE  CacheFirst'
<1> USE DEF CacheFirst
<1>1. ASSUME NEW t \in Timeouts, NEW c \in Copies, AddTimeout(h, t, c) PROVE CacheFirst'
  <2> DEFINE new == <<t, c>>
  <2>1. new \in Entries /\ new \notin used
    BY <1>1 DEF AddTimeout, Entries
  <2>2. /\ cache[new] = 0 /\ popped[new] = 0 /\ new \notin loading /\ new \notin revoked
        /\ \A k \in Handlers : new \notin adds[k]
    BY <2>1 DEF Layer1, Types, KnownEntries
  <2>3. \A k \in Handlers, e \in Entries :
          Pushing(k, e)' => Pushing(k, e) \/ (k = h /\ e = new)
    BY <1>1 DEF Pushing, AddTimeout, Layer1, Types
  <2>4. UNCHANGED <<cache, polling, loading, popped, revoked>>
    BY <1>1 DEF AddTimeout, runnerVars, historyVars
  <2>5. revoked \subseteq Entries
    BY DEF Layer1, Types
  <2>6. OnceInMemory'
    BY <2>2, <2>3, <2>4 DEF OnceInMemory, Pushing
  <2>7. RevokedGone'
    BY <2>2, <2>3, <2>4, <2>5 DEF RevokedGone
  <2>8. StartsQuiet'
    BY <1>1, <2>4 DEF StartsQuiet, AddTimeout, Take, Running, NoEntries
  <2>9. QED
    BY <2>6, <2>7, <2>8
<1>2. CASE PushTimeout(h)
  <2>1. polling \notin {"getAll", "loading"}
    BY <1>2 DEF PushTimeout, StartsQuiet
  <2>2. \A k \in Handlers, e \in Entries : Pushing(k, e)' => Pushing(k, e) /\ k # h
    BY <1>2 DEF Pushing, PushTimeout, Layer1, Types
  <2>3. \A e \in Entries : e \in adds[h] => Pushing(h, e)
    BY <1>2 DEF PushTimeout, Pushing
  <2>4. UNCHANGED <<polling, loading, popped, revoked>>
    BY <1>2 DEF PushTimeout, runnerVars, historyVars
  <2>5. \A e \in Entries : cache'[e] = IF e \in adds[h] THEN cache[e] + 1 ELSE cache[e]
    BY <1>2 DEF PushTimeout
  <2>6. revoked \subseteq Entries /\ loading = {}
    BY <2>1 DEF Layer1, Types, StartsQuiet
  <2>7. OnceInMemory'
    BY <2>2, <2>3, <2>4, <2>5, <2>6 DEF OnceInMemory, Layer1, Types
  <2>8. RevokedGone'
    BY <2>2, <2>3, <2>4, <2>5, <2>6 DEF RevokedGone
  <2>9. StartsQuiet'
    BY <2>1, <2>4 DEF StartsQuiet
  <2>10. QED
    BY <2>7, <2>8, <2>9
<1>3. CASE ClearTimeout(h)
  <2>1. polling \notin {"getAll", "loading"}
    BY <1>3 DEF ClearTimeout, StartsQuiet
  <2>2. \A k \in Handlers, e \in Entries : Pushing(k, e)' => Pushing(k, e)
    BY <1>3 DEF Pushing, ClearTimeout, Layer1, Types
  <2>3. UNCHANGED <<polling, loading, popped>>
    BY <1>3 DEF ClearTimeout, runnerVars
  <2>4. \A e \in Entries : cache'[e] = 0 \/ cache'[e] = cache[e]
    BY <1>3 DEF ClearTimeout
  <2>5. \A e \in revoked' : e \in revoked \/ (e \in Entries /\ cache[e] > 0 /\ cache'[e] = 0)
    BY <1>3 DEF ClearTimeout
  <2>6. OnceInMemory'
    BY <2>2, <2>3, <2>4 DEF OnceInMemory, Layer1, Types
  <2>7. ASSUME NEW e \in revoked'
        PROVE  /\ cache'[e] = 0 /\ popped'[e] = 0 /\ e \notin loading'
               /\ \A k \in Handlers : ~ Pushing(k, e)'
    <3>1. e \in Entries
      BY <2>5 DEF Layer1, Types
    <3>2. CASE e \in revoked
      BY <2>2, <2>3, <2>4, <3>1, <3>2 DEF RevokedGone
    <3>3. CASE cache[e] > 0 /\ cache'[e] = 0
      <4>1. popped[e] = 0 /\ e \notin loading /\ \A k \in Handlers : ~ Pushing(k, e)
        BY <3>1, <3>3 DEF OnceInMemory, Layer1, Types
      <4>2. QED
        BY <2>2, <2>3, <3>1, <3>3, <4>1
    <3>4. QED
      BY <2>5, <3>2, <3>3
  <2>8. RevokedGone'
    BY <2>7 DEF RevokedGone
  <2>9. StartsQuiet'
    BY <2>1, <2>3 DEF StartsQuiet
  <2>10. QED
    BY <2>6, <2>8, <2>9
<1>4. ASSUME UNCHANGED <<cache, polling, loading, popped, revoked>>,
             polling \notin {"getAll", "loading"},
             \A k \in Handlers, e \in Entries : Pushing(k, e)' => Pushing(k, e)
      PROVE  CacheFirst'
  <2>1. OnceInMemory'
    BY <1>4 DEF OnceInMemory
  <2>2. RevokedGone'
    BY <1>4 DEF RevokedGone, Layer1, Types
  <2>3. StartsQuiet'
    BY <1>4 DEF StartsQuiet
  <2>4. QED
    BY <2>1, <2>2, <2>3
<1>5. ASSUME NEW s \in Sagas, NEW found \in SUBSET store, ClearTimeoutsFor(h, s, found)
      PROVE  CacheFirst'
  <2>1. polling \notin {"getAll", "loading"}
    BY <1>5 DEF ClearTimeoutsFor, Take, Running
  <2>2. \A k \in Handlers, e \in Entries : Pushing(k, e)' => Pushing(k, e)
    BY <1>5 DEF ClearTimeoutsFor, Pushing, Layer1, Types
  <2>3. QED
    BY <1>4, <1>5, <2>1, <2>2 DEF ClearTimeoutsFor, runnerVars, historyVars
<1>6. ASSUME NEW e \in Entries, HandleDispatch(h, e) PROVE CacheFirst'
  <2>1. polling \notin {"getAll", "loading"}
    BY <1>6 DEF HandleDispatch, Take, Running
  <2>2. \A k \in Handlers, f \in Entries : Pushing(k, f)' => Pushing(k, f)
    BY <1>6 DEF HandleDispatch, Pushing, Layer1, Types
  <2>3. QED
    BY <1>4, <1>6, <2>1, <2>2 DEF HandleDispatch, runnerVars, historyVars
<1>7. CASE Commit(h)
  <2>1. polling \notin {"getAll", "loading"}
    BY <1>7 DEF Commit, StartsQuiet
  <2>2. \A k \in Handlers, f \in Entries : Pushing(k, f)' => Pushing(k, f)
    BY <1>7 DEF Commit, EndJob, Pushing, Layer1, Types
  <2>3. QED
    BY <1>4, <1>7, <2>1, <2>2 DEF Commit, runnerVars
<1>8. QED
  BY <1>1, <1>2, <1>3, <1>5, <1>6, <1>7 DEF Handle

LEMMA CacheFirstRun ==
  ASSUME Layer1, CacheFirst, Run
  PROVE  CacheFirst'
<1> USE DEF CacheFirst
<1>p. ASSUME UNCHANGED handlerVars PROVE \A k, e : Pushing(k, e)' <=> Pushing(k, e)
  BY <1>p DEF Pushing, handlerVars
<1>e. revoked \subseteq Entries /\ loading \subseteq Entries
  BY DEF Layer1, Types
<1>1. CASE GetAll
  <2>1. OnceInMemory' /\ RevokedGone' /\ StartsQuiet'
    BY <1>1 DEF GetAll, OnceInMemory, RevokedGone, StartsQuiet, handlerVars, historyVars,
       NoEntries, Pushing
  <2>2. QED
    BY <2>1
<1>2. CASE StartPolling \/ Wake \/ SlotDispatched
  <2>1. UNCHANGED <<handlerVars, cache, loading, popped, revoked>> /\ polling' # "getAll"
        /\ polling' # "loading" /\ loading' = {}
    BY <1>2 DEF StartPolling, Wake, SlotDispatched, historyVars, StartsQuiet
  <2>2. OnceInMemory' /\ RevokedGone'
    BY <1>p, <2>1 DEF OnceInMemory, RevokedGone
  <2>3. StartsQuiet'
    BY <2>1 DEF StartsQuiet
  <2>4. QED
    BY <2>2, <2>3
<1>3. ASSUME NEW e \in Entries, PushExisting(e) PROVE CacheFirst'
  <2>1. \A h \in Handlers, f \in Entries : ~ Pushing(h, f)'
    BY <1>3 DEF PushExisting, StartsQuiet, handlerVars, Pushing
  <2>2. revoked' = {}
    BY <1>3 DEF PushExisting, StartsQuiet, historyVars
  <2>3. OnceInMemory'
    BY <1>3, <2>1 DEF PushExisting, OnceInMemory, Layer1, Types
  <2>4. RevokedGone' /\ StartsQuiet'
    BY <1>3, <2>2 DEF PushExisting, RevokedGone, StartsQuiet, handlerVars, historyVars, NoEntries
  <2>5. QED
    BY <2>3, <2>4
<1>4. ASSUME NEW e \in Entries, DispatchTimeout(e) PROVE CacheFirst'
  <2>1. \A f \in Entries : popped'[f] <= popped[f] /\ popped'[f] \in Nat
    BY <1>4 DEF DispatchTimeout, Layer1, Types
  <2>2. UNCHANGED <<handlerVars, cache, loading, revoked, polling>> /\ polling = "dispatch"
    BY <1>4 DEF DispatchTimeout, historyVars
  <2>3. OnceInMemory'
    BY <1>p, <2>1, <2>2 DEF OnceInMemory, Layer1, Types
  <2>4. RevokedGone'
    BY <1>p, <1>e, <2>1, <2>2 DEF RevokedGone, Layer1, Types
  <2>5. StartsQuiet'
    BY <2>2 DEF StartsQuiet
  <2>6. QED
    BY <2>3, <2>4, <2>5
<1>5. ASSUME NEW t \in Timeouts, Pop(Due[t]) PROVE CacheFirst'
  <2>1. UNCHANGED <<handlerVars, loading, revoked>> /\ loading = {} /\ polling' = "sleep"
    BY <1>5 DEF Pop, historyVars, StartsQuiet
  <2>2. \A f \in Entries : \/ popped'[f] = cache[f] /\ cache'[f] = 0
                           \/ popped'[f] = 0 /\ cache'[f] = cache[f]
    BY <1>5 DEF Pop
  <2>3. OnceInMemory'
    BY <1>p, <2>1, <2>2 DEF OnceInMemory, Layer1, Types
  <2>4. RevokedGone'
    BY <1>p, <1>e, <2>1, <2>2 DEF RevokedGone
  <2>5. StartsQuiet'
    BY <2>1 DEF StartsQuiet
  <2>6. QED
    BY <2>3, <2>4, <2>5
<1>6. QED
  BY <1>1, <1>2, <1>3, <1>4, <1>5 DEF Run

LEMMA CacheFirstStep ==
  Layer1 /\ (handlersFirst \/ CacheFirst) /\ [Next]_vars => (handlersFirst \/ CacheFirst)'
<1> SUFFICES ASSUME Layer1, CacheFirst, ~ handlersFirst, [Next]_vars PROVE CacheFirst'
  <2>1. handlersFirst' = handlersFirst \/ ~ [Next]_vars
    BY DEF Next, Handle, Run, AddTimeout, PushTimeout, ClearTimeoutsFor, ClearTimeout,
       HandleDispatch, Commit, Rollback, GetAll, PushExisting, StartPolling, Pop, Wake,
       DispatchTimeout, SlotDispatched, DispatchFails, Crash, Tick, vars
  <2>2. QED
    BY <2>1
<1>p. ASSUME UNCHANGED handlerVars PROVE \A k, e : Pushing(k, e)' <=> Pushing(k, e)
  BY <1>p DEF Pushing, handlerVars
<1>1. CASE UNCHANGED vars \/ Tick
  <2>1. UNCHANGED <<handlerVars, cache, polling, loading, popped, revoked>>
    BY <1>1 DEF vars, Tick, runnerVars, historyVars
  <2>2. QED
    BY <1>p, <2>1 DEF CacheFirst, OnceInMemory, RevokedGone, StartsQuiet, handlerVars, NoEntries
<1>2. CASE Crash
  BY <1>2 DEF Crash, CacheFirst, OnceInMemory, RevokedGone, StartsQuiet, NoEntries, Pushing
<1>3. ASSUME NEW h \in Handlers, Rollback(h) PROVE CacheFirst'
  <2>1. \A k \in Handlers, f \in Entries : Pushing(k, f)' => Pushing(k, f)
    BY <1>3 DEF Rollback, EndJob, Pushing, Layer1, Types
  <2>2. UNCHANGED <<cache, polling, loading, popped, revoked>>
        /\ polling \notin {"getAll", "loading"}
    BY <1>3 DEF Rollback, runnerVars, historyVars, CacheFirst, StartsQuiet
  <2>3. OnceInMemory' /\ RevokedGone' /\ StartsQuiet'
    BY <2>1, <2>2 DEF CacheFirst, OnceInMemory, RevokedGone, StartsQuiet, Layer1, Types
  <2>4. QED
    BY <2>3 DEF CacheFirst
<1>4. ASSUME NEW e \in Entries, DispatchFails(e) PROVE CacheFirst'
  <2>1. \A f \in Entries : popped'[f] <= popped[f] /\ popped'[f] \in Nat
    BY <1>4 DEF DispatchFails, Layer1, Types
  <2>2. UNCHANGED <<handlerVars, cache, loading, revoked, polling>> /\ polling = "dispatch"
    BY <1>4 DEF DispatchFails
  <2>3. OnceInMemory' /\ RevokedGone' /\ StartsQuiet'
    BY <1>p, <2>1, <2>2 DEF CacheFirst, OnceInMemory, RevokedGone, StartsQuiet, Layer1, Types
  <2>4. QED
    BY <2>3 DEF CacheFirst
<1>5. QED
  BY <1>1, <1>2, <1>3, <1>4, CacheFirstHandle, CacheFirstRun DEF Next

LEMMA RevokedStep ==
  ASSUME Layer1, handlersFirst \/ CacheFirst, [Next]_vars
  PROVE  \A e \in revoked : ~ handlersFirst => queue'[Dispatch(e)] <= queue[Dispatch(e)]
<1> SUFFICES ASSUME NEW e \in revoked, CacheFirst
             PROVE  queue'[Dispatch(e)] <= queue[Dispatch(e)]
  OBVIOUS
<1>1. e \in Entries /\ Dispatch(e) \in Messages /\ queue[Dispatch(e)] \in Int
  BY MessageFacts DEF Layer1, Types
<1>2. CASE queue' = queue
  BY <1>1, <1>2
<1>3. ASSUME NEW h \in Handlers, Commit(h) PROVE queue'[Dispatch(e)] <= queue[Dispatch(e)]
  BY <1>1, <1>3, BusyHasMessage DEF Commit, Layer1, Types
<1>4. ASSUME NEW f \in Entries, DispatchTimeout(f)
      PROVE  queue'[Dispatch(e)] <= queue[Dispatch(e)]
  <2>1. f # e
    BY <1>1, <1>4 DEF DispatchTimeout, CacheFirst, RevokedGone
  <2>2. QED
    BY <1>1, <1>4, <2>1, MessageFacts DEF DispatchTimeout, Layer1, Types
<1>5. CASE \E h \in Handlers : Handle(h) \/ Rollback(h)
  BY <1>2, <1>3, <1>5 DEF Handle, Rollback, AddTimeout, PushTimeout, ClearTimeoutsFor,
     ClearTimeout, HandleDispatch
<1>6. CASE Run
  BY <1>2, <1>4, <1>6 DEF Run, GetAll, StartPolling, Wake, SlotDispatched, PushExisting, Pop
<1>7. CASE Tick \/ Crash \/ \E f \in Entries : DispatchFails(f)
  BY <1>2, <1>7 DEF Tick, Crash, DispatchFails
<1>8. CASE UNCHANGED vars
  BY <1>2, <1>8 DEF vars
<1>9. QED
  BY <1>5, <1>6, <1>7, <1>8 DEF Next

(* Once ClearTimeout has taken a timeout from the cache no request to      *)
(* dispatch it is sent until the next restart.                             *)
THEOREM RevokedNotDispatchedCorrect == Spec => RevokedNotDispatched
<1>1. Init => handlersFirst \/ CacheFirst
  BY CacheFirstInit
<1>2. Layer1 /\ (handlersFirst \/ CacheFirst) /\ [Next]_vars
        => [\A e \in revoked : ~ handlersFirst => queue'[Dispatch(e)] <= queue[Dispatch(e)]]_vars
  BY RevokedStep
<1>3. QED
  BY <1>1, <1>2, CacheFirstStep, Layer1Correct, PTL DEF Spec, RevokedNotDispatched
-----------------------------------------------------------------------------
(* A timeout is delivered again only for a reason.  Weight(e) counts the   *)
(* deliveries of entry e that are on their way: requests, occurrences in   *)
(* memory, and the one that reading the store will add.  A request that is *)
(* yet to be stored will add one when it is pushed, and one more when the  *)
(* handlers may come before the cache is filled.                           *)

Weight(e) ==
  queue[Dispatch(e)] + cache[e] + popped[e]
    + (IF e \in loading \/ (polling = "getAll" /\ e \in store) THEN 1 ELSE 0)

OnTheWay(t) == {x \in Entries \X Nat : TimeoutOf(x[1]) = t /\ x[2] < Weight(x[1])}

Pushed(t) == \E h \in Handlers : job[h] = Store(t) /\ pc[h] = "commit"

Late == IF handlersFirst THEN 1 ELSE 0

ToCome(t) ==
  IF queue[Store(t)] > 0 THEN Late + (IF Pushed(t) THEN 0 ELSE 1) ELSE 0

Account(t) ==
  /\ IsFiniteSet(OnTheWay(t))
  /\ delivered[t] + Cardinality(OnTheWay(t)) + ToCome(t) <= 1 + disturbances + Late

(* A timeout is requested once, and has one entry in the store at most,    *)
(* which it has not before its request was consumed.                       *)
StoredOnce(t) ==
  /\ queue[Store(t)] <= 1
  /\ \A e \in store : TimeoutOf(e) = t => queue[Store(t)] = 0
  /\ \A e, f \in store : TimeoutOf(e) = t /\ TimeoutOf(f) = t => e = f

(* Handlers that wait for the cache are idle until it is filled.           *)
HandlersWait ==
  ~ handlersFirst /\ polling \in {"getAll", "loading"} => \A h \in Handlers : pc[h] = "idle"

Base == TypeOK /\ Jobs /\ EveryHandIsQueued

LEMMA BaseFacts == Layer1 /\ EveryHandIsQueued => Base
<1> SUFFICES ASSUME Layer1, EveryHandIsQueued PROVE TypeOK
  BY DEF Base, Layer1
<1>1. \A m \in Messages : queue[m] \in Nat
  BY InHandFinite DEF EveryHandIsQueued, Layer1, Types
<1>2. queue \in [Messages -> Nat]
  BY <1>1 DEF Layer1, Types
<1>3. QED
  BY <1>2 DEF Layer1, Types, TypeOK

LEMMA WeightType == TypeOK => \A e \in Entries : Weight(e) \in Nat
  BY MessageFacts DEF TypeOK, Weight

LEMMA WeightType2 == TypeOK' => \A e \in Entries : Weight(e)' \in Nat
  BY MessageFacts DEF TypeOK, Weight

(* A job is in the hand of one handler, if the queue has one copy of it.   *)
LEMMA OneHand ==
  ASSUME Base, NEW h \in Handlers, NEW t \in Timeouts, StoredOnce(t), job[h] = Store(t)
  PROVE  queue[Store(t)] = 1 /\ \A k \in Handlers : job[k] = Store(t) => k = h
<1>1. Store(t) \in Messages /\ h \in InHand(Store(t))
  BY MessageFacts DEF InHand
<1>2. Cardinality(InHand(Store(t))) <= 1 /\ queue[Store(t)] \in Nat
  BY <1>1, InHandFinite DEF StoredOnce, Base, EveryHandIsQueued, TypeOK
<1>3. queue[Store(t)] >= 1
  <2>1. Cardinality(InHand(Store(t))) # 0
    BY <1>1, InHandFinite, FS_EmptySet
  <2>2. QED
    BY <1>1, <1>2, <2>1, InHandFinite DEF Base, EveryHandIsQueued
<1>4. ASSUME NEW k \in Handlers, job[k] = Store(t), k # h PROVE FALSE
  <2>1. {h, k} \subseteq InHand(Store(t))
    BY <1>4 DEF InHand
  <2>2. Cardinality({h, k}) <= Cardinality(InHand(Store(t)))
    BY <2>1, InHandFinite, FS_Subset
  <2>3. Cardinality({h}) = 1 /\ IsFiniteSet({h})
    BY FS_Singleton
  <2>4. {h, k} = {h} \cup {k}
    OBVIOUS
  <2>5. Cardinality({h, k}) = 2
    BY <1>4, <2>3, <2>4, FS_AddElement
  <2>6. QED
    BY <1>2, <2>2, <2>5, InHandFinite
<1>5. QED
  BY <1>2, <1>3, <1>4 DEF StoredOnce

(* What is on the way grows by one at the most when the weight of one      *)
(* entry does, and does not when none does.                                *)
LEMMA WayGrows ==
  ASSUME TypeOK, TypeOK', NEW t \in Timeouts, IsFiniteSet(OnTheWay(t)),
         NEW g \in Entries, Weight(g)' <= Weight(g) + 1,
         \A e \in Entries : TimeoutOf(e) = t /\ e # g => Weight(e)' <= Weight(e)
  PROVE  /\ IsFiniteSet(OnTheWay(t)')
         /\ Cardinality(OnTheWay(t)') <= Cardinality(OnTheWay(t)) + 1
<1> DEFINE more == OnTheWay(t) \cup {<<g, Weight(g)>>}
<1>1. \A e \in Entries : Weight(e) \in Nat /\ Weight(e)' \in Nat
  BY WeightType, WeightType2
<1>2. OnTheWay(t)' \subseteq more
  <2>1. SUFFICES ASSUME NEW x \in OnTheWay(t)' PROVE x \in more
    OBVIOUS
  <2>2. x \in Entries \X Nat /\ TimeoutOf(x[1]) = t /\ x[2] < Weight(x[1])'
    BY DEF OnTheWay
  <2>3. CASE x[1] = g
    <3>1. x[2] < Weight(g) \/ x[2] = Weight(g)
      BY <1>1, <2>2, <2>3
    <3>2. x = <<x[1], x[2]>>
      BY <2>2
    <3>3. QED
      BY <2>2, <2>3, <3>1, <3>2 DEF OnTheWay
  <2>4. CASE x[1] # g
    <3>1. x[2] < Weight(x[1])
      BY <1>1, <2>2, <2>4
    <3>2. QED
      BY <2>2, <3>1 DEF OnTheWay
  <2>5. QED
    BY <2>3, <2>4
<1>3. IsFiniteSet(more) /\ Cardinality(more) <= Cardinality(OnTheWay(t)) + 1
  <2>1. Cardinality(OnTheWay(t)) \in Nat
    BY FS_CardinalityType
  <2>2. /\ IsFiniteSet(more)
        /\ Cardinality(more) = IF <<g, Weight(g)>> \in OnTheWay(t)
                               THEN Cardinality(OnTheWay(t)) ELSE Cardinality(OnTheWay(t)) + 1
    BY FS_AddElement
  <2>3. QED
    BY <2>1, <2>2
<1>4. QED
  BY <1>2, <1>3, FS_Subset, FS_CardinalityType

LEMMA WayShrinks ==
  ASSUME TypeOK, TypeOK', NEW t \in Timeouts, IsFiniteSet(OnTheWay(t)),
         \A e \in Entries : TimeoutOf(e) = t => Weight(e)' <= Weight(e)
  PROVE  /\ IsFiniteSet(OnTheWay(t)')
         /\ Cardinality(OnTheWay(t)') <= Cardinality(OnTheWay(t))
<1>1. \A e \in Entries : Weight(e) \in Nat /\ Weight(e)' \in Nat
  BY WeightType, WeightType2
<1>2. OnTheWay(t)' \subseteq OnTheWay(t)
  BY <1>1 DEF OnTheWay
<1>3. QED
  BY <1>2, FS_Subset

(* The entry that is delivered leaves the way.                             *)
LEMMA WayLoses ==
  ASSUME TypeOK, TypeOK', NEW t \in Timeouts, IsFiniteSet(OnTheWay(t)),
         NEW g \in Entries, TimeoutOf(g) = t, Weight(g)' <= Weight(g) - 1,
         \A e \in Entries : TimeoutOf(e) = t /\ e # g => Weight(e)' <= Weight(e)
  PROVE  /\ IsFiniteSet(OnTheWay(t)')
         /\ Cardinality(OnTheWay(t)') <= Cardinality(OnTheWay(t)) - 1
<1> DEFINE last == <<g, Weight(g) - 1>>
<1> DEFINE less == OnTheWay(t) \ {last}
<1>1. \A e \in Entries : Weight(e) \in Nat /\ Weight(e)' \in Nat
  BY WeightType, WeightType2
<1>2. last \in OnTheWay(t)
  BY <1>1 DEF OnTheWay
<1>3. OnTheWay(t)' \subseteq less
  <2>1. SUFFICES ASSUME NEW x \in OnTheWay(t)' PROVE x \in less
    OBVIOUS
  <2>2. x \in Entries \X Nat /\ TimeoutOf(x[1]) = t /\ x[2] < Weight(x[1])'
    BY DEF OnTheWay
  <2>3. x[2] < Weight(x[1]) /\ (x[1] = g => x[2] < Weight(g) - 1)
    <3>1. CASE x[1] = g
      BY <1>1, <2>2, <3>1
    <3>2. CASE x[1] # g
      BY <1>1, <2>2, <3>2
    <3>3. QED
      BY <3>1, <3>2
  <2>4. x # last
    BY <1>1, <2>2, <2>3
  <2>5. QED
    BY <2>2, <2>3, <2>4 DEF OnTheWay
<1>4. IsFiniteSet(less) /\ Cardinality(less) = Cardinality(OnTheWay(t)) - 1
  BY <1>2, FS_RemoveElement
<1>5. QED
  BY <1>3, <1>4, FS_Subset, FS_CardinalityType

LEMMA ToComeType == \A t \in Timeouts : ToCome(t) \in 0..2 /\ Late \in 0..1
  BY DEF ToCome, Late

(* A step that puts nothing on the way, and lets nothing more come than it *)
(* disturbs.                                                               *)
LEMMA AccountKept ==
  ASSUME TypeOK, TypeOK', NEW t \in Timeouts, Account(t),
         \A e \in Entries : TimeoutOf(e) = t => Weight(e)' <= Weight(e),
         delivered'[t] = delivered[t], handlersFirst' = handlersFirst,
         ToCome(t)' - ToCome(t) <= disturbances' - disturbances
  PROVE  Account(t)'
<1>1. IsFiniteSet(OnTheWay(t)') /\ Cardinality(OnTheWay(t)') <= Cardinality(OnTheWay(t))
  BY WayShrinks DEF Account
<1>2. Cardinality(OnTheWay(t)') \in Nat /\ Cardinality(OnTheWay(t)) \in Nat
  BY <1>1, FS_CardinalityType DEF Account
<1>3. Late' = Late /\ Late \in 0..1 /\ ToCome(t) \in 0..2 /\ ToCome(t)' \in 0..2
  BY DEF Late, ToCome
<1>4. delivered[t] \in Nat /\ disturbances \in Nat /\ disturbances' \in Nat
  BY DEF TypeOK
<1>5. QED
  BY <1>1, <1>2, <1>3, <1>4 DEF Account

LEMMA SameToCome ==
  ASSUME NEW t, queue' = queue, job' = job, pc' = pc, handlersFirst' = handlersFirst
  PROVE  ToCome(t)' = ToCome(t)
  BY DEF ToCome, Pushed, Late

(* The requests.                                                           *)
LEMMA AccountAddTimeout ==
  ASSUME Base, Base', NEW t \in Timeouts, StoredOnce(t), Account(t),
         NEW h \in Handlers, NEW u \in Timeouts, NEW c \in Copies, AddTimeout(h, u, c)
  PROVE  Account(t)'
<1>1. Pushed(t)' = Pushed(t)
  BY DEF AddTimeout, Take, Pushed, Base, TypeOK
<1>2. ToCome(t)' = ToCome(t)
  BY <1>1 DEF ToCome, Late, AddTimeout
<1>3. \A e \in Entries : Weight(e)' = Weight(e)
  BY DEF Weight, AddTimeout, runnerVars
<1>4. QED
  BY <1>2, <1>3, AccountKept, ToComeType, WeightType DEF AddTimeout, historyVars, Base, TypeOK

LEMMA AccountPushTimeout ==
  ASSUME Base, Base', NEW t \in Timeouts, StoredOnce(t), Account(t),
         NEW h \in Handlers, PushTimeout(h)
  PROVE  Account(t)'
<1>1. PICK g \in Entries : job[h] = Store(TimeoutOf(g)) /\ adds[h] = {g}
  BY DEF Base, Jobs, Job, PushTimeout, Storing
<1>2. /\ Weight(g)' = Weight(g) + 1
      /\ \A e \in Entries : e # g => Weight(e)' = Weight(e)
  <2>1. \A e \in Entries : cache'[e] = IF e = g THEN cache[e] + 1 ELSE cache[e]
    BY <1>1 DEF PushTimeout
  <2>2. \A e \in Entries : /\ queue[Dispatch(e)] \in Nat /\ cache[e] \in Nat
                           /\ popped[e] \in Nat
    BY MessageFacts DEF Base, TypeOK
  <2>3. UNCHANGED <<queue, popped, loading, polling, store>>
    BY DEF PushTimeout, runnerVars
  <2>4. QED
    BY <2>1, <2>2, <2>3 DEF Weight
<1>3. \A e \in Entries : Weight(e) \in Nat
  BY WeightType DEF Base
<1>4. CASE TimeoutOf(g) = t
  <2>1. queue[Store(t)] = 1 /\ \A k \in Handlers : job[k] = Store(t) => k = h
    BY <1>1, <1>4, OneHand
  <2>2. ~ Pushed(t) /\ Pushed(t)'
    BY <1>1, <1>4, <2>1 DEF Pushed, PushTimeout, Base, TypeOK
  <2>3. ToCome(t) = Late + 1 /\ ToCome(t)' = Late
    BY <2>1, <2>2 DEF ToCome, Late, PushTimeout
  <2>4. /\ IsFiniteSet(OnTheWay(t)')
        /\ Cardinality(OnTheWay(t)') <= Cardinality(OnTheWay(t)) + 1
    <3>1. \A e \in Entries : TimeoutOf(e) = t /\ e # g => Weight(e)' <= Weight(e)
      BY <1>2, <1>3
    <3>2. Weight(g)' <= Weight(g) + 1
      BY <1>2, <1>3
    <3>3. QED
      BY <3>1, <3>2, WayGrows DEF Account, Base
  <2>5. Cardinality(OnTheWay(t)') \in Nat /\ Cardinality(OnTheWay(t)) \in Nat
    BY <2>4, FS_CardinalityType DEF Account
  <2>6. Late' = Late /\ Late \in 0..1 /\ UNCHANGED <<delivered, disturbances>>
        /\ delivered[t] \in Nat /\ disturbances \in Nat
    BY DEF Late, PushTimeout, historyVars, Base, TypeOK
  <2>7. QED
    BY <2>3, <2>4, <2>5, <2>6 DEF Account
<1>5. CASE TimeoutOf(g) # t
  <2>1. Pushed(t)' = Pushed(t)
    BY <1>1, <1>5, MessageFacts DEF Pushed, PushTimeout, Base, TypeOK
  <2>2. ToCome(t)' = ToCome(t)
    BY <2>1 DEF ToCome, Late, PushTimeout
  <2>3. \A e \in Entries : TimeoutOf(e) = t => Weight(e)' <= Weight(e)
    BY <1>2, <1>3, <1>5
  <2>4. QED
    BY <2>2, <2>3, AccountKept, ToComeType DEF PushTimeout, historyVars, Base, TypeOK
<1>6. QED
  BY <1>4, <1>5

LEMMA AccountClears ==
  ASSUME Base, Base', NEW t \in Timeouts, Account(t), NEW h \in Handlers,
         \/ \E s \in Sagas : \E found \in SUBSET store : ClearTimeoutsFor(h, s, found)
         \/ ClearTimeout(h)
         \/ \E e \in Entries : HandleDispatch(h, e)
  PROVE  Account(t)'
<1>1. Pushed(t)' = Pushed(t)
  <2>1. CASE ClearTimeout(h)
    <3>1. \E s \in Sagas : job[h] = Clear(s)
      BY <2>1 DEF ClearTimeout, Base, Jobs, Job, Clearing
    <3>2. QED
      BY <2>1, <3>1, MessageFacts DEF ClearTimeout, Pushed, Base, TypeOK
  <2>2. ASSUME NEW s \in Sagas, NEW found \in SUBSET store, ClearTimeoutsFor(h, s, found)
        PROVE  Pushed(t)' = Pushed(t)
    BY <2>2, MessageFacts DEF ClearTimeoutsFor, Take, Pushed, Base, TypeOK
  <2>3. ASSUME NEW e \in Entries, HandleDispatch(h, e) PROVE Pushed(t)' = Pushed(t)
    BY <2>3, MessageFacts DEF HandleDispatch, Take, Pushed, Base, TypeOK
  <2>4. QED
    BY <2>1, <2>2, <2>3
<1>2. /\ UNCHANGED <<queue, store, popped, loading, polling, handlersFirst, delivered,
                     disturbances>>
      /\ \A e \in Entries : cache'[e] = cache[e] \/ cache'[e] = 0
  BY DEF ClearTimeoutsFor, ClearTimeout, HandleDispatch, runnerVars, historyVars
<1>3. \A e \in Entries : Weight(e)' <= Weight(e)
  <2>1. \A e \in Entries : cache'[e] <= cache[e] /\ cache'[e] \in Nat /\ cache[e] \in Nat
          /\ queue[Dispatch(e)] \in Nat /\ popped[e] \in Nat
    BY <1>2, MessageFacts DEF Base, TypeOK
  <2>2. QED
    BY <1>2, <2>1 DEF Weight
<1>4. ToCome(t)' = ToCome(t)
  BY <1>1, <1>2 DEF ToCome, Late
<1>5. QED
  BY <1>2, <1>3, <1>4, AccountKept, ToComeType DEF Base, TypeOK

LEMMA AccountCommit ==
  ASSUME Base, Base', NEW t \in Timeouts, StoredOnce(t), HandlersWait, Account(t),
         NEW h \in Handlers, Commit(h)
  PROVE  Account(t)'
<1>u. /\ UNCHANGED <<cache, popped, loading, polling, handlersFirst, disturbances>>
      /\ pc[h] = "commit" /\ pc'[h] = "idle"
      /\ \A k \in Handlers : k # h => pc'[k] = pc[k] /\ job'[k] = job[k]
  BY DEF Commit, EndJob, runnerVars, Base, TypeOK
<1>n. /\ \A e \in Entries : /\ queue[Dispatch(e)] \in Nat /\ queue'[Dispatch(e)] \in Nat
                            /\ cache[e] \in Nat /\ popped[e] \in Nat
      /\ \A e \in Entries : Weight(e) \in Nat /\ Weight(e)' \in Nat
  <2>1. \A e \in Entries : Weight(e) \in Nat /\ Weight(e)' \in Nat
    BY WeightType, WeightType2 DEF Base
  <2>2. QED
    BY <2>1, MessageFacts DEF Base, TypeOK
<1>q. \A m \in Messages : m # job[h] => queue'[m] = queue[m]
  BY DEF Commit, Base, TypeOK
<1>l. Late' = Late /\ Late \in 0..1
  BY <1>u DEF Late
<1>d. delivered[t] \in Nat /\ delivered'[t] \in Nat /\ disturbances \in Nat
  BY DEF Base, TypeOK
<1>1. CASE Storing(h)
  <2>1. PICK g \in Entries : job[h] = Store(TimeoutOf(g)) /\ adds[h] = {g} /\ deletes[h] = {}
    BY <1>1 DEF Storing
  <2>2. store' = store \cup {g} /\ delivered' = delivered
    BY <2>1, MessageFacts DEF Commit
  <2>3. \A e \in Entries : queue'[Dispatch(e)] = queue[Dispatch(e)]
    BY <1>q, <2>1, MessageFacts
  <2>4. \A e \in Entries : e # g => Weight(e)' = Weight(e)
    BY <1>u, <2>2, <2>3 DEF Weight
  <2>5. CASE TimeoutOf(g) # t
    <3>1. queue'[Store(t)] = queue[Store(t)]
      BY <1>q, <2>1, <2>5, MessageFacts
    <3>2. Pushed(t)' = Pushed(t)
      BY <1>u, <2>1, <2>5, MessageFacts DEF Pushed
    <3>3. ToCome(t)' = ToCome(t)
      BY <1>l, <3>1, <3>2 DEF ToCome
    <3>4. \A e \in Entries : TimeoutOf(e) = t => Weight(e)' <= Weight(e)
      BY <1>n, <2>4, <2>5
    <3>5. QED
      BY <1>u, <2>2, <3>3, <3>4, AccountKept, ToComeType DEF Base, TypeOK
  <2>6. CASE TimeoutOf(g) = t
    <3>1. queue[Store(t)] = 1
      BY <2>1, <2>6, OneHand
    <3>2. queue'[Store(t)] = 0
      BY <2>1, <2>6, <3>1, MessageFacts DEF Commit, Base, TypeOK
    <3>3. Pushed(t)
      BY <1>u, <2>1, <2>6 DEF Pushed
    <3>4. ToCome(t) = Late /\ ToCome(t)' = 0
      BY <1>l, <3>1, <3>2, <3>3 DEF ToCome
    <3>5. CASE polling = "getAll"
      <4>1. Late = 1
        BY <1>u, <3>5 DEF HandlersWait, Late
      <4>2. Weight(g)' <= Weight(g) + 1
        BY <1>u, <1>n, <2>3 DEF Weight
      <4>3. /\ IsFiniteSet(OnTheWay(t)')
            /\ Cardinality(OnTheWay(t)') <= Cardinality(OnTheWay(t)) + 1
        BY <1>n, <2>4, <4>2, WayGrows DEF Account, Base
      <4>4. Cardinality(OnTheWay(t)') \in Nat /\ Cardinality(OnTheWay(t)) \in Nat
        BY <4>3, FS_CardinalityType DEF Account
      <4>5. QED
        BY <1>u, <1>l, <1>d, <2>2, <3>4, <4>1, <4>3, <4>4 DEF Account
    <3>6. CASE polling # "getAll"
      <4>1. Weight(g)' = Weight(g)
        BY <1>u, <2>3, <3>6 DEF Weight
      <4>2. \A e \in Entries : Weight(e)' <= Weight(e)
        BY <1>n, <2>4, <4>1
      <4>3. QED
        BY <1>u, <1>l, <1>d, <2>2, <3>4, <4>2, AccountKept DEF Base
    <3>7. QED
      BY <3>5, <3>6
  <2>7. QED
    BY <2>5, <2>6
<1>2. CASE Clearing(h)
  <2>1. PICK s \in Sagas : job[h] = Clear(s) /\ adds[h] = {}
    BY <1>2 DEF Clearing
  <2>2. store' \subseteq store /\ delivered' = delivered
    BY <2>1, MessageFacts DEF Commit
  <2>3. /\ \A e \in Entries : queue'[Dispatch(e)] = queue[Dispatch(e)]
        /\ queue'[Store(t)] = queue[Store(t)]
    BY <1>q, <2>1, MessageFacts
  <2>4. Pushed(t)' = Pushed(t)
    BY <1>u, <2>1, MessageFacts DEF Pushed
  <2>5. ToCome(t)' = ToCome(t)
    BY <1>l, <2>3, <2>4 DEF ToCome
  <2>6. \A e \in Entries : Weight(e)' <= Weight(e)
    BY <1>u, <1>n, <2>2, <2>3 DEF Weight
  <2>7. QED
    BY <1>u, <2>2, <2>5, <2>6, AccountKept, ToComeType DEF Base, TypeOK
<1>3. CASE Dispatching(h)
  <2>1. PICK g \in Entries : job[h] = Dispatch(g) /\ adds[h] = {}
    BY <1>3 DEF Dispatching
  <2>2. /\ store' \subseteq store
        /\ delivered' = [delivered EXCEPT ![TimeoutOf(g)] = @ + 1]
    BY <2>1, MessageFacts DEF Commit
  <2>3. /\ queue'[Dispatch(g)] = queue[Dispatch(g)] - 1
        /\ \A e \in Entries : e # g => queue'[Dispatch(e)] = queue[Dispatch(e)]
        /\ queue'[Store(t)] = queue[Store(t)]
    BY <1>q, <2>1, MessageFacts DEF Commit, Base, TypeOK
  <2>4. Pushed(t)' = Pushed(t)
    BY <1>u, <2>1, MessageFacts DEF Pushed
  <2>5. ToCome(t)' = ToCome(t)
    BY <1>l, <2>3, <2>4 DEF ToCome
  <2>6. Weight(g)' <= Weight(g) - 1
    BY <1>u, <1>n, <2>2, <2>3 DEF Weight
  <2>7. \A e \in Entries : e # g => Weight(e)' <= Weight(e)
    BY <1>u, <1>n, <2>2, <2>3 DEF Weight
  <2>8. CASE TimeoutOf(g) = t
    <3>1. delivered'[t] = delivered[t] + 1
      BY <2>2, <2>8 DEF Base, TypeOK
    <3>2. /\ IsFiniteSet(OnTheWay(t)')
          /\ Cardinality(OnTheWay(t)') <= Cardinality(OnTheWay(t)) - 1
      BY <2>6, <2>7, <2>8, WayLoses DEF Account, Base
    <3>3. Cardinality(OnTheWay(t)') \in Nat /\ Cardinality(OnTheWay(t)) \in Nat
      BY <3>2, FS_CardinalityType DEF Account
    <3>4. QED
      BY <1>u, <1>l, <1>d, <2>5, <3>1, <3>2, <3>3, ToComeType DEF Account
  <2>9. CASE TimeoutOf(g) # t
    <3>1. delivered'[t] = delivered[t]
      BY <2>2, <2>9 DEF Base, TypeOK
    <3>2. \A e \in Entries : TimeoutOf(e) = t => Weight(e)' <= Weight(e)
      BY <2>7, <2>9
    <3>3. QED
      BY <1>u, <2>5, <3>1, <3>2, AccountKept, ToComeType DEF Base, TypeOK
  <2>10. QED
    BY <2>8, <2>9
<1>4. QED
  BY <1>u, <1>1, <1>2, <1>3 DEF Base, Jobs, Job

LEMMA AccountRollback ==
  ASSUME Base, Base', NEW t \in Timeouts, Account(t), NEW h \in Handlers, Rollback(h)
  PROVE  Account(t)'
<1>1. \A e \in Entries : Weight(e)' = Weight(e)
  BY DEF Weight, Rollback, runnerVars
<1>2. Pushed(t)' => Pushed(t)
  BY DEF Pushed, Rollback, EndJob, Base, TypeOK
<1>3. ToCome(t)' <= ToCome(t) + 1
  BY <1>2 DEF ToCome, Late, Rollback
<1>4. disturbances' = disturbances + 1 /\ disturbances \in Nat
  BY DEF Rollback, Disturb, Base, TypeOK
<1>5. ToCome(t) \in 0..2 /\ ToCome(t)' \in 0..2
  BY DEF ToCome, Late
<1>6. \A e \in Entries : Weight(e)' <= Weight(e)
  BY <1>1, WeightType DEF Base
<1>7. QED
  BY <1>3, <1>4, <1>5, <1>6, AccountKept DEF Rollback, historyVars, Base

(* The polling thread moves what is on the way.                            *)
LEMMA AccountRun ==
  ASSUME Base, Base', NEW t \in Timeouts, Account(t), Run
  PROVE  Account(t)'
<1>n. \A e \in Entries :
        /\ queue[Dispatch(e)] \in Nat /\ cache[e] \in Nat /\ popped[e] \in Nat
        /\ queue'[Dispatch(e)] \in Nat /\ cache'[e] \in Nat /\ popped'[e] \in Nat
  BY MessageFacts DEF Base, TypeOK
<1>u. UNCHANGED <<handlerVars, store, handlersFirst, delivered, disturbances>>
  BY DEF Run, GetAll, StartPolling, Wake, SlotDispatched, PushExisting, DispatchTimeout, Pop,
         historyVars
<1>1. queue'[Store(t)] = queue[Store(t)]
  BY MessageFacts DEF Run, GetAll, StartPolling, Wake, SlotDispatched, PushExisting,
         DispatchTimeout, Pop, Base, TypeOK
<1>2. ToCome(t)' = ToCome(t)
  BY <1>u, <1>1 DEF ToCome, Pushed, Late, handlerVars
<1>3. \A e \in Entries : Weight(e)' <= Weight(e)
  <2>1. CASE GetAll
    BY <1>n, <1>u, <2>1 DEF GetAll, Weight
  <2>2. CASE StartPolling \/ Wake \/ SlotDispatched
    BY <1>n, <1>u, <2>2 DEF StartPolling, Wake, SlotDispatched, Weight
  <2>3. ASSUME NEW g \in Entries, PushExisting(g)
        PROVE  \A e \in Entries : Weight(e)' <= Weight(e)
    <3>1. /\ UNCHANGED <<queue, popped, polling>> /\ polling = "loading" /\ g \in loading
          /\ loading' = loading \ {g}
          /\ \A e \in Entries : cache'[e] = IF e = g THEN cache[e] + 1 ELSE cache[e]
      BY <2>3 DEF PushExisting, Base, TypeOK
    <3>2. QED
      BY <1>n, <3>1 DEF Weight
  <2>4. ASSUME NEW g \in Entries, DispatchTimeout(g)
        PROVE  \A e \in Entries : Weight(e)' <= Weight(e)
    <3>1. /\ UNCHANGED <<store, cache, loading, polling>>
          /\ \A e \in Entries :
               /\ queue'[Dispatch(e)] = queue[Dispatch(e)] + (IF e = g THEN 1 ELSE 0)
               /\ popped'[e] = popped[e] - (IF e = g THEN 1 ELSE 0)
      BY <1>n, <2>4, MessageFacts DEF DispatchTimeout, Base, TypeOK
    <3>2. QED
      BY <1>n, <3>1 DEF Weight
  <2>5. ASSUME NEW d \in Timeouts, Pop(Due[d])
        PROVE  \A e \in Entries : Weight(e)' <= Weight(e)
    <3>1. /\ UNCHANGED <<queue, store, loading>> /\ polling = "pop" /\ polling' = "sleep"
          /\ \A e \in Entries : cache'[e] + popped'[e] = cache[e]
      BY <1>n, <2>5 DEF Pop
    <3>2. QED
      BY <1>n, <3>1 DEF Weight
  <2>6. QED
    BY <2>1, <2>2, <2>3, <2>4, <2>5 DEF Run
<1>4. QED
  BY <1>u, <1>2, <1>3, AccountKept, ToComeType DEF Base, TypeOK

LEMMA AccountDispatchFails ==
  ASSUME Base, Base', NEW t \in Timeouts, Account(t),
         NEW g \in Entries, DispatchFails(g)
  PROVE  Account(t)'
<1>1. \A e \in Entries : popped'[e] <= popped[e] /\ popped'[e] \in Nat /\ popped[e] \in Nat
  BY DEF DispatchFails, Base, TypeOK
<1>2. \A e \in Entries : Weight(e)' <= Weight(e)
  BY <1>1, MessageFacts DEF DispatchFails, Weight, Base, TypeOK
<1>3. ToCome(t)' = ToCome(t)
  BY SameToCome DEF DispatchFails, handlerVars
<1>4. disturbances' = disturbances + 1 /\ disturbances \in Nat
  BY DEF DispatchFails, Disturb, Base, TypeOK
<1>5. QED
  BY <1>2, <1>3, <1>4, AccountKept, ToComeType DEF DispatchFails, Base

(* A crash empties the memory: what is in the store is read once more, or  *)
(* what was pushed is pushed once more.                                    *)
LEMMA AccountCrash ==
  ASSUME Base, Base', NEW t \in Timeouts, StoredOnce(t), Account(t), Crash
  PROVE  Account(t)'
<1>n. \A e \in Entries : /\ queue[Dispatch(e)] \in Nat /\ cache[e] \in Nat
                         /\ popped[e] \in Nat
  BY MessageFacts DEF Base, TypeOK
<1>1. \A e \in Entries : Weight(e)' = queue[Dispatch(e)] + (IF e \in store THEN 1 ELSE 0)
  BY <1>n DEF Crash, Weight, NoEntries
<1>2. \A e \in Entries : /\ Weight(e)' <= Weight(e) + 1
                         /\ e \notin store => Weight(e)' <= Weight(e)
  BY <1>1, <1>n DEF Weight
<1>3. disturbances' = disturbances + 1 /\ disturbances \in Nat
  BY DEF Crash, Disturb, Base, TypeOK
<1>4. ToCome(t) \in 0..2 /\ ToCome(t)' \in 0..2 /\ ToCome(t)' <= ToCome(t) + 1
  BY DEF ToCome, Late, Pushed, Crash
<1>5. CASE \E g \in store : TimeoutOf(g) = t
  <2>1. PICK g \in store : TimeoutOf(g) = t
    BY <1>5
  <2>2. g \in Entries /\ \A e \in Entries : TimeoutOf(e) = t /\ e # g => e \notin store
    BY <2>1 DEF StoredOnce, Base, TypeOK
  <2>3. queue[Store(t)] = 0 /\ queue'[Store(t)] = 0
    BY <2>1 DEF StoredOnce, Crash
  <2>4. ToCome(t) = 0 /\ ToCome(t)' = 0
    BY <2>3 DEF ToCome
  <2>5. /\ IsFiniteSet(OnTheWay(t)')
        /\ Cardinality(OnTheWay(t)') <= Cardinality(OnTheWay(t)) + 1
    BY <1>2, <2>2, WayGrows DEF Account, Base
  <2>6. Cardinality(OnTheWay(t)') \in Nat /\ Cardinality(OnTheWay(t)) \in Nat
    BY <2>5, FS_CardinalityType DEF Account
  <2>7. Late' = Late /\ Late \in 0..1 /\ delivered' = delivered /\ delivered[t] \in Nat
    BY DEF Late, Crash, Base, TypeOK
  <2>8. QED
    BY <1>3, <2>4, <2>5, <2>6, <2>7 DEF Account
<1>6. CASE ~ \E g \in store : TimeoutOf(g) = t
  BY <1>2, <1>3, <1>4, <1>6, AccountKept DEF Crash, Base
<1>7. QED
  BY <1>5, <1>6

(* The layer as a whole.                                                   *)
Accounts == HandlersWait /\ \A t \in Timeouts : StoredOnce(t) /\ Account(t)

LEMMA AccountsInit == Init => Accounts
<1> SUFFICES ASSUME Init, NEW t \in Timeouts PROVE StoredOnce(t) /\ Account(t)
  BY DEF Init, Accounts, HandlersWait
<1>1. queue[Store(t)] = 1 /\ \A e \in Entries : queue[Dispatch(e)] = 0
  BY MessageFacts DEF Init, Requested
<1>2. \A e \in Entries : Weight(e) = 0
  BY <1>1 DEF Init, Weight, NoEntries
<1>3. OnTheWay(t) = {}
  BY <1>2 DEF OnTheWay
<1>4. IsFiniteSet(OnTheWay(t)) /\ Cardinality(OnTheWay(t)) = 0
  BY <1>3, FS_EmptySet
<1>5. Account(t)
  BY <1>4 DEF Init, Account, ToCome, Late
<1>6. StoredOnce(t)
  BY <1>1 DEF Init, StoredOnce
<1>7. QED
  BY <1>5, <1>6

LEMMA HandlersWaitStep ==
  ASSUME Base, HandlersWait, [Next]_vars
  PROVE  HandlersWait'
<1> SUFFICES ASSUME ~ handlersFirst', polling' \in {"getAll", "loading"}, NEW h \in Handlers
             PROVE  pc'[h] = "idle"
  BY DEF HandlersWait
<1>1. CASE Crash
  BY <1>1 DEF Crash
<1>2. CASE UNCHANGED vars
  BY <1>2 DEF HandlersWait, vars, handlerVars, runnerVars
<1>3. CASE Tick \/ Run \/ \E e \in Entries : DispatchFails(e)
  BY <1>3 DEF HandlersWait, Tick, Run, DispatchFails, handlerVars, runnerVars, GetAll,
     StartPolling, Wake, SlotDispatched, PushExisting, DispatchTimeout, Pop
<1>4. ASSUME NEW k \in Handlers, Handle(k) \/ Rollback(k) PROVE pc'[h] = "idle"
  <2>1. polling' = polling /\ handlersFirst' = handlersFirst
    BY <1>4 DEF Handle, Rollback, AddTimeout, PushTimeout, ClearTimeoutsFor, ClearTimeout,
       HandleDispatch, Commit, runnerVars
  <2>2. \A j \in Handlers : pc[j] = "idle"
    BY <2>1 DEF HandlersWait
  <2>3. QED
    BY <1>4, <2>1, <2>2 DEF Handle, Rollback, AddTimeout, PushTimeout, ClearTimeoutsFor,
       ClearTimeout, HandleDispatch, Commit, Take, Running
<1>5. QED
  BY <1>1, <1>2, <1>3, <1>4 DEF Next

LEMMA StoredOnceStep ==
  ASSUME Base, [Next]_vars, NEW t \in Timeouts, StoredOnce(t)
  PROVE  StoredOnce(t)'
<1>1. ASSUME NEW h \in Handlers, Commit(h) PROVE StoredOnce(t)'
  <2>1. CASE Storing(h)
    <3>1. PICK g \in Entries :
            job[h] = Store(TimeoutOf(g)) /\ adds[h] = {g} /\ deletes[h] = {}
      BY <2>1 DEF Storing
    <3>2. store' = store \cup {g}
      BY <1>1, <3>1 DEF Commit
    <3>3. CASE TimeoutOf(g) = t
      <4>1. queue[Store(t)] = 1
        BY <3>1, <3>3, OneHand
      <4>2. queue'[Store(t)] = 0
        BY <1>1, <3>1, <3>3, <4>1, MessageFacts DEF Commit, Base, TypeOK
      <4>3. \A e \in store : TimeoutOf(e) # t
        BY <4>1 DEF StoredOnce
      <4>4. QED
        BY <3>2, <4>2, <4>3 DEF StoredOnce
    <3>4. CASE TimeoutOf(g) # t
      <4>1. queue'[Store(t)] = queue[Store(t)]
        BY <1>1, <3>1, <3>4, MessageFacts DEF Commit, Base, TypeOK
      <4>2. QED
        BY <3>2, <3>4, <4>1 DEF StoredOnce
    <3>5. QED
      BY <3>3, <3>4
  <2>2. CASE Clearing(h) \/ Dispatching(h)
    <3>1. store' \subseteq store
      BY <1>1, <2>2 DEF Commit, Clearing, Dispatching
    <3>2. queue'[Store(t)] = queue[Store(t)]
      BY <1>1, <2>2, MessageFacts DEF Commit, Clearing, Dispatching, Base, TypeOK
    <3>3. QED
      BY <3>1, <3>2 DEF StoredOnce
  <2>3. QED
    BY <1>1, <2>1, <2>2 DEF Commit, Base, Jobs, Job
<1>2. ASSUME NEW e \in Entries, DispatchTimeout(e) PROVE StoredOnce(t)'
  BY <1>2, MessageFacts DEF DispatchTimeout, StoredOnce, Base, TypeOK
<1>3. ASSUME UNCHANGED <<queue, store>> PROVE StoredOnce(t)'
  BY <1>3 DEF StoredOnce
<1>4. ASSUME NEW h \in Handlers, Handle(h) \/ Rollback(h) PROVE StoredOnce(t)'
  BY <1>1, <1>3, <1>4 DEF Handle, Rollback, AddTimeout, PushTimeout, ClearTimeoutsFor,
     ClearTimeout, HandleDispatch
<1>5. CASE Run
  BY <1>2, <1>3, <1>5 DEF Run, GetAll, StartPolling, Wake, SlotDispatched, PushExisting, Pop
<1>6. CASE Tick \/ Crash \/ UNCHANGED vars \/ \E e \in Entries : DispatchFails(e)
  BY <1>3, <1>6 DEF Tick, Crash, vars, DispatchFails
<1>7. QED
  BY <1>4, <1>5, <1>6 DEF Next

LEMMA AccountsStep ==
  ASSUME Base, Base', Accounts, [Next]_vars
  PROVE  Accounts'
<1>1. HandlersWait'
  BY HandlersWaitStep DEF Accounts
<1>2. ASSUME NEW t \in Timeouts PROVE StoredOnce(t)' /\ Account(t)'
  <2>1. StoredOnce(t) /\ Account(t) /\ HandlersWait
    BY DEF Accounts
  <2>2. StoredOnce(t)'
    BY <2>1, StoredOnceStep
  <2>3. ASSUME NEW h \in Handlers, Handle(h) \/ Rollback(h) PROVE Account(t)'
    BY <2>1, <2>3, AccountAddTimeout, AccountPushTimeout, AccountClears, AccountCommit,
       AccountRollback DEF Handle
  <2>4. CASE Tick \/ UNCHANGED vars
    <3>1. \A e \in Entries : Weight(e)' = Weight(e)
      BY <2>4 DEF Weight, Tick, vars, runnerVars
    <3>2. ToCome(t)' = ToCome(t)
      BY <2>4, SameToCome DEF Tick, vars, handlerVars
    <3>3. delivered' = delivered /\ handlersFirst' = handlersFirst /\ disturbances' = disturbances
      BY <2>4 DEF Tick, vars, historyVars
    <3>4. \A e \in Entries : Weight(e)' <= Weight(e)
      BY <3>1, WeightType DEF Base
    <3>5. ToCome(t)' - ToCome(t) <= disturbances' - disturbances /\ delivered'[t] = delivered[t]
      BY <3>2, <3>3, ToComeType DEF Base, TypeOK
    <3>6. TypeOK /\ TypeOK' /\ Account(t)
      BY <2>1 DEF Base
    <3>7. QED
      BY <2>2, <3>3, <3>4, <3>5, <3>6, AccountKept
  <2>5. QED
    BY <2>1, <2>2, <2>3, <2>4, AccountRun, AccountDispatchFails, AccountCrash DEF Next
<1>3. QED
  BY <1>1, <1>2 DEF Accounts

(* Each delivery after the first has a reason of its own: a crash, a       *)
(* rollback or a failed send, or that the handlers ran before the cache    *)
(* was filled, however many threads there are.                             *)
THEOREM RepeatedForAReasonCorrect == Spec => []RepeatedForAReason
<1>1. Base /\ Accounts => RepeatedForAReason
  <2> SUFFICES ASSUME Base, Accounts, NEW t \in Timeouts
               PROVE  delivered[t] <= 1 + disturbances + (IF handlersFirst THEN 1 ELSE 0)
    BY DEF RepeatedForAReason
  <2>1. Account(t) /\ delivered[t] \in Nat /\ disturbances \in Nat
    BY DEF Accounts, Base, TypeOK
  <2>2. Cardinality(OnTheWay(t)) \in Nat /\ ToCome(t) \in 0..2
    BY <2>1, FS_CardinalityType, ToComeType DEF Account
  <2>3. QED
    BY <2>1, <2>2 DEF Account, Late
<1>2. Spec => []Base
  BY BaseFacts, Layer1Correct, HandsCorrect, PTL
<1>3. Base /\ Base' /\ Accounts /\ [Next]_vars => Accounts'
  BY AccountsStep
<1>4. QED
  BY <1>1, <1>2, <1>3, AccountsInit, PTL DEF Spec
=============================================================================
