--------------------------- MODULE TimeoutManager ---------------------------
(***************************************************************************)
(* The timeout manager of an endpoint: requests to store and to clear      *)
(* timeouts arrive in its input queue and are handled in a transaction by  *)
(* several threads; a polling thread takes the timeouts that are due from  *)
(* a cache in memory and sends a dispatch request to that same queue; the  *)
(* handler of the request sends the timeout to its destination and removes *)
(* it from storage.                                                        *)
(*                                                                         *)
(* The store and the queues take part in the transaction, the cache does   *)
(* not: what a handler pushes is there before the transaction commits, and *)
(* is still there when it does not.  At a restart the cache is filled from *)
(* the store while the handlers may already be running.                    *)
(***************************************************************************)
EXTENDS Naturals, FiniteSets

CONSTANTS
  Timeouts,           \* timeouts requested by clients, one message each
  Sagas, SagaOf,      \* the saga a timeout belongs to
  Due,                \* when it expires
  Copies,             \* ids the persister gives out
  Handlers,           \* worker threads of the manager's input transport
  Interval,           \* DefaultTimeoutManager.duration
  MaxTime,            \* bound on the clock
  MaxDisturbances,    \* bound on crashes, rollbacks and failed sends
  NoMessage

ASSUME TimeoutsAssumption ==
  /\ SagaOf \in [Timeouts -> Sagas]
  /\ Due \in [Timeouts -> Nat]
  /\ Interval \in Nat \ {0}
  /\ MaxTime \in Nat /\ MaxDisturbances \in Nat
  /\ IsFiniteSet(Handlers)

(* A timeout in storage has an id of its own: a request that is handled    *)
(* again after a rollback is stored under another id.                      *)
Entries == Timeouts \X Copies
TimeoutOf(e) == e[1]
Saga(e) == SagaOf[TimeoutOf(e)]
DueAt(e) == Due[TimeoutOf(e)]

Store(t) == [type |-> "store", timeout |-> t]
Clear(s) == [type |-> "clear", saga |-> s]
Dispatch(e) == [type |-> "dispatch", entry |-> e]
Messages == {Store(t) : t \in Timeouts} \cup {Clear(s) : s \in Sagas}
              \cup {Dispatch(e) : e \in Entries}

ASSUME NoMessageAssumption == NoMessage \notin Messages

VARIABLES
  now,
  queue,              \* input queue: unconsumed messages, those in hand included
  store,              \* committed contents of the persister
  used,               \* ids the persister has given out
  pc, job,            \* per handler: next step and message in hand
  adds, deletes,      \* per handler: what its transaction does to the store
  cache,              \* data of DefaultTimeoutManager: occurrences of each entry
  polling,            \* what the polling thread does next
  loading,            \* entries GetAll returned that are yet to be pushed
  popped,             \* the slot taken from the cache: occurrences
  handlersFirst,      \* the handlers start before the cache is filled
  delivered,          \* messages sent to the destination of each timeout
  cleared,            \* sagas whose clear request was committed
  revoked,            \* entries cleared from the cache since the start
  undispatched,       \* timeouts whose dispatch request could not be sent
  disturbances        \* bookkeeping

handlerVars == <<pc, job, adds, deletes>>
runnerVars == <<polling, loading, popped>>
historyVars == <<delivered, cleared, revoked, undispatched>>
vars == <<now, queue, store, used, handlerVars, cache, runnerVars, handlersFirst,
          historyVars, disturbances>>

NoEntries == [e \in Entries |-> 0]

Disturb == /\ disturbances < MaxDisturbances
           /\ disturbances' = disturbances + 1

InHand(m) == {h \in Handlers : job[h] = m}

Running == handlersFirst \/ polling \notin {"getAll", "loading"}

(* Every timeout is requested; some sagas complete and are cleared.        *)
Requested(completed) ==
  [m \in Messages |->
     IF m.type = "store" \/ (m.type = "clear" /\ m.saga \in completed) THEN 1 ELSE 0]

Init ==
  /\ now = 0
  /\ \E completed \in SUBSET Sagas : queue = Requested(completed)
  /\ store = {}
  /\ used = {}
  /\ pc = [h \in Handlers |-> "idle"]
  /\ job = [h \in Handlers |-> NoMessage]
  /\ adds = [h \in Handlers |-> {}]
  /\ deletes = [h \in Handlers |-> {}]
  /\ cache = NoEntries
  /\ polling = "getAll"
  /\ loading = {}
  /\ popped = NoEntries
  /\ handlersFirst \in BOOLEAN
  /\ delivered = [t \in Timeouts |-> 0]
  /\ cleared = {}
  /\ revoked = {}
  /\ undispatched = {}
  /\ disturbances = 0

Tick == /\ now < MaxTime
        /\ now' = now + 1
        /\ UNCHANGED <<queue, store, used, handlerVars, cache, runnerVars,
                       handlersFirst, historyVars, disturbances>>
-----------------------------------------------------------------------------
(* Mutant of Take: a message another handler has in hand is seen.          *)
TakeAny(h, m) ==
  /\ Running
  /\ pc[h] = "idle"
  /\ queue[m] > 0
  /\ job' = [job EXCEPT ![h] = m]

(* The handlers.  Each takes a message inside a transaction, so that it is *)
(* consumed when the transaction commits.                                  *)
Take(h, m) ==
  /\ Running
  /\ pc[h] = "idle"
  /\ Cardinality(InHand(m)) < queue[m]
  /\ job' = [job EXCEPT ![h] = m]

(* Persister.Add: the new id is known at once, the entry at commit.        *)
NewId(t) == CHOOSE c \in Copies : <<t, c>> \notin used

AddTimeout(h, t, c) ==
  /\ Take(h, Store(t))
  /\ <<t, c>> \notin used
  /\ c = NewId(t)
  /\ used' = used \cup {<<t, c>>}
  /\ adds' = [adds EXCEPT ![h] = {<<t, c>>}]
  /\ pc' = [pc EXCEPT ![h] = "push"]
  /\ UNCHANGED <<now, queue, store, deletes, cache, runnerVars, handlersFirst,
                 historyVars, disturbances>>

(* Manager.PushTimeout.                                                    *)
PushTimeout(h) ==
  /\ pc[h] = "push"
  /\ cache' = [e \in Entries |-> IF e \in adds[h] THEN cache[e] + 1 ELSE cache[e]]
  /\ pc' = [pc EXCEPT ![h] = "commit"]
  /\ UNCHANGED <<now, queue, store, used, job, adds, deletes, runnerVars, handlersFirst,
                 historyVars, disturbances>>

(* Persister.ClearTimeoutsFor: the index it asks need not know the entries *)
(* that were stored last (Raven), so some may be missed.                   *)
ClearTimeoutsFor(h, s, found) ==
  /\ Take(h, Clear(s))
  /\ found \subseteq {e \in store : Saga(e) = s}
  /\ deletes' = [deletes EXCEPT ![h] = found]
  /\ pc' = [pc EXCEPT ![h] = "clear"]
  /\ UNCHANGED <<now, queue, store, used, adds, cache, runnerVars, handlersFirst,
                 historyVars, disturbances>>

(* Mutant of ClearTimeout: the cache is not told.                          *)
ClearTimeoutNotCached(h) ==
  /\ pc[h] = "clear"
  /\ revoked' = revoked \cup {e \in Entries : Saga(e) = job[h].saga /\ cache[e] > 0}
  /\ pc' = [pc EXCEPT ![h] = "commit"]
  /\ UNCHANGED <<now, queue, store, used, job, adds, deletes, cache, runnerVars,
                 handlersFirst, delivered, cleared, undispatched, disturbances>>

(* Manager.ClearTimeout: at once, the transaction may yet roll back.       *)
ClearTimeout(h) ==
  /\ pc[h] = "clear"
  /\ LET s == job[h].saga
     IN /\ cache' = [e \in Entries |-> IF Saga(e) = s THEN 0 ELSE cache[e]]
        /\ revoked' = revoked \cup {e \in Entries : Saga(e) = s /\ cache[e] > 0}
  /\ pc' = [pc EXCEPT ![h] = "commit"]
  /\ UNCHANGED <<now, queue, store, used, job, adds, deletes, runnerVars, handlersFirst,
                 delivered, cleared, undispatched, disturbances>>

(* TimeoutDispatchHandler: the send and the removal wait for the commit.   *)
HandleDispatch(h, e) ==
  /\ Take(h, Dispatch(e))
  /\ deletes' = [deletes EXCEPT ![h] = {e}]
  /\ pc' = [pc EXCEPT ![h] = "commit"]
  /\ UNCHANGED <<now, queue, store, used, adds, cache, runnerVars, handlersFirst,
                 historyVars, disturbances>>

EndJob(h) ==
  /\ pc' = [pc EXCEPT ![h] = "idle"]
  /\ job' = [job EXCEPT ![h] = NoMessage]
  /\ adds' = [adds EXCEPT ![h] = {}]
  /\ deletes' = [deletes EXCEPT ![h] = {}]

(* A deletion of an entry that another transaction has yet to commit finds *)
(* nothing to delete.                                                      *)
Commit(h) ==
  /\ pc[h] = "commit"
  /\ queue' = [queue EXCEPT ![job[h]] = @ - 1]
  /\ store' = (store \ deletes[h]) \cup adds[h]
  /\ delivered' = IF job[h].type = "dispatch"
                  THEN [delivered EXCEPT ![TimeoutOf(job[h].entry)] = @ + 1]
                  ELSE delivered
  /\ cleared' = IF job[h].type = "clear" THEN cleared \cup {job[h].saga} ELSE cleared
  /\ EndJob(h)
  /\ UNCHANGED <<now, used, cache, runnerVars, handlersFirst, revoked, undispatched,
                 disturbances>>

(* Mutant of Rollback: the message was received in no transaction.         *)
RollbackConsumes(h) ==
  /\ pc[h] # "idle"
  /\ Disturb
  /\ EndJob(h)
  /\ queue' = [queue EXCEPT ![job[h]] = @ - 1]
  /\ UNCHANGED <<now, store, used, cache, runnerVars, handlersFirst, historyVars>>

(* The transaction rolls back wherever the handler is: the message is in   *)
(* the queue again, what was done to the cache is not undone.              *)
Rollback(h) ==
  /\ pc[h] # "idle"
  /\ Disturb
  /\ EndJob(h)
  /\ UNCHANGED <<now, queue, store, used, cache, runnerVars, handlersFirst, historyVars>>
-----------------------------------------------------------------------------
(* Mutant of GetAll: what is overdue is left out.                          *)
GetAllToCome ==
  /\ polling = "getAll"
  /\ loading' = {e \in store : DueAt(e) >= now}
  /\ polling' = "loading"
  /\ UNCHANGED <<now, queue, store, used, handlerVars, cache, popped, handlersFirst,
                 historyVars, disturbances>>

(* TimeoutRunner: CacheExistingTimeouts, then PopTimeout for ever.         *)
GetAll ==
  /\ polling = "getAll"
  /\ loading' = store
  /\ polling' = "loading"
  /\ UNCHANGED <<now, queue, store, used, handlerVars, cache, popped, handlersFirst,
                 historyVars, disturbances>>

PushExisting(e) ==
  /\ polling = "loading"
  /\ e \in loading
  /\ loading' = loading \ {e}
  /\ cache' = [cache EXCEPT ![e] = @ + 1]
  /\ UNCHANGED <<now, queue, store, used, handlerVars, polling, popped, handlersFirst,
                 historyVars, disturbances>>

StartPolling ==
  /\ polling = "loading"
  /\ loading = {}
  /\ polling' = "pop"
  /\ UNCHANGED <<now, queue, store, used, handlerVars, cache, loading, popped,
                 handlersFirst, historyVars, disturbances>>

(* PopTimeout takes the slot of the earliest time when that is less than   *)
(* the interval away, and sleeps until it has come.                        *)
Earliest(d) ==
  /\ \E e \in Entries : cache[e] > 0 /\ DueAt(e) = d
  /\ \A e \in Entries : cache[e] > 0 => d <= DueAt(e)

(* Mutant of Pop: the slot stays in the cache.                             *)
PopKeepsSlot(d) ==
  /\ polling = "pop"
  /\ Earliest(d)
  /\ d < now + Interval
  /\ popped' = [e \in Entries |-> IF DueAt(e) = d THEN cache[e] ELSE 0]
  /\ polling' = "sleep"
  /\ UNCHANGED <<now, queue, store, used, handlerVars, cache, loading, handlersFirst,
                 historyVars, disturbances>>

(* Mutant of Wake: the thread does not sleep until the slot is due.        *)
WakeEarly ==
  /\ polling = "sleep"
  /\ polling' = "dispatch"
  /\ UNCHANGED <<now, queue, store, used, handlerVars, cache, loading, popped,
                 handlersFirst, historyVars, disturbances>>

Pop(d) ==
  /\ polling = "pop"
  /\ Earliest(d)
  /\ d < now + Interval
  /\ popped' = [e \in Entries |-> IF DueAt(e) = d THEN cache[e] ELSE 0]
  /\ cache' = [e \in Entries |-> IF DueAt(e) = d THEN 0 ELSE cache[e]]
  /\ polling' = "sleep"
  /\ UNCHANGED <<now, queue, store, used, handlerVars, loading, handlersFirst,
                 historyVars, disturbances>>

Wake ==
  /\ polling = "sleep"
  /\ \A e \in Entries : popped[e] > 0 => DueAt(e) <= now
  /\ polling' = "dispatch"
  /\ UNCHANGED <<now, queue, store, used, handlerVars, cache, loading, popped,
                 handlersFirst, historyVars, disturbances>>

(* DispatchTimeout sends the request, in no transaction.                   *)
DispatchTimeout(e) ==
  /\ polling = "dispatch"
  /\ popped[e] > 0
  /\ queue' = [queue EXCEPT ![Dispatch(e)] = @ + 1]
  /\ popped' = [popped EXCEPT ![e] = @ - 1]
  /\ UNCHANGED <<now, store, used, handlerVars, cache, polling, loading, handlersFirst,
                 historyVars, disturbances>>

(* The send fails: the others of the slot are sent, this one is not        *)
(* tried again before the next restart.                                    *)
DispatchFails(e) ==
  /\ polling = "dispatch"
  /\ popped[e] > 0
  /\ Disturb
  /\ popped' = [popped EXCEPT ![e] = @ - 1]
  /\ undispatched' = undispatched \cup {TimeoutOf(e)}
  /\ UNCHANGED <<now, queue, store, used, handlerVars, cache, polling, loading,
                 handlersFirst, delivered, cleared, revoked>>

SlotDispatched ==
  /\ polling = "dispatch"
  /\ popped = NoEntries
  /\ polling' = "pop"
  /\ UNCHANGED <<now, queue, store, used, handlerVars, cache, loading, popped,
                 handlersFirst, historyVars, disturbances>>
-----------------------------------------------------------------------------
(* The process dies and starts again.                                      *)
Crash ==
  /\ Disturb
  /\ pc' = [h \in Handlers |-> "idle"]
  /\ job' = [h \in Handlers |-> NoMessage]
  /\ adds' = [h \in Handlers |-> {}]
  /\ deletes' = [h \in Handlers |-> {}]
  /\ cache' = NoEntries
  /\ polling' = "getAll"
  /\ loading' = {}
  /\ popped' = NoEntries
  /\ revoked' = {}
  /\ UNCHANGED <<now, queue, store, used, handlersFirst, delivered, cleared, undispatched>>

Handle(h) ==
  \/ \E t \in Timeouts, c \in Copies : AddTimeout(h, t, c)
  \/ PushTimeout(h)
  \/ \E s \in Sagas : \E found \in SUBSET store : ClearTimeoutsFor(h, s, found)
  \/ ClearTimeout(h)
  \/ \E e \in Entries : HandleDispatch(h, e)
  \/ Commit(h)

Run ==
  \/ GetAll \/ StartPolling \/ Wake \/ SlotDispatched
  \/ \E e \in Entries : PushExisting(e) \/ DispatchTimeout(e)
  \/ \E t \in Timeouts : Pop(Due[t])

Next ==
  \/ Tick \/ Crash \/ Run
  \/ \E h \in Handlers : Handle(h) \/ Rollback(h)
  \/ \E e \in Entries : DispatchFails(e)

(* Time passes, the polling thread polls, the worker threads work.         *)
Spec ==
  /\ Init /\ [][Next]_vars
  /\ WF_vars(Tick) /\ WF_vars(Run)
  /\ \A h \in Handlers : WF_vars(Handle(h))
-----------------------------------------------------------------------------
TypeOK ==
  /\ now \in 0..MaxTime
  /\ queue \in [Messages -> Nat]
  /\ store \subseteq used /\ used \subseteq Entries
  /\ pc \in [Handlers -> {"idle", "push", "clear", "commit"}]
  /\ job \in [Handlers -> Messages \cup {NoMessage}]
  /\ adds \in [Handlers -> SUBSET used]
  /\ deletes \in [Handlers -> SUBSET used]
  /\ cache \in [Entries -> Nat]
  /\ polling \in {"getAll", "loading", "pop", "sleep", "dispatch"}
  /\ loading \subseteq used
  /\ popped \in [Entries -> Nat]
  /\ handlersFirst \in BOOLEAN
  /\ delivered \in [Timeouts -> Nat]
  /\ cleared \subseteq Sagas
  /\ revoked \subseteq used
  /\ undispatched \subseteq Timeouts
  /\ disturbances \in Nat

(* No timeout is lost, whatever crashes and rolls back: until it reaches   *)
(* its destination or its saga is cleared, the request to store it or one  *)
(* to dispatch it is in the queue, or it is in the store.                  *)
NothingLost ==
  \A t \in Timeouts :
    \/ delivered[t] > 0
    \/ SagaOf[t] \in cleared
    \/ queue[Store(t)] > 0
    \/ \E e \in Entries : TimeoutOf(e) = t /\ (e \in store \/ queue[Dispatch(e)] > 0)

(* No timeout reaches its destination before it is due.                    *)
NeverEarly == \A t \in Timeouts : delivered[t] > 0 => Due[t] <= now

(* A timeout is delivered again only for a reason: a crash, a rollback, or *)
(* a start at which the handlers came before CacheExistingTimeouts.        *)
RepeatedForAReason ==
  \A t \in Timeouts :
    delivered[t] <= 1 + disturbances + (IF handlersFirst THEN 1 ELSE 0)

(* ClearTimeout reaches what is in the cache: as long as the process lives *)
(* no dispatch request is sent for it, when the cache was filled first.    *)
RevokedNotDispatched ==
  [][\A e \in revoked : ~ handlersFirst => queue'[Dispatch(e)] <= queue[Dispatch(e)]]_vars

(* Every timeout is delivered, unless its saga is cleared or the request   *)
(* to dispatch it could not be sent.                                       *)
EveryDelivered ==
  <>(\A t \in Timeouts : delivered[t] > 0 \/ SagaOf[t] \in cleared \/ t \in undispatched)
=============================================================================
