------------------------------- MODULE Sagas -------------------------------
(***************************************************************************)
(* Sagas of one type, whose data has one unique property.  A worker thread *)
(* finds the saga a message is for, invokes it, hands it to the persister  *)
(* and ends the unit of work; then the transaction of the message commits  *)
(* or the message is tried again.                                          *)
(*                                                                         *)
(* The persister in memory shares the objects themselves.  The other one   *)
(* keeps two kinds of documents in Raven, one per saga and one per value   *)
(* of the unique property, and works on a session that belongs to the      *)
(* thread: it ends with the unit of work, except when its own SaveChanges  *)
(* has thrown.  With the transaction of the thread what a session saves    *)
(* becomes visible when the transaction commits, and until then nobody     *)
(* else can write these documents and whoever loads them waits; without it *)
(* it is visible at once.                                                  *)
(***************************************************************************)
EXTENDS Naturals, FiniteSets

CONSTANTS
  Configurations,     \* persister, whether the handling is part of the
                      \* message's transaction, and the messages there are
  Threads,
  Messages,
  Starters,           \* messages that start a saga: IAmStartedByMessages
  Values,             \* values of the unique property
  ValueOf,            \* the value each message is correlated by
  Answers, RequestOf, \* messages with the id of a saga in their header: the
                      \* answer to what the saga sent when it handled RequestOf
  Ids,                \* ids of saga entities
  NoSaga, NoMessage,
  MaxRetries,         \* attempts of the transport at one message
  MaxDisturbances     \* bound on restarts and on transactions that fail

ASSUME MessagesAssumption ==
  /\ Starters \subseteq Messages /\ Answers \subseteq Messages \ Starters
  /\ ValueOf \in [Messages -> Values]
  /\ RequestOf \in [Answers -> Messages]
  /\ NoMessage \notin Messages
ASSUME ConfigurationsAssumption ==
  \A c \in Configurations : c[1] \in {"InMemory", "Raven"} /\ c[2] \in BOOLEAN
ASSUME SagasAssumption == Ids \subseteq Nat /\ NoSaga \notin Ids
ASSUME BoundsAssumption == MaxRetries \in Nat \ {0} /\ MaxDisturbances \in Nat

VARIABLES
  persister,          \* "InMemory" or "Raven"
  ambient,            \* the handling is part of the message's transaction
  saved,              \* sagas in the store
  data,               \* their entities
  unique,             \* value -> saga: the documents SagaUniqueIdentity
  session,            \* of each thread
  tx,                 \* what the transaction of each thread will change
  step, message, entity, persistent, \* of each thread: locals of the dispatcher
  status,             \* of each message
  failures,           \* of each message, in memory
  header,             \* SagaId of each answer, NoSaga until it is sent
  cleared,            \* sagas whose timeouts the timeout manager shall clear
  disturbances,
  handledBy,          \* history: the saga that handled each message
  spoiled,            \* history: messages whose SaveChanges has thrown
  risked              \* history: values whose uniqueness was put at risk

configVars == <<persister, ambient>>
storeVars == <<saved, data, unique, cleared, header>>
threadVars == <<step, message, entity, persistent>>
messageVars == <<status, failures, handledBy, spoiled>>
vars == <<configVars, storeVars, session, tx, threadVars, messageVars,
          disturbances, risked>>

Disturb == disturbances < MaxDisturbances /\ disturbances' = disturbances + 1

(* Partial functions: none, f with y for x, f and elsewhere g, f without   *)
(* the members of S.                                                       *)
Nothing == [x \in {} |-> x]
With(f, x, y) == [z \in DOMAIN f \cup {x} |-> IF z = x THEN y ELSE f[z]]
Merge(f, g) == [x \in DOMAIN f \cup DOMAIN g |-> IF x \in DOMAIN f THEN f[x] ELSE g[x]]
Without(f, S) == [x \in DOMAIN f \ S |-> f[x]]

(* Entities the session tracks and the new or modified ones among them,    *)
(* the ones another session has written since they were loaded, the ones   *)
(* to be deleted; documents of values, and the new ones among them.        *)
NewSession == [entities |-> Nothing, changed |-> {}, stale |-> {}, removed |-> {},
               lookups |-> Nothing, added |-> {}]

(* What a transaction will put and remove, which values it links to which  *)
(* saga or to none, and the messages it will send.                         *)
NoChanges == [puts |-> Nothing, drops |-> {}, links |-> Nothing,
              clears |-> {}, asks |-> Nothing]
-----------------------------------------------------------------------------
Init ==
  /\ \E p \in Configurations :
       /\ persister = p[1] /\ ambient = p[2]
       /\ status = [m \in Messages |-> IF m \in p[3] THEN "queued" ELSE "none"]
  /\ saved = {} /\ data = Nothing
  /\ unique = [v \in Values |-> NoSaga]
  /\ session = [t \in Threads |-> NewSession]
  /\ tx = [t \in Threads |-> NoChanges]
  /\ step = [t \in Threads |-> "idle"]
  /\ message = [t \in Threads |-> NoMessage]
  /\ entity = [t \in Threads |-> NoSaga]
  /\ persistent = [t \in Threads |-> FALSE]
  /\ failures = [m \in Messages |-> 0]
  /\ header = [a \in Answers |-> NoSaga]
  /\ cleared = {}
  /\ disturbances = 0
  /\ handledBy = [m \in Messages |-> NoSaga]
  /\ spoiled = {} /\ risked = {}
-----------------------------------------------------------------------------
(* Documents another transaction has written and not committed.            *)
LockedSagas(t) == UNION {DOMAIN tx[u].puts \cup tx[u].drops : u \in Threads \ {t}}
LockedValues(t) == UNION {DOMAIN tx[u].links : u \in Threads \ {t}}

(* The document of a value as transaction t sees it.                       *)
Linked(t, v) == IF v \in DOMAIN tx[t].links THEN tx[t].links[v] ELSE unique[v]

(* The changes c are made, and the sessions that track one of the          *)
(* documents have an old version of it.                                    *)
Apply(c) ==
  /\ saved' = (saved \cup DOMAIN c.puts) \ c.drops
  /\ data' = Without(Merge(c.puts, data), c.drops)
  /\ unique' = Merge(c.links, unique)
  /\ cleared' = cleared \cup c.clears
  /\ header' = Merge(c.asks, header)

Outdate(s, c) == [s EXCEPT !.stale = @ \cup
                    (DOMAIN s.entities \cap (DOMAIN c.puts \cup c.drops))]

(* A change is made at once, or left to the transaction of the thread.     *)
Change(t, c) ==
  IF ambient
  THEN /\ tx' = [tx EXCEPT ![t] =
                   [puts |-> Merge(c.puts, tx[t].puts), drops |-> c.drops \cup tx[t].drops,
                    links |-> Merge(c.links, tx[t].links),
                    clears |-> c.clears \cup tx[t].clears,
                    asks |-> Merge(c.asks, tx[t].asks)]]
       /\ UNCHANGED storeVars
  ELSE Apply(c) /\ UNCHANGED tx

Goto(t, s) == step' = [step EXCEPT ![t] = s]

(* Guids: an id nothing refers to.                                         *)
Free(i) ==
  /\ i \notin saved \cup cleared
  /\ \A t \in Threads :
       /\ i # entity[t]
       /\ i \notin DOMAIN session[t].entities \cup DOMAIN tx[t].puts
  /\ \A m \in Messages : handledBy[m] # i
  /\ \A a \in Answers : header[a] # i

(* CreateNewSagaEntity, when the message may start a saga.                 *)
NotFound(t) ==
  IF message[t] \in Starters
  THEN /\ \E i \in Ids : /\ Free(i) /\ \A j \in Ids : Free(j) => i <= j
                           /\ entity' = [entity EXCEPT ![t] = i]
       /\ persistent' = [persistent EXCEPT ![t] = FALSE]
       /\ Goto(t, "invoke")
  ELSE /\ entity' = [entity EXCEPT ![t] = NoSaga]
       /\ Goto(t, "end")
       /\ UNCHANGED persistent

Found(t, i) ==
  /\ entity' = [entity EXCEPT ![t] = i]
  /\ persistent' = [persistent EXCEPT ![t] = TRUE]
  /\ Goto(t, "invoke")
-----------------------------------------------------------------------------
(* The transport receives a message; one with the id of a saga needs no    *)
(* document of a value.                                                    *)
Receive(t, m) ==
  /\ step[t] = "idle"
  /\ status[m] = "queued"
  /\ m \in Answers => header[m] # NoSaga
  /\ status' = [status EXCEPT ![m] = "held"]
  /\ message' = [message EXCEPT ![t] = m]
  /\ IF m \in Answers
     THEN entity' = [entity EXCEPT ![t] = header[m]] /\ Goto(t, "load")
     ELSE UNCHANGED entity /\ Goto(t, "find")
  /\ UNCHANGED <<configVars, storeVars, session, tx, persistent, failures,
                 handledBy, spoiled, disturbances, risked>>

(* InMemorySagaPersister.Get, by the unique property or by id.             *)
GetFromMemory(t) ==
  /\ persister = "InMemory"
  /\ LET Matches == IF step[t] = "load" THEN saved \cap {entity[t]}
                    ELSE {i \in saved : data[i].value = ValueOf[message[t]]}
     IN /\ step[t] \in {"find", "load"}
        /\ IF Matches = {} THEN NotFound(t) ELSE \E i \in Matches : Found(t, i)
  /\ UNCHANGED <<configVars, storeVars, session, tx, message, messageVars,
                 disturbances, risked>>

(* GetByUniqueProperty: the document of the value, tracked or loaded ...   *)
LoadLookup(t) ==
  LET v == ValueOf[message[t]] IN
  /\ persister = "Raven"
  /\ step[t] = "find"
  /\ v \in DOMAIN session[t].lookups \/ v \notin LockedValues(t)
  /\ LET i == IF v \in DOMAIN session[t].lookups THEN session[t].lookups[v] ELSE unique[v]
     IN IF i = NoSaga
        THEN NotFound(t) /\ UNCHANGED session
        ELSE /\ session' = [session EXCEPT ![t].lookups = With(@, v, i)]
             /\ entity' = [entity EXCEPT ![t] = i]
             /\ Goto(t, "load")
             /\ UNCHANGED persistent
  /\ UNCHANGED <<configVars, storeVars, tx, message, messageVars, disturbances,
                 risked>>

(* ... and the saga it names.                                              *)
LoadSaga(t) ==
  LET i == entity[t] IN
  /\ persister = "Raven"
  /\ step[t] = "load"
  /\ i \in DOMAIN session[t].entities \/ i \notin LockedSagas(t)
  /\ IF i \in DOMAIN session[t].entities
     THEN Found(t, i) /\ UNCHANGED session
     ELSE IF i \in saved
     THEN /\ Found(t, i)
          /\ session' = [session EXCEPT ![t].entities = With(@, i, data[i])]
     ELSE NotFound(t) /\ UNCHANGED session
  /\ UNCHANGED <<configVars, storeVars, tx, message, messageVars, disturbances,
                 risked>>
-----------------------------------------------------------------------------
(* What handling m does to the data of a saga: it may change the value,    *)
(* and it has an effect which is there more than once if the handling is   *)
(* repeated.                                                               *)
Effect(d, m, w) == [value |-> w, applied |-> d.applied \cup {m},
                    repeated |-> d.repeated \/ m \in d.applied]

Created(m) == [value |-> ValueOf[m], applied |-> {m}, repeated |-> FALSE]

(* The saga sends a request of its own; its answer will have the id.       *)
Asks(t) == [a \in {b \in Answers : RequestOf[b] = message[t] /\ header[b] = NoSaga}
              |-> entity[t]]

(* ClearTimeoutsFor, when the saga has completed.                          *)
Sends(t, completed) ==
  [NoChanges EXCEPT !.asks = Asks(t),
                    !.clears = IF completed THEN {entity[t]} ELSE {}]

(* ValidateUniqueProperties.                                               *)
Valid(i, w) == \A j \in saved \ {i} : data[j].value # w

(* InMemorySagaPersister.Save, Update and Complete.  The object is the one *)
(* that is in the store.                                                   *)
InvokeInMemory(t, w, completed) ==
  LET i == entity[t]
      d == IF persistent[t] THEN Effect(data[i], message[t], w) ELSE Created(message[t])
      c == Sends(t, completed)
  IN
  /\ persister = "InMemory"
  /\ completed \/ Valid(i, d.value)
  /\ data' = IF completed /\ \A u \in Threads \ {t} : entity[u] # i
             THEN Without(data, {i}) ELSE With(data, i, d)
  /\ saved' = IF completed THEN IF persistent[t] THEN saved \ {i} ELSE saved
              ELSE saved \cup {i}
  /\ IF ambient
     THEN tx' = [tx EXCEPT ![t] = c] /\ UNCHANGED <<cleared, header>>
     ELSE cleared' = cleared \cup c.clears /\ header' = Merge(c.asks, header) /\ UNCHANGED tx
  /\ Goto(t, "end")
  /\ UNCHANGED <<unique, session, risked>>

(* Mutant of Save: the document of the value is forgotten.                 *)
SaveOnly(t, completed) ==
  LET d == Created(message[t]) IN
  /\ persister = "Raven" /\ ~ persistent[t]
  /\ Change(t, Sends(t, completed))
  /\ IF completed
     THEN UNCHANGED session
     ELSE session' = [session EXCEPT
            ![t].entities = With(@, entity[t], d),
            ![t].changed = @ \cup {entity[t]}]
  /\ Goto(t, "end")
  /\ UNCHANGED risked

(* RavenSagaPersister.Save; Store throws if the session has a document of  *)
(* the value.                                                              *)
Save(t, completed) ==
  LET d == Created(message[t]) IN
  /\ persister = "Raven" /\ ~ persistent[t]
  /\ Change(t, Sends(t, completed))
  /\ IF completed
     THEN UNCHANGED session
     ELSE /\ d.value \notin DOMAIN session[t].lookups
          /\ session' = [session EXCEPT
               ![t].entities = With(@, entity[t], d),
               ![t].changed = @ \cup {entity[t]},
               ![t].lookups = With(@, d.value, entity[t]),
               ![t].added = @ \cup {d.value}]
  /\ Goto(t, "end")
  /\ UNCHANGED risked

(* DeleteUniqueProperty goes to the database at once, with the             *)
(* transaction of the thread if there is one, and whatever the document.   *)
Unlink(t, v, c) ==
  /\ v \notin LockedValues(t)
  /\ Change(t, [c EXCEPT !.links = With(Nothing, v, NoSaga)])
  /\ risked' = IF ambient /\ Linked(t, v) \in {entity[t], NoSaga} THEN risked
               ELSE risked \cup {v}

(* RavenSagaPersister.Update.                                              *)
Update(t, w) ==
  LET i == entity[t]
      d == session[t].entities[i]
  IN
  /\ persister = "Raven" /\ persistent[t]
  /\ IF w = d.value
     THEN /\ Change(t, Sends(t, FALSE))
          /\ session' = [session EXCEPT
               ![t].entities = With(@, i, Effect(d, message[t], w)),
               ![t].changed = @ \cup {i}]
          /\ UNCHANGED risked
     ELSE /\ w \notin DOMAIN session[t].lookups
          /\ Unlink(t, d.value, Sends(t, FALSE))
          /\ session' = [session EXCEPT
               ![t].entities = With(@, i, Effect(d, message[t], w)),
               ![t].changed = @ \cup {i},
               ![t].lookups = With(@, w, i),
               ![t].added = @ \cup {w}]
  /\ Goto(t, "end")

(* RavenSagaPersister.Complete: the document of the present value goes.    *)
Complete(t, w) ==
  LET i == entity[t] IN
  /\ persister = "Raven" /\ persistent[t]
  /\ session' = [session EXCEPT
       ![t].entities = With(@, i, Effect(session[t].entities[i], message[t], w)),
       ![t].removed = @ \cup {i}]
  /\ Unlink(t, w, Sends(t, TRUE))
  /\ Goto(t, "end")

Invoke(t) ==
  /\ step[t] = "invoke"
  /\ \E w \in Values, completed \in BOOLEAN :
       \/ InvokeInMemory(t, w, completed)
       \/ Save(t, completed)
       \/ ~ completed /\ Update(t, w)
       \/ completed /\ Complete(t, w)
  /\ UNCHANGED <<configVars, message, entity, persistent, messageVars, disturbances>>
-----------------------------------------------------------------------------
(* The thread is done with the message.                                    *)
Release(t) ==
  /\ message' = [message EXCEPT ![t] = NoMessage]
  /\ entity' = [entity EXCEPT ![t] = NoSaga]
  /\ persistent' = [persistent EXCEPT ![t] = FALSE]
  /\ Goto(t, "idle")

(* Mutant of GiveBack: the count stays when the message is forwarded.      *)
GiveBackKeepsCount(t) ==
  LET m == message[t]
      last == failures[m] + 1 = MaxRetries
  IN
  /\ failures' = [failures EXCEPT ![m] = @ + 1]
  /\ status' = [status EXCEPT ![m] = IF last THEN "error" ELSE "queued"]
  /\ tx' = [tx EXCEPT ![t] = NoChanges]
  /\ Release(t)
  /\ UNCHANGED <<configVars, handledBy>>

(* The attempt has failed: its transaction is rolled back, and the message *)
(* goes back or, after the last attempt, to the error queue.               *)
GiveBack(t) ==
  LET m == message[t]
      last == failures[m] + 1 = MaxRetries
  IN
  /\ failures' = [failures EXCEPT ![m] = IF last THEN 0 ELSE @ + 1]
  /\ status' = [status EXCEPT ![m] = IF last THEN "error" ELSE "queued"]
  /\ tx' = [tx EXCEPT ![t] = NoChanges]
  /\ Release(t)
  /\ UNCHANGED <<configVars, handledBy>>

(* What a handler that throws did to an object in memory remains.          *)
LeaveObject(t, w) ==
  LET d == data[entity[t]] IN
  IF persister = "InMemory" /\ persistent[t]
  THEN /\ data' = With(data, entity[t], Effect(d, message[t], w))
       /\ risked' = IF w = d.value THEN risked ELSE risked \cup {w}
       /\ UNCHANGED <<saved, unique, cleared, header>>
  ELSE UNCHANGED <<storeVars, risked>>

(* Mutant of HandlerThrows: the session is not disposed of.                *)
HandlerThrowsAndLeaves(t) ==
  /\ Disturb
  /\ \/ step[t] = "invoke" /\ \E w \in Values : LeaveObject(t, w)
     \/ step[t] = "end" /\ UNCHANGED <<storeVars, risked>>
  /\ UNCHANGED session
  /\ GiveBack(t)
  /\ UNCHANGED spoiled

(* The saga, or a handler after it, throws: the unit of work ends with the *)
(* exception.                                                              *)
HandlerThrows(t) ==
  /\ Disturb
  /\ \/ step[t] = "invoke" /\ \E w \in Values : LeaveObject(t, w)
     \/ step[t] = "end" /\ UNCHANGED <<storeVars, risked>>
  /\ session' = [session EXCEPT ![t] = NewSession]
  /\ GiveBack(t)
  /\ UNCHANGED spoiled

(* The persister throws: the value is another saga's in memory, or a       *)
(* document of the value is in the session already.  Update has removed    *)
(* the document of the old value by then.                                  *)
PersisterThrows(t) ==
  LET i == entity[t] IN
  /\ step[t] = "invoke"
  /\ \/ /\ persister = "InMemory"
        /\ \E w \in IF persistent[t] THEN Values ELSE {ValueOf[message[t]]} :
             ~ Valid(i, w) /\ LeaveObject(t, w)
     \/ /\ persister = "Raven" /\ ~ persistent[t]
        /\ ValueOf[message[t]] \in DOMAIN session[t].lookups
        /\ UNCHANGED <<storeVars, risked>>
     \/ /\ persister = "Raven" /\ persistent[t]
        /\ LET old == session[t].entities[i].value IN
           \/ /\ LockedValues(t) # {}
              /\ UNCHANGED <<storeVars, risked>>
           \/ /\ old \notin LockedValues(t)
              /\ DOMAIN session[t].lookups \ {old} # {}
              /\ IF ambient THEN UNCHANGED <<storeVars, risked>>
                 ELSE /\ Apply([NoChanges EXCEPT !.links = With(Nothing, old, NoSaga)])
                      /\ risked' = risked \cup {old}
  /\ session' = [session EXCEPT ![t] = NewSession]
  /\ GiveBack(t)
  /\ UNCHANGED <<spoiled, disturbances>>

(* What SaveChanges sends, in one batch.                                   *)
Batch(t) ==
  LET s == session[t] IN
  [NoChanges EXCEPT
     !.puts = Without(s.entities, DOMAIN s.entities \ (s.changed \ s.removed)),
     !.drops = s.removed,
     !.links = Without(s.lookups, DOMAIN s.lookups \ s.added)]

(* Mutants of Conflict: without optimistic concurrency for what was        *)
(* loaded; without the locks of other transactions.                        *)
ConflictOfAdded(t) ==
  \E v \in session[t].added : v \in LockedValues(t) \/ Linked(t, v) # NoSaga
ConflictOfCommitted(t) ==
  LET s == session[t] IN
  \/ (s.changed \cup s.removed) \cap s.stale # {}
  \/ \E v \in s.added : Linked(t, v) # NoSaga

(* UseOptimisticConcurrency: a document was changed since it was loaded,   *)
(* or is there though it was added, or another transaction writes it.      *)
Conflict(t) ==
  LET s == session[t] IN
  \/ (s.changed \cup s.removed) \cap (s.stale \cup LockedSagas(t)) # {}
  \/ \E v \in s.added : v \in LockedValues(t) \/ Linked(t, v) # NoSaga

(* RavenUnitOfWork.End without an exception: SaveChanges, then Dispose.    *)
EndUnitOfWork(t) ==
  /\ step[t] = "end"
  /\ ~ Conflict(t)
  /\ Change(t, Batch(t))
  /\ session' = [u \in Threads |->
       IF u = t THEN NewSession
       ELSE IF ambient THEN session[u] ELSE Outdate(session[u], Batch(t))]
  /\ Goto(t, "commit")
  /\ UNCHANGED <<configVars, message, entity, persistent, messageVars,
                 disturbances, risked>>

(* SaveChanges throws.  The unit of work counts as ended, so it is not     *)
(* ended with the exception, and the session is there for the next message *)
(* of the thread; what was to be deleted has left it.                      *)
SaveChangesThrows(t) ==
  /\ step[t] = "end"
  /\ Conflict(t)
  /\ session' = [session EXCEPT
       ![t].entities = Without(@, session[t].removed),
       ![t].changed = @ \ session[t].removed,
       ![t].stale = @ \ session[t].removed,
       ![t].removed = {}]
  /\ spoiled' = spoiled \cup {message[t]}
  /\ GiveBack(t)
  /\ UNCHANGED <<storeVars, disturbances, risked>>

Commit(t) ==
  /\ step[t] = "commit"
  /\ Apply(tx[t])
  /\ session' = [u \in Threads |-> Outdate(session[u], tx[t])]
  /\ tx' = [tx EXCEPT ![t] = NoChanges]
  /\ status' = [status EXCEPT ![message[t]] = "handled"]
  /\ handledBy' = [handledBy EXCEPT ![message[t]] = entity[t]]
  /\ failures' = [failures EXCEPT ![message[t]] = 0]
  /\ Release(t)
  /\ UNCHANGED <<configVars, spoiled, disturbances, risked>>

(* The transaction fails after the unit of work has ended.                 *)
CommitThrows(t) ==
  /\ step[t] = "commit"
  /\ Disturb
  /\ GiveBack(t)
  /\ UNCHANGED <<storeVars, session, spoiled, risked>>

(* The process dies and starts again.                                      *)
Restart ==
  /\ Disturb
  /\ saved' = IF persister = "InMemory" THEN {} ELSE saved
  /\ session' = [t \in Threads |-> NewSession]
  /\ tx' = [t \in Threads |-> NoChanges]
  /\ step' = [t \in Threads |-> "idle"]
  /\ message' = [t \in Threads |-> NoMessage]
  /\ entity' = [t \in Threads |-> NoSaga]
  /\ status' = [m \in Messages |-> IF status[m] = "held" THEN "queued" ELSE status[m]]
  /\ failures' = [m \in Messages |-> 0]
  /\ data' = IF persister = "InMemory" THEN Nothing ELSE data
  /\ persistent' = [t \in Threads |-> FALSE]
  /\ UNCHANGED <<configVars, unique, cleared, header,
                 handledBy, spoiled, risked>>
-----------------------------------------------------------------------------
Process(t) ==
  \/ \E m \in Messages : Receive(t, m)
  \/ GetFromMemory(t) \/ LoadLookup(t) \/ LoadSaga(t)
  \/ Invoke(t) \/ HandlerThrows(t) \/ PersisterThrows(t)
  \/ EndUnitOfWork(t) \/ SaveChangesThrows(t)
  \/ Commit(t) \/ CommitThrows(t)

Next == Restart \/ \E t \in Threads : Process(t)

Spec == Init /\ [][Next]_vars /\ \A t \in Threads : WF_vars(Process(t))
-----------------------------------------------------------------------------
Entities == [value : Values, applied : SUBSET Messages, repeated : BOOLEAN]

IsPartial(f, S, T) == DOMAIN f \subseteq S /\ \A x \in DOMAIN f : f[x] \in T

SessionOK(s) ==
  /\ IsPartial(s.entities, Ids, Entities)
  /\ s.changed \cup s.stale \cup s.removed \subseteq DOMAIN s.entities
  /\ IsPartial(s.lookups, Values, Ids)
  /\ s.added \subseteq DOMAIN s.lookups

ChangesOK(c) ==
  /\ IsPartial(c.puts, Ids, Entities)
  /\ c.drops \cup c.clears \subseteq Ids
  /\ IsPartial(c.links, Values, Ids \cup {NoSaga})
  /\ IsPartial(c.asks, Answers, Ids)

TypeOK ==
  /\ persister \in {"InMemory", "Raven"} /\ ambient \in BOOLEAN
  /\ IsPartial(data, Ids, Entities) /\ saved \subseteq DOMAIN data
  /\ unique \in [Values -> Ids \cup {NoSaga}]
  /\ \A t \in Threads :
       /\ SessionOK(session[t]) /\ ChangesOK(tx[t])
       /\ (step[t] = "idle") = (message[t] = NoMessage)
  /\ step \in [Threads -> {"idle", "find", "load", "invoke", "end", "commit"}]
  /\ message \in [Threads -> Messages \cup {NoMessage}]
  /\ entity \in [Threads -> Ids \cup {NoSaga}]
  /\ persistent \in [Threads -> BOOLEAN]
  /\ status \in [Messages -> {"none", "queued", "held", "handled", "error"}]
  /\ failures \in [Messages -> 0..(MaxRetries - 1)]
  /\ header \in [Answers -> Ids \cup {NoSaga}]
  /\ cleared \subseteq Ids
  /\ disturbances \in 0..MaxDisturbances
  /\ handledBy \in [Messages -> Ids \cup {NoSaga}]
  /\ spoiled \subseteq Messages /\ risked \subseteq Values

(* Two sagas in the store never have the same value of the unique          *)
(* property, however starts, renames and completions overlap, unless the   *)
(* value was put at risk: an object in memory was renamed by a handler     *)
(* that threw; a document of a value was deleted outside of a transaction, *)
(* or, within one, by a saga it did not name.                              *)
OneSagaPerValue ==
  \A i, j \in saved : i # j /\ data[i].value = data[j].value => data[i].value \in risked

(* What a saga did when it handled a message is in its data as long as it  *)
(* is in the store: no thread overwrites what another one has done.  With  *)
(* Raven and the transaction of the thread nothing else is there, and      *)
(* nothing twice: only messages whose SaveChanges has thrown, and whose    *)
(* changes were left in the session of a thread, can be in the data        *)
(* without having been handled, or twice.                                  *)
EffectsMatchHandled ==
  \A i \in saved :
    /\ \A m \in Messages : handledBy[m] = i => m \in data[i].applied
    /\ persister = "Raven" /\ ambient =>
         /\ data[i].repeated => data[i].applied \cap spoiled # {}
         /\ \A m \in data[i].applied : handledBy[m] = i \/ m \in spoiled

(* With Raven and the transaction of the thread a saga whose timeouts were *)
(* cleared has completed: it is not in the store and does not come back,   *)
(* though other threads had loaded it.                                     *)
CompletedForGood ==
  persister = "Raven" /\ ambient => cleared \cap saved = {}
=============================================================================
