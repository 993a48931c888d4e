---------------------------- MODULE SagasProofs ----------------------------
(***************************************************************************)
(* Proofs about Sagas for every set of threads, messages, values and ids,  *)
(* every MaxRetries and any number of disturbances.                        *)
(***************************************************************************)
EXTENDS Sagas, TLAPS

-----------------------------------------------------------------------------
(* Partial functions.                                                      *)

LEMMA NothingIsPartial ==
  ASSUME NEW S, NEW T PROVE IsPartial(Nothing, S, T)
  BY DEF IsPartial, Nothing

LEMMA WithIsPartial ==
  ASSUME NEW S, NEW T, NEW f, NEW x \in S, NEW y \in T, IsPartial(f, S, T)
  PROVE  IsPartial(With(f, x, y), S, T)
  BY DEF IsPartial, With

LEMMA MergeIsPartial ==
  ASSUME NEW S, NEW T, NEW f, NEW g, IsPartial(f, S, T), IsPartial(g, S, T)
  PROVE  IsPartial(Merge(f, g), S, T)
  BY DEF IsPartial, Merge

LEMMA WithoutIsPartial ==
  ASSUME NEW S, NEW T, NEW f, NEW U, IsPartial(f, S, T)
  PROVE  IsPartial(Without(f, U), S, T)
  BY DEF IsPartial, Without

LEMMA Domains ==
  ASSUME NEW f, NEW g, NEW x, NEW y, NEW U
  PROVE  /\ DOMAIN With(f, x, y) = DOMAIN f \cup {x}
         /\ DOMAIN Merge(f, g) = DOMAIN f \cup DOMAIN g
         /\ DOMAIN Without(f, U) = DOMAIN f \ U
         /\ DOMAIN Nothing = {}
  BY DEF With, Merge, Without, Nothing
-----------------------------------------------------------------------------
(* Layer 1: types.                                                         *)

Fields == {"entities", "changed", "stale", "removed", "lookups", "added"}

Steps == {"idle", "find", "load", "invoke", "end", "commit"}

States == {"none", "queued", "held", "handled", "error"}

Configured == persister \in {"InMemory", "Raven"} /\ ambient \in BOOLEAN

Stored ==
  /\ IsPartial(data, Ids, Entities) /\ saved \subseteq DOMAIN data
  /\ unique \in [Values -> Ids \cup {NoSaga}]
  /\ header \in [Answers -> Ids \cup {NoSaga}]
  /\ cleared \subseteq Ids

Sessions ==
  /\ DOMAIN session = Threads
  /\ \A t \in Threads : DOMAIN session[t] = Fields /\ SessionOK(session[t])

Transactions ==
  /\ DOMAIN tx = Threads
  /\ \A t \in Threads : ChangesOK(tx[t])

Locals ==
  /\ step \in [Threads -> Steps]
  /\ message \in [Threads -> Messages \cup {NoMessage}]
  /\ entity \in [Threads -> Ids \cup {NoSaga}]
  /\ persistent \in [Threads -> BOOLEAN]
  /\ \A t \in Threads : (step[t] = "idle") = (message[t] = NoMessage)

Tallies ==
  /\ status \in [Messages -> States]
  /\ failures \in [Messages -> 0..(MaxRetries - 1)]
  /\ disturbances \in 0..MaxDisturbances
  /\ handledBy \in [Messages -> Ids \cup {NoSaga}]
  /\ spoiled \subseteq Messages /\ risked \subseteq Values

(* A thread that loads or invokes a saga has one; one that was found is in *)
(* the session of the thread, or in memory.                                *)
InHand ==
  \A t \in Threads :
    /\ step[t] \in {"load", "invoke"} => entity[t] \in Ids
    /\ step[t] = "invoke" /\ persistent[t] =>
         entity[t] \in IF persister = "Raven" THEN DOMAIN session[t].entities
                       ELSE DOMAIN data

(* The persister in memory uses neither sessions nor documents.            *)
NoSessions ==
  persister = "InMemory" =>
    \A t \in Threads :
      /\ DOMAIN session[t].entities = {}
      /\ DOMAIN tx[t].puts = {} /\ tx[t].drops = {}

(* A transaction clears the timeouts of the saga its thread has in hand.   *)
Clearing ==
  \A t \in Threads : tx[t].clears \subseteq {entity[t]}
                       /\ (tx[t].clears # {} => step[t] \in {"end", "commit"})

(* A saga that was not found and is not yet kept is known to its thread    *)
(* alone.                                                                  *)
Unknown(i) ==
  /\ i \notin saved \cup cleared
  /\ \A u \in Threads : /\ i \notin DOMAIN session[u].entities
                        /\ i \notin DOMAIN tx[u].puts \cup tx[u].clears

FreshInHand ==
  \A t \in Threads : step[t] = "invoke" /\ ~ persistent[t] =>
    /\ Unknown(entity[t])
    /\ \A u \in Threads \ {t} : step[u] = "invoke" => entity[u] # entity[t]

Layer1 ==
  /\ Configured /\ Stored /\ Sessions /\ Transactions /\ Locals /\ Tallies
  /\ InHand /\ NoSessions /\ Clearing /\ FreshInHand

LEMMA NewSessionOK == SessionOK(NewSession) /\ DOMAIN NewSession = Fields
  BY NothingIsPartial, Domains DEF SessionOK, NewSession, Fields

LEMMA NoChangesOK == ChangesOK(NoChanges)
  BY NothingIsPartial DEF ChangesOK, NoChanges

LEMMA Layer1Init == Init => Layer1
<1> SUFFICES ASSUME Init PROVE Layer1
  OBVIOUS
<1>1. Configured
  BY ConfigurationsAssumption DEF Init, Configured
<1>2. Stored
  BY NothingIsPartial, Domains DEF Init, Stored
<1>3. Sessions /\ Transactions
  BY NewSessionOK, NoChangesOK DEF Init, Sessions, Transactions
<1>4. Locals
  BY MessagesAssumption DEF Init, Locals, Steps
<1>5. Tallies
  BY BoundsAssumption DEF Init, Tallies, States
<1>6. InHand /\ NoSessions /\ Clearing /\ FreshInHand
  BY DEF Init, InHand, NoSessions, Clearing, FreshInHand, NewSession, NoChanges, Nothing
<1>7. QED
  BY <1>1, <1>2, <1>3, <1>4, <1>5, <1>6 DEF Layer1

(* What a change does to the store and to the transactions.                *)
LEMMA ApplyTyped ==
  ASSUME Stored, NEW c, ChangesOK(c), Apply(c)
  PROVE  Stored'
<1>1. IsPartial(Merge(c.puts, data), Ids, Entities)
  BY MergeIsPartial DEF Stored, ChangesOK
<1>2. IsPartial(data', Ids, Entities)
  BY <1>1, WithoutIsPartial DEF Apply
<1>3. saved' \subseteq DOMAIN data'
  <2>1. DOMAIN data' = (DOMAIN c.puts \cup DOMAIN data) \ c.drops
    BY DEF Apply, Without, Merge
  <2>2. QED
    BY <2>1 DEF Apply, Stored
<1>4. unique' \in [Values -> Ids \cup {NoSaga}]
  BY DEF Apply, Stored, ChangesOK, IsPartial, Merge
<1>5. header' \in [Answers -> Ids \cup {NoSaga}]
  BY DEF Apply, Stored, ChangesOK, IsPartial, Merge
<1>6. cleared' \subseteq Ids
  BY DEF Apply, Stored, ChangesOK
<1>7. QED
  BY <1>2, <1>3, <1>4, <1>5, <1>6 DEF Stored

LEMMA ChangeTyped ==
  ASSUME Stored, Transactions, NEW t \in Threads, NEW c, ChangesOK(c), Change(t, c)
  PROVE  Stored' /\ Transactions'
<1>1. CASE ambient
  <2>1. Stored'
    BY <1>1 DEF Change, storeVars, Stored
  <2>2. DOMAIN tx' = Threads /\ \A u \in Threads \ {t} : tx'[u] = tx[u]
    BY <1>1 DEF Change, Transactions
  <2>3. tx'[t] = [puts |-> Merge(c.puts, tx[t].puts), drops |-> c.drops \cup tx[t].drops,
                  links |-> Merge(c.links, tx[t].links),
                  clears |-> c.clears \cup tx[t].clears,
                  asks |-> Merge(c.asks, tx[t].asks)]
    BY <1>1 DEF Change, Transactions
  <2>4. ChangesOK(tx[t])
    BY DEF Transactions
  <2>5. /\ IsPartial(Merge(c.puts, tx[t].puts), Ids, Entities)
        /\ IsPartial(Merge(c.links, tx[t].links), Values, Ids \cup {NoSaga})
        /\ IsPartial(Merge(c.asks, tx[t].asks), Answers, Ids)
    BY <2>4, MergeIsPartial DEF ChangesOK
  <2>6. ChangesOK(tx'[t])
    BY <2>3, <2>4, <2>5 DEF ChangesOK
  <2>7. QED
    BY <2>1, <2>2, <2>6 DEF Transactions
<1>2. CASE ~ ambient
  BY <1>2, ApplyTyped DEF Change, Transactions
<1>3. QED
  BY <1>1, <1>2

LEMMA AskedTyped ==
  ASSUME Layer1, NEW t \in Threads, entity[t] \in Ids
  PROVE  IsPartial(Asks(t), Answers, Ids)
  BY DEF IsPartial, Asks

LEMMA SentTyped ==
  ASSUME Layer1, NEW t \in Threads, NEW completed \in BOOLEAN, entity[t] \in Ids
  PROVE  /\ ChangesOK(Sends(t, completed))
         /\ Sends(t, completed).puts = Nothing /\ Sends(t, completed).drops = {}
         /\ Sends(t, completed).links = Nothing
         /\ Sends(t, completed).asks = Asks(t)
         /\ Sends(t, completed).clears = IF completed THEN {entity[t]} ELSE {}
  BY AskedTyped, NothingIsPartial DEF Sends, NoChanges, ChangesOK

LEMMA UnlinkTyped ==
  ASSUME NEW v \in Values, NEW c, ChangesOK(c), DOMAIN c = DOMAIN NoChanges
  PROVE  ChangesOK([c EXCEPT !.links = With(Nothing, v, NoSaga)])
<1>1. IsPartial(With(Nothing, v, NoSaga), Values, Ids \cup {NoSaga})
  BY NothingIsPartial, WithIsPartial
<1>2. QED
  BY <1>1 DEF ChangesOK, NoChanges

LEMMA BatchTyped ==
  ASSUME Layer1, NEW t \in Threads
  PROVE  /\ ChangesOK(Batch(t))
         /\ Batch(t).clears = {}
         /\ Batch(t).drops = session[t].removed
         /\ DOMAIN Batch(t).puts = session[t].changed \ session[t].removed
<1>1. SessionOK(session[t])
  BY DEF Layer1, Sessions
<1>2. DOMAIN Batch(t).puts =
       DOMAIN session[t].entities
         \ (DOMAIN session[t].entities \ (session[t].changed \ session[t].removed))
  BY Domains DEF Batch, NoChanges
<1>3. DOMAIN Batch(t).puts = session[t].changed \ session[t].removed
  BY <1>1, <1>2 DEF SessionOK
<1>4. IsPartial(Batch(t).puts, Ids, Entities)
  BY <1>1, WithoutIsPartial DEF SessionOK, Batch, NoChanges
<1>5. IsPartial(Batch(t).links, Values, Ids \cup {NoSaga})
  BY <1>1, WithoutIsPartial DEF SessionOK, Batch, NoChanges, IsPartial
<1>6. IsPartial(Batch(t).asks, Answers, Ids)
  BY NothingIsPartial DEF Batch, NoChanges
<1>7. Batch(t).clears = {} /\ Batch(t).drops = session[t].removed
  BY DEF Batch, NoChanges
<1>8. Batch(t).drops \subseteq Ids
  BY <1>1, <1>7 DEF SessionOK, IsPartial
<1>9. QED
  BY <1>3, <1>4, <1>5, <1>6, <1>7, <1>8 DEF ChangesOK

(* The data a handling leaves in a saga.                                   *)
LEMMA EffectTyped ==
  ASSUME NEW d \in Entities, NEW m \in Messages, NEW w \in Values
  PROVE  Effect(d, m, w) \in Entities
  BY DEF Effect, Entities

LEMMA CreatedTyped ==
  ASSUME NEW m \in Messages PROVE Created(m) \in Entities
  BY MessagesAssumption DEF Created, Entities
-----------------------------------------------------------------------------
(* The steps that read and write the store, one conjunct at a time.        *)

LEMMA InHandInvoke ==
  ASSUME Layer1, NEW t \in Threads, step[t] = "invoke"
  PROVE  /\ message[t] \in Messages /\ entity[t] \in Ids
         /\ persistent[t] /\ persister = "InMemory" => data[entity[t]] \in Entities
         /\ persistent[t] /\ persister = "Raven" =>
              /\ entity[t] \in DOMAIN session[t].entities
              /\ session[t].entities[entity[t]] \in Entities
<1>1. message[t] \in Messages /\ entity[t] \in Ids
  BY DEF Layer1, Locals, InHand
<1>2. persistent[t] /\ persister = "InMemory" => data[entity[t]] \in Entities
  BY DEF Layer1, InHand, Stored, IsPartial
<1>3. persistent[t] /\ persister = "Raven" =>
        /\ entity[t] \in DOMAIN session[t].entities
        /\ session[t].entities[entity[t]] \in Entities
  BY DEF Layer1, InHand, Sessions, SessionOK, IsPartial
<1>4. QED
  BY <1>1, <1>2, <1>3

LEMMA LeaveObjectTyped ==
  ASSUME Layer1, NEW t \in Threads, step[t] = "invoke", NEW w \in Values, LeaveObject(t, w)
  PROVE  Stored' /\ risked' \subseteq Values /\ DOMAIN data \subseteq DOMAIN data'
         /\ saved' = saved /\ cleared' = cleared /\ header' = header /\ unique' = unique
<1>1. CASE persister = "InMemory" /\ persistent[t]
  <2>1. Effect(data[entity[t]], message[t], w) \in Entities
    BY <1>1, InHandInvoke, EffectTyped
  <2>2. IsPartial(With(data, entity[t], Effect(data[entity[t]], message[t], w)), Ids, Entities)
    BY <2>1, InHandInvoke, WithIsPartial DEF Layer1, Stored
  <2>3. data' = With(data, entity[t], Effect(data[entity[t]], message[t], w))
        /\ saved' = saved /\ unique' = unique /\ cleared' = cleared /\ header' = header
    BY <1>1 DEF LeaveObject
  <2>4. DOMAIN data \subseteq DOMAIN data'
    BY <2>3 DEF With
  <2>5. risked' \subseteq Values
    BY <1>1 DEF LeaveObject, Layer1, Tallies
  <2>6. QED
    BY <2>2, <2>3, <2>4, <2>5 DEF Layer1, Stored
<1>2. CASE ~ (persister = "InMemory" /\ persistent[t])
  BY <1>2 DEF LeaveObject, storeVars, Layer1, Stored, Tallies
<1>3. QED
  BY <1>1, <1>2

(* The object of a saga that completes in memory is dropped when no other  *)
(* thread has it.                                                          *)
LEMMA InvokeInMemoryTyped ==
  ASSUME Layer1, NEW t \in Threads, step[t] = "invoke", NEW w \in Values,
         NEW completed \in BOOLEAN, InvokeInMemory(t, w, completed)
  PROVE  Stored' /\ Transactions'
         /\ DOMAIN data \ {entity[t]} \subseteq DOMAIN data'
         /\ (entity[t] \in DOMAIN data' \/ \A u \in Threads \ {t} : entity[u] # entity[t])
<1> DEFINE i == entity[t]
           d == IF persistent[t] THEN Effect(data[i], message[t], w) ELSE Created(message[t])
           c == Sends(t, completed)
           gone == completed /\ \A u \in Threads \ {t} : entity[u] # i
<1>1. i \in Ids /\ message[t] \in Messages /\ (persistent[t] => data[i] \in Entities)
      /\ persister = "InMemory"
  BY InHandInvoke DEF InvokeInMemory
<1>2. d \in Entities
  BY <1>1, EffectTyped, CreatedTyped
<1>3. ChangesOK(c)
  BY <1>1, SentTyped
<1>4. data' = IF gone THEN Without(data, {i}) ELSE With(data, i, d)
  BY DEF InvokeInMemory
<1>5. IsPartial(data', Ids, Entities)
  BY <1>1, <1>2, <1>4, WithIsPartial, WithoutIsPartial DEF Layer1, Stored
<1>6. DOMAIN data' = IF gone THEN DOMAIN data \ {i} ELSE DOMAIN data \cup {i}
  BY <1>4 DEF With, Without
<1>7. saved' = IF completed THEN IF persistent[t] THEN saved \ {i} ELSE saved
               ELSE saved \cup {i}
  BY DEF InvokeInMemory
<1>8. ~ persistent[t] => i \notin saved
  BY DEF Layer1, FreshInHand, Unknown
<1>9. saved' \subseteq DOMAIN data'
  BY <1>6, <1>7, <1>8 DEF Layer1, Stored
<1>10. unique' = unique
  BY DEF InvokeInMemory
<1>11. cleared' \subseteq Ids /\ header' \in [Answers -> Ids \cup {NoSaga}]
  BY <1>3 DEF InvokeInMemory, ChangesOK, Layer1, Stored, IsPartial, Merge
<1>12. Stored'
  BY <1>5, <1>9, <1>10, <1>11 DEF Layer1, Stored
<1>13. Transactions'
  BY <1>3 DEF InvokeInMemory, Layer1, Transactions
<1>14. QED
  BY <1>6, <1>12, <1>13

(* The three ways to invoke a saga kept in Raven.                          *)
LEMMA UnlinkChanges ==
  ASSUME Layer1, NEW t \in Threads, entity[t] \in Ids, NEW v \in Values,
         NEW completed \in BOOLEAN, Unlink(t, v, Sends(t, completed))
  PROVE  Stored' /\ Transactions' /\ risked' \subseteq Values
<1>1. ChangesOK(Sends(t, completed)) /\ DOMAIN Sends(t, completed) = DOMAIN NoChanges
  BY SentTyped DEF Sends, NoChanges
<1>2. ChangesOK([Sends(t, completed) EXCEPT !.links = With(Nothing, v, NoSaga)])
  BY <1>1, UnlinkTyped
<1>3. Change(t, [Sends(t, completed) EXCEPT !.links = With(Nothing, v, NoSaga)])
  BY DEF Unlink
<1>4. risked' \subseteq Values
  BY DEF Unlink, Layer1, Tallies
<1>5. QED
  BY <1>2, <1>3, <1>4, ChangeTyped DEF Layer1

(* A session in which a saga is kept, with a new value or as it is.        *)
LEMMA KeepTyped ==
  ASSUME NEW s, SessionOK(s), NEW r, NEW i \in Ids, NEW d \in Entities, NEW v \in Values,
         r.entities = With(s.entities, i, d),
         r.changed \subseteq s.changed \cup {i},
         r.stale = s.stale,
         r.removed \subseteq s.removed \cup {i},
         \/ r.lookups = s.lookups /\ r.added = s.added
         \/ r.lookups = With(s.lookups, v, i) /\ r.added = s.added \cup {v}
  PROVE  SessionOK(r)
<1>1. IsPartial(r.entities, Ids, Entities) /\ IsPartial(r.lookups, Values, Ids)
  BY WithIsPartial DEF SessionOK
<1>2. DOMAIN r.entities = DOMAIN s.entities \cup {i}
  BY DEF With
<1>3. r.changed \cup r.stale \cup r.removed \subseteq DOMAIN r.entities
  BY <1>2 DEF SessionOK
<1>4. r.added \subseteq DOMAIN r.lookups
  BY DEF SessionOK, With
<1>5. QED
  BY <1>1, <1>3, <1>4 DEF SessionOK

LEMMA SaveTyped ==
  ASSUME Layer1, NEW t \in Threads, step[t] = "invoke", NEW completed \in BOOLEAN,
         Save(t, completed)
  PROVE  /\ Stored' /\ Transactions' /\ Sessions' /\ risked' = risked
         /\ \A u \in Threads \ {t} : session'[u] = session[u]
         /\ DOMAIN session'[t].entities \subseteq DOMAIN session[t].entities \cup {entity[t]}
<1>1. message[t] \in Messages /\ entity[t] \in Ids /\ Created(message[t]) \in Entities
  BY InHandInvoke, CreatedTyped
<1>2. Stored' /\ Transactions'
  BY <1>1, SentTyped, ChangeTyped DEF Save, Layer1
<1>3. Created(message[t]).value \in Values
  BY <1>1 DEF Entities
<1>4. SessionOK(session[t]) /\ DOMAIN session[t] = Fields
  BY DEF Layer1, Sessions
<1>6. /\ Sessions' /\ \A u \in Threads \ {t} : session'[u] = session[u]
      /\ DOMAIN session'[t].entities \subseteq DOMAIN session[t].entities \cup {entity[t]}
  <2>1. CASE completed
    BY <2>1 DEF Save, Layer1, Sessions
  <2>2. CASE ~ completed
    <3>1. session' = [session EXCEPT
             ![t].entities = With(@, entity[t], Created(message[t])),
             ![t].changed = @ \cup {entity[t]},
             ![t].lookups = With(@, Created(message[t]).value, entity[t]),
             ![t].added = @ \cup {Created(message[t]).value}]
      BY <2>2 DEF Save
    <3>2. /\ DOMAIN session' = Threads /\ \A u \in Threads \ {t} : session'[u] = session[u]
          /\ DOMAIN session'[t] = Fields
          /\ session'[t].entities = With(session[t].entities, entity[t], Created(message[t]))
          /\ session'[t].changed = session[t].changed \cup {entity[t]}
          /\ session'[t].stale = session[t].stale
          /\ session'[t].removed = session[t].removed
          /\ session'[t].lookups = With(session[t].lookups, Created(message[t]).value, entity[t])
          /\ session'[t].added = session[t].added \cup {Created(message[t]).value}
      BY <3>1, <1>4 DEF Layer1, Sessions, Fields
    <3>3. SessionOK(session'[t])
      BY <1>1, <1>3, <1>4, <3>2, KeepTyped
    <3>4. DOMAIN session'[t].entities = DOMAIN session[t].entities \cup {entity[t]}
      BY <3>2 DEF With
    <3>5. QED
      BY <3>2, <3>3, <3>4 DEF Layer1, Sessions
  <2>3. QED
    BY <2>1, <2>2
<1>7. QED
  BY <1>2, <1>6 DEF Save

LEMMA UpdateTyped ==
  ASSUME Layer1, NEW t \in Threads, step[t] = "invoke", NEW w \in Values, Update(t, w)
  PROVE  Stored' /\ Transactions' /\ Sessions' /\ risked' \subseteq Values
         /\ DOMAIN session'[t].entities = DOMAIN session[t].entities
<1> DEFINE i == entity[t]
           d == session[t].entities[i]
           e == Effect(d, message[t], w)
<1>1. /\ message[t] \in Messages /\ i \in Ids /\ d \in Entities /\ e \in Entities
      /\ i \in DOMAIN session[t].entities
  BY InHandInvoke, EffectTyped DEF Update
<1>2. d.value \in Values
  BY <1>1 DEF Entities
<1>3. SessionOK(session[t]) /\ DOMAIN session[t] = Fields
  BY DEF Layer1, Sessions
<1>4. CASE w = d.value
  <2>1. Stored' /\ Transactions' /\ risked' \subseteq Values
    BY <1>1, <1>4, SentTyped, ChangeTyped DEF Update, Layer1, Tallies
  <2>2. session' = [session EXCEPT ![t].entities = With(@, i, e),
                                   ![t].changed = @ \cup {i}]
    BY <1>4 DEF Update
  <2>3. /\ DOMAIN session' = Threads /\ \A u \in Threads \ {t} : session'[u] = session[u]
        /\ DOMAIN session'[t] = Fields
        /\ session'[t].entities = With(session[t].entities, i, e)
        /\ session'[t].changed = session[t].changed \cup {i}
        /\ session'[t].stale = session[t].stale
        /\ session'[t].removed = session[t].removed
        /\ session'[t].lookups = session[t].lookups
        /\ session'[t].added = session[t].added
    BY <2>2, <1>3 DEF Layer1, Sessions, Fields
  <2>4. SessionOK(session'[t])
    BY <1>1, <1>3, <2>3, KeepTyped
  <2>5. QED
    BY <1>1, <2>1, <2>3, <2>4 DEF Layer1, Sessions, With
<1>5. CASE w # d.value
  <2>1. Stored' /\ Transactions' /\ risked' \subseteq Values
    BY <1>1, <1>2, <1>5, UnlinkChanges DEF Update
  <2>2. session' = [session EXCEPT ![t].entities = With(@, i, e),
                                   ![t].changed = @ \cup {i},
                                   ![t].lookups = With(@, w, i),
                                   ![t].added = @ \cup {w}]
    BY <1>5 DEF Update
  <2>3. /\ DOMAIN session' = Threads /\ \A u \in Threads \ {t} : session'[u] = session[u]
        /\ DOMAIN session'[t] = Fields
        /\ session'[t].entities = With(session[t].entities, i, e)
        /\ session'[t].changed = session[t].changed \cup {i}
        /\ session'[t].stale = session[t].stale
        /\ session'[t].removed = session[t].removed
        /\ session'[t].lookups = With(session[t].lookups, w, i)
        /\ session'[t].added = session[t].added \cup {w}
    BY <2>2, <1>3 DEF Layer1, Sessions, Fields
  <2>4. SessionOK(session'[t])
    BY <1>1, <1>3, <2>3, KeepTyped
  <2>5. QED
    BY <1>1, <2>1, <2>3, <2>4 DEF Layer1, Sessions, With
<1>6. QED
  BY <1>4, <1>5

LEMMA CompleteTyped ==
  ASSUME Layer1, NEW t \in Threads, step[t] = "invoke", NEW w \in Values, Complete(t, w)
  PROVE  Stored' /\ Transactions' /\ Sessions' /\ risked' \subseteq Values
         /\ DOMAIN session'[t].entities = DOMAIN session[t].entities
<1> DEFINE i == entity[t]
           e == Effect(session[t].entities[i], message[t], w)
<1>1. /\ message[t] \in Messages /\ i \in Ids /\ e \in Entities
      /\ i \in DOMAIN session[t].entities
  BY InHandInvoke, EffectTyped DEF Complete
<1>2. SessionOK(session[t]) /\ DOMAIN session[t] = Fields
  BY DEF Layer1, Sessions
<1>3. Stored' /\ Transactions' /\ risked' \subseteq Values
  BY <1>1, UnlinkChanges DEF Complete
<1>4. session' = [session EXCEPT ![t].entities = With(@, i, e),
                                 ![t].removed = @ \cup {i}]
  BY DEF Complete
<1>5. /\ DOMAIN session' = Threads /\ \A u \in Threads \ {t} : session'[u] = session[u]
      /\ DOMAIN session'[t] = Fields
      /\ session'[t].entities = With(session[t].entities, i, e)
      /\ session'[t].changed = session[t].changed
      /\ session'[t].stale = session[t].stale
      /\ session'[t].removed = session[t].removed \cup {i}
      /\ session'[t].lookups = session[t].lookups
      /\ session'[t].added = session[t].added
  BY <1>4, <1>2 DEF Layer1, Sessions, Fields
<1>6. SessionOK(session'[t])
  BY <1>1, <1>2, <1>5, KeepTyped
<1>7. QED
  BY <1>1, <1>3, <1>5, <1>6 DEF Layer1, Sessions, With

LEMMA OutdateTyped ==
  ASSUME NEW s, SessionOK(s), DOMAIN s = Fields, NEW c
  PROVE  /\ SessionOK(Outdate(s, c)) /\ DOMAIN Outdate(s, c) = Fields
         /\ Outdate(s, c).entities = s.entities /\ Outdate(s, c).lookups = s.lookups
         /\ Outdate(s, c).changed = s.changed /\ Outdate(s, c).removed = s.removed
         /\ Outdate(s, c).added = s.added
         /\ Outdate(s, c).stale = s.stale \cup
              (DOMAIN s.entities \cap (DOMAIN c.puts \cup c.drops))
  BY DEF Outdate, SessionOK, Fields

(* A thread that has let its message go.                                   *)
LEMMA ReleaseTyped ==
  ASSUME Layer1, NEW t \in Threads, Release(t)
  PROVE  Locals'
  BY MessagesAssumption DEF Release, Goto, Layer1, Locals, Steps

LEMMA GiveBackTyped ==
  ASSUME Layer1, NEW t \in Threads, step[t] # "idle", GiveBack(t)
  PROVE  /\ Locals' /\ Configured' /\ Transactions'
         /\ status' \in [Messages -> States] /\ failures' \in [Messages -> 0..(MaxRetries - 1)]
         /\ handledBy' = handledBy
<1>1. message[t] \in Messages
  BY DEF Layer1, Locals
<1>2. Transactions'
  BY NoChangesOK DEF GiveBack, Layer1, Transactions
<1>3. Locals' /\ Configured'
  BY ReleaseTyped DEF GiveBack, configVars, Layer1, Configured
<1>4. status' \in [Messages -> States]
  BY DEF GiveBack, Layer1, Tallies, States
<1>5. failures' \in [Messages -> 0..(MaxRetries - 1)]
  BY <1>1, BoundsAssumption DEF GiveBack, Layer1, Tallies
<1>6. QED
  BY <1>2, <1>3, <1>4, <1>5 DEF GiveBack

Typed == Configured /\ Stored /\ Sessions /\ Transactions /\ Locals /\ Tallies

LEMMA ReceiveTyped ==
  ASSUME Layer1, NEW t \in Threads, NEW m \in Messages, Receive(t, m)
  PROVE  Typed'
<1>1. Configured' /\ Stored' /\ Sessions' /\ Transactions'
  BY DEF Receive, Layer1, Configured, Stored, Sessions, Transactions, configVars, storeVars
<1>2. Locals'
  BY MessagesAssumption DEF Receive, Goto, Layer1, Locals, Steps, Stored
<1>3. Tallies'
  BY DEF Receive, Layer1, Tallies, States
<1>4. QED
  BY <1>1, <1>2, <1>3 DEF Typed

LEMMA NotFoundTyped ==
  ASSUME Layer1, NEW t \in Threads, NotFound(t), UNCHANGED message, step[t] # "idle"
  PROVE  Locals'
  BY DEF NotFound, Goto, Layer1, Locals, Steps

LEMMA FoundTyped ==
  ASSUME Layer1, NEW t \in Threads, NEW i \in Ids, Found(t, i), UNCHANGED message,
         step[t] # "idle"
  PROVE  Locals'
  BY DEF Found, Goto, Layer1, Locals, Steps

LEMMA FindTyped ==
  ASSUME Layer1, NEW t \in Threads, GetFromMemory(t) \/ LoadLookup(t) \/ LoadSaga(t)
  PROVE  Typed'
<1>1. Configured' /\ Stored' /\ Transactions' /\ Tallies'
  BY DEF GetFromMemory, LoadLookup, LoadSaga, Layer1, Configured, Stored, Transactions,
     Tallies, configVars, storeVars, messageVars
<1>2. SessionOK(session[t]) /\ DOMAIN session[t] = Fields
  BY DEF Layer1, Sessions
<1>3. CASE GetFromMemory(t)
  <2>1. Locals'
    BY <1>3, NotFoundTyped, FoundTyped DEF GetFromMemory, Layer1, Stored, IsPartial
  <2>2. QED
    BY <1>1, <1>3, <2>1 DEF GetFromMemory, Typed, Layer1, Sessions
<1>4. CASE LoadLookup(t)
  <2> DEFINE v == ValueOf[message[t]]
             i == IF v \in DOMAIN session[t].lookups THEN session[t].lookups[v] ELSE unique[v]
  <2>1. v \in Values /\ step[t] = "find"
    BY <1>4, MessagesAssumption DEF LoadLookup, Layer1, Locals
  <2>2. i \in Ids \cup {NoSaga}
    BY <1>2, <2>1 DEF SessionOK, IsPartial, Layer1, Stored
  <2>3. CASE i = NoSaga
    <3>1. NotFound(t) /\ UNCHANGED <<session, message>>
      BY <1>4, <2>3 DEF LoadLookup
    <3>2. QED
      BY <1>1, <2>1, <3>1, NotFoundTyped DEF Typed, Layer1, Sessions
  <2>4. CASE i # NoSaga
    <3>1. /\ session' = [session EXCEPT ![t].lookups = With(@, v, i)]
          /\ entity' = [entity EXCEPT ![t] = i] /\ Goto(t, "load")
          /\ UNCHANGED <<persistent, message>>
      BY <1>4, <2>4 DEF LoadLookup
    <3>2. Locals'
      BY <2>1, <2>2, <3>1 DEF Goto, Layer1, Locals, Steps
    <3>3. /\ DOMAIN session' = Threads /\ \A u \in Threads \ {t} : session'[u] = session[u]
          /\ DOMAIN session'[t] = Fields
          /\ session'[t].entities = session[t].entities
          /\ session'[t].changed = session[t].changed
          /\ session'[t].stale = session[t].stale
          /\ session'[t].removed = session[t].removed
          /\ session'[t].lookups = With(session[t].lookups, v, i)
          /\ session'[t].added = session[t].added
      BY <3>1, <1>2 DEF Layer1, Sessions, Fields
    <3>4. IsPartial(session'[t].lookups, Values, Ids)
      BY <1>2, <2>1, <2>2, <2>4, <3>3, WithIsPartial DEF SessionOK
    <3>5. DOMAIN session'[t].lookups = DOMAIN session[t].lookups \cup {v}
      BY <3>3 DEF With
    <3>6. SessionOK(session'[t])
      BY <1>2, <3>3, <3>4, <3>5 DEF SessionOK
    <3>7. QED
      BY <1>1, <3>2, <3>3, <3>6 DEF Typed, Layer1, Sessions
  <2>5. QED
    BY <2>3, <2>4
<1>5. CASE LoadSaga(t)
  <2> DEFINE i == entity[t]
  <2>1. i \in Ids /\ step[t] = "load"
    BY <1>5 DEF LoadSaga, Layer1, InHand
  <2>2. CASE i \in saved /\ i \notin DOMAIN session[t].entities
    <3>1. /\ session' = [session EXCEPT ![t].entities = With(@, i, data[i])]
          /\ Found(t, i) /\ UNCHANGED message
      BY <1>5, <2>2 DEF LoadSaga
    <3>2. data[i] \in Entities
      BY <2>2 DEF Layer1, Stored, IsPartial
    <3>3. /\ DOMAIN session' = Threads /\ \A u \in Threads \ {t} : session'[u] = session[u]
          /\ DOMAIN session'[t] = Fields
          /\ session'[t].entities = With(session[t].entities, i, data[i])
          /\ session'[t].changed = session[t].changed
          /\ session'[t].stale = session[t].stale
          /\ session'[t].removed = session[t].removed
          /\ session'[t].lookups = session[t].lookups
          /\ session'[t].added = session[t].added
      BY <3>1, <1>2 DEF Layer1, Sessions, Fields
    <3>4. PICK v : v \in Values
      BY <2>1, MessagesAssumption DEF Layer1, Locals
    <3>5. SessionOK(session'[t])
      BY <1>2, <2>1, <3>2, <3>3, <3>4, KeepTyped
    <3>6. QED
      BY <1>1, <2>1, <3>1, <3>3, <3>5, FoundTyped DEF Typed, Layer1, Sessions
  <2>3. CASE i \notin saved \/ i \in DOMAIN session[t].entities
    <3>1. (Found(t, i) \/ NotFound(t)) /\ UNCHANGED <<session, message>>
      BY <1>5, <2>3 DEF LoadSaga
    <3>2. QED
      BY <1>1, <2>1, <3>1, FoundTyped, NotFoundTyped DEF Typed, Layer1, Sessions
  <2>4. QED
    BY <2>2, <2>3
<1>6. QED
  BY <1>3, <1>4, <1>5

LEMMA InvokeTyped ==
  ASSUME Layer1, NEW t \in Threads, Invoke(t)
  PROVE  Typed'
<1>1. step[t] = "invoke" /\ Configured' /\ message' = message
  BY DEF Invoke, configVars, Layer1, Configured
<1>2. PICK w \in Values, completed \in BOOLEAN :
        \/ InvokeInMemory(t, w, completed)
        \/ Save(t, completed)
        \/ ~ completed /\ Update(t, w)
        \/ completed /\ Complete(t, w)
  BY DEF Invoke
<1>3. Locals'
  <2>1. Goto(t, "end")
    BY <1>2 DEF InvokeInMemory, Save, Update, Complete
  <2>2. QED
    BY <1>1, <2>1 DEF Invoke, Goto, Layer1, Locals, Steps
<1>4. Stored' /\ Transactions' /\ Sessions' /\ risked' \subseteq Values
  <2>1. CASE InvokeInMemory(t, w, completed)
    BY <1>1, <2>1, InvokeInMemoryTyped DEF InvokeInMemory, Layer1, Sessions, Tallies
  <2>2. CASE Save(t, completed)
    BY <1>1, <2>2, SaveTyped DEF Layer1, Tallies
  <2>3. CASE Update(t, w)
    BY <1>1, <2>3, UpdateTyped
  <2>4. CASE Complete(t, w)
    BY <1>1, <2>4, CompleteTyped
  <2>5. QED
    BY <1>2, <2>1, <2>2, <2>3, <2>4
<1>5. Tallies'
  BY <1>4 DEF Invoke, messageVars, Layer1, Tallies
<1>6. QED
  BY <1>1, <1>3, <1>4, <1>5 DEF Typed

(* What a thread with a new session leaves behind.                         *)
LEMMA DisposedTyped ==
  ASSUME Layer1, NEW t \in Threads, session' = [session EXCEPT ![t] = NewSession]
  PROVE  Sessions'
  BY NewSessionOK DEF Layer1, Sessions

LEMMA HandlerThrowsTyped ==
  ASSUME Layer1, NEW t \in Threads, HandlerThrows(t)
  PROVE  Typed' /\ DOMAIN data \subseteq DOMAIN data'
         /\ saved' = saved /\ cleared' = cleared /\ header' = header /\ unique' = unique
<1>1. step[t] # "idle" /\ GiveBack(t)
  BY DEF HandlerThrows
<1>2. Sessions'
  BY DisposedTyped DEF HandlerThrows
<1>3. /\ Stored' /\ risked' \subseteq Values /\ DOMAIN data \subseteq DOMAIN data'
      /\ saved' = saved /\ cleared' = cleared /\ header' = header /\ unique' = unique
  <2>1. CASE step[t] = "invoke" /\ \E w \in Values : LeaveObject(t, w)
    BY <2>1, LeaveObjectTyped
  <2>2. CASE UNCHANGED <<storeVars, risked>>
    BY <2>2 DEF storeVars, Layer1, Stored, Tallies
  <2>3. QED
    BY <2>1, <2>2 DEF HandlerThrows
<1>4. disturbances' \in 0..MaxDisturbances
  BY BoundsAssumption DEF HandlerThrows, Disturb, Layer1, Tallies
<1>5. Tallies'
  BY <1>1, <1>3, <1>4, GiveBackTyped DEF HandlerThrows, Layer1, Tallies
<1>6. QED
  BY <1>1, <1>2, <1>3, <1>5, GiveBackTyped DEF Typed

LEMMA PersisterThrowsTyped ==
  ASSUME Layer1, NEW t \in Threads, PersisterThrows(t)
  PROVE  Typed' /\ DOMAIN data \subseteq DOMAIN data'
         /\ saved' = saved /\ cleared' = cleared /\ header' = header
<1>1. step[t] = "invoke" /\ GiveBack(t)
  BY DEF PersisterThrows
<1>2. Sessions'
  BY DisposedTyped DEF PersisterThrows
<1>3. message[t] \in Messages /\ ValueOf[message[t]] \in Values
  BY <1>1, InHandInvoke, MessagesAssumption
<1>4. /\ Stored' /\ risked' \subseteq Values /\ DOMAIN data \subseteq DOMAIN data'
      /\ saved' = saved /\ cleared' = cleared /\ header' = header
  <2>1. CASE \E w \in Values : LeaveObject(t, w)
    BY <1>1, <2>1, LeaveObjectTyped
  <2>2. CASE UNCHANGED <<storeVars, risked>>
    BY <2>2 DEF storeVars, Layer1, Stored, Tallies
  <2>3. ASSUME persistent[t], persister = "Raven",
               Apply([NoChanges EXCEPT !.links =
                        With(Nothing, session[t].entities[entity[t]].value, NoSaga)]),
               risked' = risked \cup {session[t].entities[entity[t]].value}
        PROVE  /\ Stored' /\ risked' \subseteq Values /\ DOMAIN data \subseteq DOMAIN data'
               /\ saved' = saved /\ cleared' = cleared /\ header' = header
    <3> DEFINE v == session[t].entities[entity[t]].value
               c == [NoChanges EXCEPT !.links = With(Nothing, v, NoSaga)]
    <3>1. v \in Values
      BY <1>1, <2>3, InHandInvoke DEF Entities
    <3>2. ChangesOK(c)
      BY <3>1, NoChangesOK, UnlinkTyped
    <3>3. Stored'
      BY <2>3, <3>2, ApplyTyped DEF Layer1
    <3>4. c.puts = Nothing /\ c.drops = {} /\ c.clears = {} /\ c.asks = Nothing
      BY DEF NoChanges
    <3>5. saved' = saved /\ cleared' = cleared /\ DOMAIN data \subseteq DOMAIN data'
      BY <2>3, <3>4 DEF Apply, Merge, Without, Nothing
    <3>6. header' = header
      BY <2>3, <3>4 DEF Apply, Merge, Nothing, Layer1, Stored
    <3>7. QED
      BY <2>3, <3>1, <3>3, <3>5, <3>6 DEF Layer1, Tallies
  <2>4. QED
    BY <1>3, <2>1, <2>2, <2>3 DEF PersisterThrows
<1>5. Tallies'
  BY <1>1, <1>4, GiveBackTyped DEF PersisterThrows, Layer1, Tallies
<1>6. QED
  BY <1>1, <1>2, <1>4, <1>5, GiveBackTyped DEF Typed

LEMMA EndUnitOfWorkTyped ==
  ASSUME Layer1, NEW t \in Threads, EndUnitOfWork(t)
  PROVE  Typed'
<1>1. Stored' /\ Transactions'
  BY BatchTyped, ChangeTyped DEF EndUnitOfWork, Layer1
<1>2. Sessions'
  BY NewSessionOK, OutdateTyped DEF EndUnitOfWork, Layer1, Sessions
<1>3. Configured' /\ Locals' /\ Tallies'
  BY DEF EndUnitOfWork, Goto, configVars, messageVars, Layer1, Configured, Locals,
     Tallies, Steps
<1>4. QED
  BY <1>1, <1>2, <1>3 DEF Typed

LEMMA SaveChangesThrowsTyped ==
  ASSUME Layer1, NEW t \in Threads, SaveChangesThrows(t)
  PROVE  Typed' /\ DOMAIN session'[t].entities \subseteq DOMAIN session[t].entities
         /\ \A u \in Threads \ {t} : session'[u] = session[u]
<1>1. step[t] # "idle" /\ GiveBack(t) /\ message[t] \in Messages
  BY DEF SaveChangesThrows, Layer1, Locals
<1>2. SessionOK(session[t]) /\ DOMAIN session[t] = Fields
  BY DEF Layer1, Sessions
<1>3. /\ DOMAIN session' = Threads /\ \A u \in Threads \ {t} : session'[u] = session[u]
      /\ DOMAIN session'[t] = Fields
      /\ session'[t].entities = Without(session[t].entities, session[t].removed)
      /\ session'[t].changed = session[t].changed \ session[t].removed
      /\ session'[t].stale = session[t].stale \ session[t].removed
      /\ session'[t].removed = {}
      /\ session'[t].lookups = session[t].lookups
      /\ session'[t].added = session[t].added
  BY <1>2 DEF SaveChangesThrows, Layer1, Sessions, Fields
<1>4. IsPartial(session'[t].entities, Ids, Entities)
  BY <1>2, <1>3, WithoutIsPartial DEF SessionOK
<1>5. DOMAIN session'[t].entities = DOMAIN session[t].entities \ session[t].removed
  BY <1>3 DEF Without
<1>6. SessionOK(session'[t])
  BY <1>2, <1>3, <1>4, <1>5 DEF SessionOK
<1>7. Stored' /\ Tallies'
  BY <1>1, GiveBackTyped DEF SaveChangesThrows, storeVars, Layer1, Stored, Tallies
<1>8. QED
  BY <1>1, <1>3, <1>5, <1>6, <1>7, GiveBackTyped DEF Typed, Layer1, Sessions

LEMMA CommitTyped ==
  ASSUME Layer1, NEW t \in Threads, Commit(t)
  PROVE  Typed'
<1>1. Stored'
  BY ApplyTyped DEF Commit, Layer1, Transactions
<1>2. Sessions'
  BY OutdateTyped DEF Commit, Layer1, Sessions
<1>3. Transactions'
  BY NoChangesOK DEF Commit, Layer1, Transactions
<1>4. Configured' /\ Locals'
  BY ReleaseTyped DEF Commit, configVars, Layer1, Configured
<1>5. Tallies'
  BY BoundsAssumption DEF Commit, Layer1, Tallies, States, Locals
<1>6. QED
  BY <1>1, <1>2, <1>3, <1>4, <1>5 DEF Typed

LEMMA CommitThrowsTyped ==
  ASSUME Layer1, NEW t \in Threads, CommitThrows(t)
  PROVE  Typed'
<1>1. step[t] # "idle" /\ GiveBack(t)
  BY DEF CommitThrows
<1>2. Stored' /\ Sessions'
  BY DEF CommitThrows, storeVars, Layer1, Stored, Sessions
<1>3. disturbances' \in 0..MaxDisturbances
  BY BoundsAssumption DEF CommitThrows, Disturb, Layer1, Tallies
<1>4. Tallies'
  BY <1>1, <1>3, GiveBackTyped DEF CommitThrows, Layer1, Tallies
<1>5. QED
  BY <1>1, <1>2, <1>4, GiveBackTyped DEF Typed

LEMMA RestartTyped ==
  ASSUME Layer1, Restart
  PROVE  Typed'
<1>1. Configured' /\ Locals'
  BY MessagesAssumption DEF Restart, configVars, Layer1, Configured, Locals, Steps
<1>2. IsPartial(data', Ids, Entities) /\ saved' \subseteq DOMAIN data'
  BY NothingIsPartial DEF Restart, Layer1, Stored
<1>3. Stored'
  BY <1>2 DEF Restart, Layer1, Stored
<1>4. Sessions' /\ Transactions'
  BY NewSessionOK, NoChangesOK DEF Restart, Sessions, Transactions
<1>5. Tallies'
  BY BoundsAssumption DEF Restart, Disturb, Layer1, Tallies, States
<1>6. QED
  BY <1>1, <1>3, <1>4, <1>5 DEF Typed

LEMMA TypedStep == Layer1 /\ [Next]_vars => Typed'
<1> SUFFICES ASSUME Layer1, [Next]_vars PROVE Typed'
  OBVIOUS
<1>1. CASE UNCHANGED vars
  BY <1>1 DEF vars, configVars, storeVars, threadVars, messageVars, Typed, Layer1,
     Configured, Stored, Sessions, Transactions, Locals, Tallies
<1>2. ASSUME NEW t \in Threads, Process(t) PROVE Typed'
  BY <1>2, ReceiveTyped, FindTyped, InvokeTyped, HandlerThrowsTyped, PersisterThrowsTyped,
     EndUnitOfWorkTyped, SaveChangesThrowsTyped, CommitTyped, CommitThrowsTyped DEF Process
<1>3. QED
  BY <1>1, <1>2, RestartTyped DEF Next
-----------------------------------------------------------------------------
(* What a step of one thread does to the others, and where ids come from.  *)

LEMMA ChangeIds ==
  ASSUME Transactions, NEW t \in Threads, NEW c, Change(t, c)
  PROVE  /\ saved' \subseteq saved \cup DOMAIN c.puts
         /\ cleared' \subseteq cleared \cup c.clears
         /\ \A u \in Threads \ {t} : tx'[u] = tx[u]
         /\ DOMAIN tx'[t].puts \subseteq DOMAIN tx[t].puts \cup DOMAIN c.puts
         /\ tx'[t].drops \subseteq tx[t].drops \cup c.drops
         /\ tx'[t].clears \subseteq tx[t].clears \cup c.clears
         /\ ambient => /\ saved' = saved /\ cleared' = cleared
                       /\ tx'[t].drops = c.drops \cup tx[t].drops
                       /\ tx'[t].clears = c.clears \cup tx[t].clears
         /\ ~ ambient => tx' = tx
         /\ c.drops = {} => DOMAIN data \subseteq DOMAIN data'
<1>1. CASE ambient
  BY <1>1 DEF Change, storeVars, Transactions, Merge
<1>2. CASE ~ ambient
  BY <1>2 DEF Change, Apply, Merge, Without, Nothing, Transactions
<1>3. QED
  BY <1>1, <1>2

LEMMA UnlinkIds ==
  ASSUME Layer1, NEW t \in Threads, entity[t] \in Ids, NEW v, NEW completed \in BOOLEAN,
         Unlink(t, v, Sends(t, completed))
  PROVE  \E c : /\ Change(t, c) /\ c.puts = Nothing /\ c.drops = {}
                /\ c.clears = IF completed THEN {entity[t]} ELSE {}
<1> DEFINE s == Sends(t, completed)
           c == [s EXCEPT !.links = With(Nothing, v, NoSaga)]
<1>1. Change(t, c)
  BY DEF Unlink
<1>2. DOMAIN s = DOMAIN NoChanges
  BY DEF Sends, NoChanges
<1>3. c.puts = s.puts /\ c.drops = s.drops /\ c.clears = s.clears
  BY <1>2 DEF NoChanges
<1>4. QED
  BY <1>1, <1>3, SentTyped

(* The ways to invoke a saga, seen from the ids.                           *)
LEMMA InvokeIds ==
  ASSUME Layer1, NEW t \in Threads, Invoke(t)
  PROVE  /\ step[t] = "invoke" /\ entity[t] \in Ids
         /\ step' = [step EXCEPT ![t] = "end"]
         /\ UNCHANGED <<message, entity, persistent>>
         /\ saved' \subseteq saved \cup {entity[t]}
         /\ cleared' \subseteq cleared \cup {entity[t]}
         /\ \A u \in Threads \ {t} : session'[u] = session[u] /\ tx'[u] = tx[u]
         /\ DOMAIN session'[t].entities \subseteq DOMAIN session[t].entities \cup {entity[t]}
         /\ DOMAIN tx'[t].puts \subseteq DOMAIN tx[t].puts
         /\ tx'[t].drops \subseteq tx[t].drops
         /\ tx'[t].clears \subseteq tx[t].clears \cup {entity[t]}
<1>1. /\ step[t] = "invoke" /\ entity[t] \in Ids
      /\ UNCHANGED <<message, entity, persistent>>
  BY InHandInvoke DEF Invoke
<1>2. PICK w \in Values, completed \in BOOLEAN :
        \/ InvokeInMemory(t, w, completed)
        \/ Save(t, completed)
        \/ ~ completed /\ Update(t, w)
        \/ completed /\ Complete(t, w)
  BY DEF Invoke
<1>3. step' = [step EXCEPT ![t] = "end"]
  BY <1>2 DEF InvokeInMemory, Save, Update, Complete, Goto
<1> DEFINE s == Sends(t, completed)
<1>4. s.puts = Nothing /\ s.drops = {} /\ s.clears \subseteq {entity[t]} /\ DOMAIN s.puts = {}
  BY <1>1, SentTyped, Domains
<1> DEFINE Goal == /\ saved' \subseteq saved \cup {entity[t]}
                   /\ cleared' \subseteq cleared \cup {entity[t]}
                   /\ \A u \in Threads \ {t} : session'[u] = session[u] /\ tx'[u] = tx[u]
                   /\ DOMAIN session'[t].entities
                        \subseteq DOMAIN session[t].entities \cup {entity[t]}
                   /\ DOMAIN tx'[t].puts \subseteq DOMAIN tx[t].puts
                   /\ tx'[t].drops \subseteq tx[t].drops
                   /\ tx'[t].clears \subseteq tx[t].clears \cup {entity[t]}
<1>5. ASSUME InvokeInMemory(t, w, completed) PROVE Goal
  <2>1. saved' \subseteq saved \cup {entity[t]} /\ session' = session
        /\ cleared' \subseteq cleared \cup {entity[t]}
    BY <1>4, <1>5 DEF InvokeInMemory
  <2>2. tx' = tx \/ tx' = [tx EXCEPT ![t] = s]
    BY <1>5 DEF InvokeInMemory
  <2>3. /\ \A u \in Threads \ {t} : tx'[u] = tx[u]
        /\ DOMAIN tx'[t].puts \subseteq DOMAIN tx[t].puts
        /\ tx'[t].drops \subseteq tx[t].drops
        /\ tx'[t].clears \subseteq tx[t].clears \cup {entity[t]}
    BY <1>4, <2>2 DEF Layer1, Transactions
  <2>4. QED
    BY <2>1, <2>3
<1>6. ASSUME Save(t, completed) PROVE Goal
  <2>1. Change(t, s)
    BY <1>6 DEF Save
  <2>2. /\ \A u \in Threads \ {t} : session'[u] = session[u]
        /\ DOMAIN session'[t].entities \subseteq DOMAIN session[t].entities \cup {entity[t]}
    BY <1>1, <1>6, SaveTyped
  <2>3. QED
    BY <1>4, <2>1, <2>2, ChangeIds DEF Layer1
<1>7. ASSUME Update(t, w) PROVE Goal
  <2>1. PICK c : Change(t, c) /\ c.puts = Nothing /\ c.drops = {} /\ c.clears = {}
              /\ DOMAIN c.puts = {}
    <3>1. CASE w = session[t].entities[entity[t]].value
      BY <1>1, <1>7, <3>1, SentTyped, Domains DEF Update
    <3>2. CASE w # session[t].entities[entity[t]].value
      BY <1>1, <1>7, <3>2, UnlinkIds, Domains DEF Update
    <3>3. QED
      BY <3>1, <3>2
  <2>2. \A u \in Threads \ {t} : session'[u] = session[u]
    BY <1>7 DEF Update, Layer1, Sessions
  <2>3. QED
    BY <1>1, <1>7, <2>1, <2>2, ChangeIds, UpdateTyped DEF Layer1
<1>8. ASSUME Complete(t, w) PROVE Goal
  <2>1. PICK c : Change(t, c) /\ c.puts = Nothing /\ c.drops = {} /\ c.clears \subseteq {entity[t]}
              /\ DOMAIN c.puts = {}
    BY <1>1, <1>8, UnlinkIds, Domains DEF Complete
  <2>2. \A u \in Threads \ {t} : session'[u] = session[u]
    BY <1>8 DEF Complete, Layer1, Sessions
  <2>3. QED
    BY <1>1, <1>8, <2>1, <2>2, ChangeIds, CompleteTyped DEF Layer1
<1>9. Goal
  BY <1>2, <1>5, <1>6, <1>7, <1>8
<1>10. QED
  BY <1>1, <1>3, <1>9

(* What a thread that goes on to invoke a saga has found.                  *)
LEMMA ComesToInvoke ==
  ASSUME Layer1, NEW t \in Threads, Process(t), step'[t] = "invoke"
  PROVE  /\ UNCHANGED <<storeVars, tx>>
         /\ \/ /\ persistent'[t]
               /\ entity'[t] \in saved \cup DOMAIN session[t].entities
               /\ entity'[t] \in IF persister = "Raven" THEN DOMAIN session'[t].entities
                                 ELSE saved
            \/ ~ persistent'[t] /\ Free(entity'[t]) /\ entity'[t] \in Ids
<1>1. step[t] # "invoke" \/ ~ Invoke(t)
  BY DEF Invoke, InvokeInMemory, Save, Update, Complete, Goto, Layer1, Locals
<1>2. step' \in [Threads -> Steps] /\ entity \in [Threads -> Ids \cup {NoSaga}]
      /\ persistent \in [Threads -> BOOLEAN] /\ step \in [Threads -> Steps]
  BY TypedStep DEF Typed, Locals, Layer1, Next
<1>3. GetFromMemory(t) \/ LoadLookup(t) \/ LoadSaga(t)
  BY <1>2 DEF Process, Receive, Invoke, InvokeInMemory, Save, Update, Complete, HandlerThrows,
     PersisterThrows, EndUnitOfWork, SaveChangesThrows, Commit, CommitThrows, GiveBack,
     Release, Goto
<1>4. NotFound(t) \/ \E i \in saved \cup DOMAIN session[t].entities :
                        /\ Found(t, i)
                        /\ i \in IF persister = "Raven" THEN DOMAIN session'[t].entities ELSE saved
  BY <1>2, <1>3 DEF GetFromMemory, LoadLookup, LoadSaga, Goto, With, Layer1, Sessions, Fields
<1>5. UNCHANGED <<storeVars, tx>>
  BY <1>3 DEF GetFromMemory, LoadLookup, LoadSaga
<1>6. QED
  BY <1>2, <1>4, <1>5 DEF NotFound, Found, Goto

(* The other threads keep what they have in hand.                          *)
LEMMA OthersKeep ==
  ASSUME Layer1, NEW t \in Threads, Process(t), NEW u \in Threads, u # t
  PROVE  /\ step'[u] = step[u] /\ message'[u] = message[u]
         /\ entity'[u] = entity[u] /\ persistent'[u] = persistent[u]
         /\ tx'[u] = tx[u]
         /\ session'[u].entities = session[u].entities
         /\ session'[u].lookups = session[u].lookups
         /\ session'[u].changed = session[u].changed
         /\ session'[u].removed = session[u].removed
         /\ session[u].stale \subseteq session'[u].stale
<1> DEFINE Goal == /\ step'[u] = step[u] /\ message'[u] = message[u]
                   /\ entity'[u] = entity[u] /\ persistent'[u] = persistent[u]
                   /\ tx'[u] = tx[u]
                   /\ session'[u].entities = session[u].entities
                   /\ session'[u].lookups = session[u].lookups
                   /\ session'[u].changed = session[u].changed
                   /\ session'[u].removed = session[u].removed
                   /\ session[u].stale \subseteq session'[u].stale
<1>0. /\ step \in [Threads -> Steps] /\ message \in [Threads -> Messages \cup {NoMessage}]
      /\ entity \in [Threads -> Ids \cup {NoSaga}] /\ persistent \in [Threads -> BOOLEAN]
      /\ DOMAIN tx = Threads /\ DOMAIN session = Threads
      /\ SessionOK(session[u]) /\ DOMAIN session[u] = Fields
  BY DEF Layer1, Locals, Transactions, Sessions
<1>1. ASSUME NEW m \in Messages, Receive(t, m) PROVE Goal
  BY <1>0, <1>1 DEF Receive, Goto
<1>2. ASSUME GetFromMemory(t) \/ LoadLookup(t) \/ LoadSaga(t) PROVE Goal
  BY <1>0, <1>2 DEF GetFromMemory, LoadLookup, LoadSaga, NotFound, Found, Goto
<1>3. ASSUME Invoke(t) PROVE Goal
  BY <1>0, <1>3, InvokeIds
<1>4. ASSUME HandlerThrows(t) \/ PersisterThrows(t) PROVE Goal
  BY <1>0, <1>4 DEF HandlerThrows, PersisterThrows, GiveBack, Release, Goto
<1>5. ASSUME EndUnitOfWork(t) PROVE Goal
  <2>1. tx'[u] = tx[u]
    BY <1>5, ChangeIds DEF EndUnitOfWork, Layer1
  <2>2. session'[u] = session[u] \/ session'[u] = Outdate(session[u], Batch(t))
    BY <1>5 DEF EndUnitOfWork
  <2>3. /\ step'[u] = step[u] /\ message'[u] = message[u]
        /\ entity'[u] = entity[u] /\ persistent'[u] = persistent[u]
    BY <1>0, <1>5 DEF EndUnitOfWork, Goto
  <2>4. QED
    BY <1>0, <2>1, <2>2, <2>3 DEF Outdate, Fields
<1>6. ASSUME SaveChangesThrows(t) PROVE Goal
  <2>1. session'[u] = session[u]
    BY <1>6, SaveChangesThrowsTyped
  <2>2. QED
    BY <1>0, <1>6, <2>1 DEF SaveChangesThrows, GiveBack, Release, Goto
<1>7. ASSUME Commit(t) PROVE Goal
  <2>1. session'[u] = Outdate(session[u], tx[t])
    BY <1>7 DEF Commit
  <2>2. /\ step'[u] = step[u] /\ message'[u] = message[u] /\ tx'[u] = tx[u]
        /\ entity'[u] = entity[u] /\ persistent'[u] = persistent[u]
    BY <1>0, <1>7 DEF Commit, Release, Goto
  <2>3. QED
    BY <1>0, <2>1, <2>2 DEF Outdate, Fields
<1>8. ASSUME CommitThrows(t) PROVE Goal
  BY <1>0, <1>8 DEF CommitThrows, GiveBack, Release, Goto
<1>9. QED
  BY <1>1, <1>2, <1>3, <1>4, <1>5, <1>6, <1>7, <1>8 DEF Process

(* An id nobody knows stays unknown but to the thread that invokes it.     *)
LEMMA StaysUnknown ==
  ASSUME Layer1, NEW t \in Threads, Process(t), NEW i, Unknown(i),
         step[t] = "invoke" => entity[t] # i
  PROVE  Unknown(i)'
<1> DEFINE Goal == /\ i \notin saved' \cup cleared'
                   /\ i \notin DOMAIN session'[t].entities
                   /\ i \notin DOMAIN tx'[t].puts \cup tx'[t].clears
<1>0. /\ SessionOK(session[t]) /\ DOMAIN session[t] = Fields /\ DOMAIN session = Threads
      /\ DOMAIN tx = Threads
      /\ i \notin saved \cup cleared /\ i \notin DOMAIN session[t].entities
      /\ i \notin DOMAIN tx[t].puts \cup tx[t].clears
  BY DEF Layer1, Sessions, Transactions, Unknown
<1>1. ASSUME NEW m \in Messages, Receive(t, m) PROVE Goal
  BY <1>0, <1>1 DEF Receive, storeVars
<1>2. ASSUME GetFromMemory(t) \/ LoadLookup(t) \/ LoadSaga(t) PROVE Goal
  <2>1. UNCHANGED <<storeVars, tx>>
    BY <1>2 DEF GetFromMemory, LoadLookup, LoadSaga
  <2>2. CASE session' = session
    BY <1>0, <2>1, <2>2 DEF storeVars
  <2>3. ASSUME NEW v, NEW j, session' = [session EXCEPT ![t].lookups = With(@, v, j)]
        PROVE  Goal
    BY <1>0, <2>1, <2>3 DEF storeVars, Fields
  <2>4. ASSUME NEW j \in saved, NEW d, session' = [session EXCEPT ![t].entities = With(@, j, d)]
        PROVE  Goal
    BY <1>0, <2>1, <2>4 DEF storeVars, Fields, With
  <2>5. QED
    BY <1>2, <2>2, <2>3, <2>4 DEF GetFromMemory, LoadLookup, LoadSaga
<1>3. ASSUME Invoke(t) PROVE Goal
  BY <1>0, <1>3, InvokeIds
<1>4. ASSUME HandlerThrows(t) \/ PersisterThrows(t) PROVE Goal
  <2>1. saved' = saved /\ cleared' = cleared
    BY <1>4, HandlerThrowsTyped, PersisterThrowsTyped
  <2>2. session'[t] = NewSession /\ tx'[t] = NoChanges
    BY <1>0, <1>4 DEF HandlerThrows, PersisterThrows, GiveBack
  <2>3. QED
    BY <1>0, <2>1, <2>2 DEF NewSession, NoChanges, Nothing
<1>5. ASSUME EndUnitOfWork(t) PROVE Goal
  <2>1. i \notin DOMAIN Batch(t).puts /\ Batch(t).clears = {}
    BY <1>0, BatchTyped DEF SessionOK
  <2>2. session'[t] = NewSession /\ Change(t, Batch(t))
    BY <1>5 DEF EndUnitOfWork
  <2>3. QED
    BY <1>0, <2>1, <2>2, ChangeIds DEF NewSession, Layer1, Nothing
<1>6. ASSUME SaveChangesThrows(t) PROVE Goal
  <2>1. saved' = saved /\ cleared' = cleared /\ tx'[t] = NoChanges
    BY <1>0, <1>6 DEF SaveChangesThrows, storeVars, GiveBack
  <2>2. QED
    BY <1>0, <1>6, <2>1, SaveChangesThrowsTyped DEF NoChanges, Nothing
<1>7. ASSUME Commit(t) PROVE Goal
  <2>1. Apply(tx[t]) /\ tx'[t] = NoChanges /\ session'[t] = Outdate(session[t], tx[t])
    BY <1>0, <1>7 DEF Commit
  <2>2. saved' \subseteq saved \cup DOMAIN tx[t].puts /\ cleared' = cleared \cup tx[t].clears
    BY <2>1 DEF Apply
  <2>3. session'[t].entities = session[t].entities
    BY <1>0, <2>1 DEF Outdate, Fields
  <2>4. QED
    BY <1>0, <2>1, <2>2, <2>3 DEF NoChanges, Nothing
<1>8. ASSUME CommitThrows(t) PROVE Goal
  BY <1>0, <1>8, Domains DEF CommitThrows, storeVars, GiveBack, NoChanges
<1>9. Goal
  BY <1>1, <1>2, <1>3, <1>4, <1>5, <1>6, <1>7, <1>8 DEF Process
<1>10. \A u \in Threads \ {t} : session'[u].entities = session[u].entities /\ tx'[u] = tx[u]
  BY OthersKeep
<1>11. QED
  BY <1>9, <1>10 DEF Unknown

(* In memory nobody takes away the object another thread works on.         *)
LEMMA ObjectsKept ==
  ASSUME Layer1, NEW t \in Threads, Process(t), persister = "InMemory",
         NEW u \in Threads, u # t, entity[u] \in DOMAIN data
  PROVE  entity[u] \in DOMAIN data'
<1>0. session[t].removed = {} /\ tx[t].drops = {}
  BY DEF Layer1, NoSessions, Sessions, SessionOK
<1>1. CASE Invoke(t)
  <2>1. PICK w \in Values, completed \in BOOLEAN : InvokeInMemory(t, w, completed)
    BY <1>1 DEF Invoke, Save, Update, Complete
  <2>2. step[t] = "invoke"
    BY <1>1 DEF Invoke
  <2>3. QED
    BY <2>1, <2>2, InvokeInMemoryTyped
<1>2. CASE HandlerThrows(t) \/ PersisterThrows(t)
  BY <1>2, HandlerThrowsTyped, PersisterThrowsTyped
<1>3. CASE EndUnitOfWork(t)
  BY <1>0, <1>3, BatchTyped, ChangeIds DEF EndUnitOfWork, Layer1
<1>4. CASE Commit(t)
  BY <1>0, <1>4 DEF Commit, Apply, Merge, Without
<1>5. CASE UNCHANGED data
  BY <1>5
<1>6. QED
  BY <1>1, <1>2, <1>3, <1>4, <1>5
  DEF Process, Receive, GetFromMemory, LoadLookup, LoadSaga, SaveChangesThrows, CommitThrows,
     storeVars

LEMMA SameConfiguration == [Next]_vars => UNCHANGED configVars
  BY DEF Next, Process, Restart, Receive, GetFromMemory, LoadLookup, LoadSaga, Invoke,
     HandlerThrows, PersisterThrows, EndUnitOfWork, SaveChangesThrows, Commit, CommitThrows,
     GiveBack, vars

LEMMA InHandStep == Layer1 /\ [Next]_vars => InHand'
<1> SUFFICES ASSUME Layer1, [Next]_vars PROVE InHand'
  OBVIOUS
<1>1. CASE UNCHANGED vars
  BY <1>1 DEF vars, configVars, storeVars, threadVars, Layer1, InHand
<1>2. CASE Restart
  BY <1>2 DEF Restart, InHand
<1>3. ASSUME NEW t \in Threads, Process(t) PROVE InHand'
  <2> DEFINE Good(u) == /\ step[u] \in {"load", "invoke"} => entity[u] \in Ids
                        /\ step[u] = "invoke" /\ persistent[u] =>
                             entity[u] \in IF persister = "Raven" THEN DOMAIN session[u].entities
                                           ELSE DOMAIN data
  <2>0. persister' = persister /\ persister \in {"InMemory", "Raven"}
    BY SameConfiguration DEF configVars, Layer1, Configured
  <2>1. ASSUME NEW u \in Threads \ {t} PROVE Good(u)'
    <3>1. Good(u)
      BY DEF Layer1, InHand
    <3>2. /\ step'[u] = step[u] /\ entity'[u] = entity[u] /\ persistent'[u] = persistent[u]
          /\ session'[u].entities = session[u].entities
      BY <1>3, OthersKeep
    <3>3. CASE persister = "Raven"
      BY <2>0, <3>1, <3>2, <3>3
    <3>4. CASE persister = "InMemory"
      <4>1. entity[u] \in DOMAIN data => entity[u] \in DOMAIN data'
        BY <1>3, <3>4, ObjectsKept
      <4>2. QED
        BY <2>0, <3>1, <3>2, <3>4, <4>1
    <3>5. QED
      BY <2>0, <3>3, <3>4
  <2>2. step'[t] = "load" => entity'[t] \in Ids
    <3>1. CASE \E m \in Messages : Receive(t, m)
      BY <3>1 DEF Receive, Goto, Layer1, Locals, Stored
    <3>2. CASE LoadLookup(t)
      <4>1. ValueOf[message[t]] \in Values
        BY <3>2, MessagesAssumption DEF LoadLookup, Layer1, Locals
      <4>2. QED
        BY <3>2, <4>1 DEF LoadLookup, NotFound, Goto, Layer1, Locals, Sessions, SessionOK,
           IsPartial, Stored
    <3>3. CASE GetFromMemory(t) \/ LoadSaga(t)
      BY <3>3 DEF GetFromMemory, LoadSaga, NotFound, Found, Goto, Layer1, Locals
    <3>4. CASE Invoke(t)
      BY <3>4, InvokeIds DEF Layer1, Locals
    <3>5. QED
      BY <1>3, <3>1, <3>2, <3>3, <3>4
      DEF Process, HandlerThrows, PersisterThrows, EndUnitOfWork, SaveChangesThrows, Commit,
         CommitThrows, GiveBack, Release, Goto, Layer1, Locals
  <2>3. step'[t] = "invoke" => Good(t)'
    <3>1. saved \subseteq DOMAIN data /\ DOMAIN data \subseteq Ids /\ SessionOK(session[t])
      BY DEF Layer1, Stored, Sessions, IsPartial
    <3>2. DOMAIN session[t].entities \subseteq Ids
      BY <3>1 DEF SessionOK, IsPartial
    <3>3. QED
      BY <1>3, <2>0, <3>1, <3>2, ComesToInvoke DEF storeVars
  <2>4. Good(t)'
    BY <2>2, <2>3
  <2>5. QED
    BY <2>1, <2>4 DEF InHand
<1>4. QED
  BY <1>1, <1>2, <1>3 DEF Next

LEMMA NoSessionsStep == Layer1 /\ [Next]_vars => NoSessions'
<1> SUFFICES ASSUME Layer1, [Next]_vars, persister = "InMemory", NEW u \in Threads
             PROVE  /\ DOMAIN session'[u].entities = {}
                    /\ DOMAIN tx'[u].puts = {} /\ tx'[u].drops = {}
  BY SameConfiguration DEF NoSessions, configVars
<1> DEFINE Goal == /\ DOMAIN session'[u].entities = {}
                   /\ DOMAIN tx'[u].puts = {} /\ tx'[u].drops = {}
<1>0. /\ DOMAIN session[u].entities = {}
      /\ DOMAIN tx[u].puts = {} /\ tx[u].drops = {}
      /\ SessionOK(session[u]) /\ DOMAIN session[u] = Fields
      /\ DOMAIN session = Threads /\ DOMAIN tx = Threads
  BY DEF Layer1, NoSessions, Sessions, Transactions
<1>1. CASE UNCHANGED vars
  BY <1>0, <1>1 DEF vars
<1>2. CASE Restart
  BY <1>2 DEF Restart, NewSession, NoChanges, Nothing
<1>3. ASSUME NEW t \in Threads, Process(t), u # t PROVE Goal
  BY <1>0, <1>3, OthersKeep
<1>4. ASSUME Process(u) PROVE Goal
  <2>1. CASE (\E m \in Messages : Receive(u, m)) \/ GetFromMemory(u)
    BY <1>0, <2>1 DEF Receive, GetFromMemory
  <2>2. CASE Invoke(u)
    <3>1. PICK w \in Values, completed \in BOOLEAN : InvokeInMemory(u, w, completed)
      BY <2>2 DEF Invoke, Save, Update, Complete
    <3>2. session' = session /\ DOMAIN tx'[u].puts \subseteq {} /\ tx'[u].drops \subseteq {}
      BY <1>0, <2>2, <3>1, InvokeIds DEF InvokeInMemory
    <3>3. QED
      BY <1>0, <3>2
  <2>3. CASE HandlerThrows(u) \/ PersisterThrows(u)
    BY <1>0, <2>3 DEF HandlerThrows, PersisterThrows, GiveBack, NewSession, NoChanges, Nothing
  <2>4. CASE EndUnitOfWork(u)
    <3>1. DOMAIN Batch(u).puts = {} /\ Batch(u).drops = {} /\ Change(u, Batch(u))
      BY <1>0, <2>4, BatchTyped DEF EndUnitOfWork, SessionOK
    <3>2. DOMAIN tx'[u].puts \subseteq {} /\ tx'[u].drops \subseteq {}
      BY <1>0, <3>1, ChangeIds DEF Layer1
    <3>3. QED
      BY <2>4, <3>2 DEF EndUnitOfWork, NewSession, Nothing
  <2>5. CASE SaveChangesThrows(u)
    BY <1>0, <2>5, SaveChangesThrowsTyped DEF SaveChangesThrows, GiveBack, NoChanges, Nothing
  <2>6. CASE Commit(u)
    BY <1>0, <2>6 DEF Commit, Outdate, Fields, NoChanges, Nothing
  <2>7. CASE CommitThrows(u)
    BY <1>0, <2>7 DEF CommitThrows, GiveBack, NoChanges, Nothing
  <2>8. QED
    BY <1>4, <2>1, <2>2, <2>3, <2>4, <2>5, <2>6, <2>7 DEF Process, LoadLookup, LoadSaga
<1>5. QED
  BY <1>1, <1>2, <1>3, <1>4 DEF Next

LEMMA ClearingStep == Layer1 /\ [Next]_vars => Clearing'
<1> SUFFICES ASSUME Layer1, [Next]_vars, NEW u \in Threads
             PROVE  /\ tx'[u].clears \subseteq {entity'[u]}
                    /\ tx'[u].clears # {} => step'[u] \in {"end", "commit"}
  BY DEF Clearing
<1> DEFINE Goal == /\ tx'[u].clears \subseteq {entity'[u]}
                   /\ tx'[u].clears # {} => step'[u] \in {"end", "commit"}
<1>0. /\ tx[u].clears \subseteq {entity[u]}
      /\ tx[u].clears # {} => step[u] \in {"end", "commit"}
      /\ DOMAIN tx = Threads /\ step \in [Threads -> Steps]
      /\ NoChanges.clears = {}
  BY DEF Layer1, Clearing, Transactions, Locals, NoChanges
<1>1. CASE UNCHANGED vars
  BY <1>0, <1>1 DEF vars, threadVars
<1>2. CASE Restart
  BY <1>0, <1>2 DEF Restart
<1>3. ASSUME NEW t \in Threads, Process(t), u # t PROVE Goal
  BY <1>0, <1>3, OthersKeep
<1>4. ASSUME Process(u) PROVE Goal
  <2>1. CASE \E m \in Messages : Receive(u, m)
    BY <1>0, <2>1 DEF Receive
  <2>2. CASE GetFromMemory(u) \/ LoadLookup(u) \/ LoadSaga(u)
    BY <1>0, <2>2 DEF GetFromMemory, LoadLookup, LoadSaga
  <2>3. CASE Invoke(u)
    BY <1>0, <2>3, InvokeIds
  <2>4. CASE EndUnitOfWork(u)
    <3>1. Change(u, Batch(u)) /\ Batch(u).clears = {}
      BY <2>4, BatchTyped DEF EndUnitOfWork
    <3>2. tx'[u].clears \subseteq tx[u].clears
      BY <3>1, ChangeIds DEF Layer1
    <3>3. QED
      BY <1>0, <2>4, <3>2 DEF EndUnitOfWork, Goto
  <2>5. CASE HandlerThrows(u) \/ PersisterThrows(u) \/ SaveChangesThrows(u) \/ CommitThrows(u)
    BY <1>0, <2>5 DEF HandlerThrows, PersisterThrows, SaveChangesThrows, CommitThrows, GiveBack
  <2>6. CASE Commit(u)
    BY <1>0, <2>6 DEF Commit
  <2>7. QED
    BY <1>4, <2>1, <2>2, <2>3, <2>4, <2>5, <2>6 DEF Process
<1>5. QED
  BY <1>1, <1>2, <1>3, <1>4 DEF Next

LEMMA FreeIsUnknown ==
  ASSUME Layer1, NEW i, Free(i)
  PROVE  Unknown(i) /\ \A u \in Threads : entity[u] # i
  BY DEF Free, Unknown, Layer1, Clearing

LEMMA FreshInHandStep == Layer1 /\ [Next]_vars => FreshInHand'
<1> SUFFICES ASSUME Layer1, [Next]_vars, NEW u \in Threads,
                    step'[u] = "invoke", ~ persistent'[u]
             PROVE  /\ Unknown(entity[u])'
                    /\ \A v \in Threads \ {u} : step'[v] = "invoke" => entity'[v] # entity'[u]
  BY DEF FreshInHand
<1>1. CASE UNCHANGED vars
  BY <1>1 DEF vars, storeVars, threadVars, Layer1, FreshInHand, Unknown
<1>2. CASE Restart
  BY <1>2 DEF Restart
<1>3. ASSUME NEW t \in Threads, Process(t), u # t
      PROVE  /\ Unknown(entity[u])'
             /\ \A v \in Threads \ {u} : step'[v] = "invoke" => entity'[v] # entity'[u]
  <2> DEFINE i == entity[u]
  <2>1. step[u] = "invoke" /\ ~ persistent[u] /\ entity'[u] = i
    BY <1>3, OthersKeep
  <2>2. /\ Unknown(i)
        /\ \A v \in Threads \ {u} : step[v] = "invoke" => entity[v] # i
    BY <2>1 DEF Layer1, FreshInHand
  <2>3. Unknown(entity[u])'
    <3>1. ASSUME NEW j, j = i PROVE Unknown(j)'
      BY <1>3, <2>2, <3>1, StaysUnknown
    <3>2. QED
      BY <2>1, <3>1 DEF Unknown
  <2>4. step'[t] = "invoke" => entity'[t] # i
    <3>1. i \notin saved \cup DOMAIN session[t].entities
      BY <2>2 DEF Unknown
    <3>2. Free(entity'[t]) => entity'[t] # i
      BY DEF Free
    <3>3. QED
      BY <1>3, <3>1, <3>2, ComesToInvoke
  <2>5. \A v \in Threads \ {u, t} : step'[v] = step[v] /\ entity'[v] = entity[v]
    BY <1>3, OthersKeep
  <2>6. QED
    BY <2>1, <2>2, <2>3, <2>4, <2>5
<1>4. ASSUME Process(u)
      PROVE  /\ Unknown(entity[u])'
             /\ \A v \in Threads \ {u} : step'[v] = "invoke" => entity'[v] # entity'[u]
  <2>1. Free(entity'[u])
    BY <1>4, ComesToInvoke
  <2>2. ASSUME NEW j, j = entity'[u] PROVE Unknown(j)' /\ \A v \in Threads : entity[v] # j
    <3>1. Unknown(j) /\ \A v \in Threads : entity[v] # j
      BY <2>1, <2>2, FreeIsUnknown
    <3>2. QED
      BY <1>4, <3>1, StaysUnknown
  <2>3. \A v \in Threads \ {u} : entity'[v] = entity[v]
    BY <1>4, OthersKeep
  <2>4. QED
    BY <2>2, <2>3 DEF Unknown
<1>5. QED
  BY <1>1, <1>2, <1>3, <1>4 DEF Next

(* Layer 1 holds in every state.                                           *)
THEOREM Layer1Correct == Spec => []Layer1
<1>1. Layer1 /\ [Next]_vars => Layer1'
  BY TypedStep, InHandStep, NoSessionsStep, ClearingStep, FreshInHandStep DEF Layer1, Typed
<1>2. QED
  BY Layer1Init, <1>1, PTL DEF Spec

(* Every variable of the sagas keeps its type, the locals of the           *)
(* dispatcher, the sessions and the transactions among them.               *)
THEOREM TypeCorrect == Spec => []TypeOK
<1>1. Layer1 => TypeOK
  BY DEF Layer1, Configured, Stored, Sessions, Transactions, Locals, Tallies, TypeOK,
     Steps, States
<1>2. QED
  BY Layer1Correct, <1>1, PTL
-----------------------------------------------------------------------------
(* Layer 2: a completed saga does not come back.  With Raven and the       *)
(* transaction of the thread only transactions change the store, no two of *)
(* them write one saga, and those that load a saga that is being removed   *)
(* have an old version of it by then.                                      *)

Raven == persister = "Raven"

Enlisted == Raven /\ ambient

(* Nobody can put saga i into the store.                                   *)
Dead(i) ==
  /\ i \notin saved
  /\ \A u \in Threads :
       /\ i \notin DOMAIN tx[u].puts
       /\ i \in DOMAIN session[u].entities => i \in session[u].stale
       /\ step[u] = "invoke" /\ ~ persistent[u] => entity[u] # i

Written(t) == DOMAIN tx[t].puts \cup tx[t].drops

OneWriter == \A t, u \in Threads : t # u => Written(t) \cap Written(u) = {}

WrittenLate ==
  \A t \in Threads : /\ Written(t) # {} => step[t] = "commit"
                     /\ DOMAIN tx[t].puts \cap tx[t].drops = {}

(* A saga whose timeouts a transaction will clear will be removed with it, *)
(* or never was in the store.                                              *)
Going ==
  \A t \in Threads : \A i \in tx[t].clears :
    \/ step[t] = "end" /\ i \in session[t].removed
    \/ step[t] = "commit" /\ i \in tx[t].drops
    \/ Dead(i)

Gone == \A i \in cleared : Dead(i)

Layer2 == Enlisted => OneWriter /\ WrittenLate /\ Going /\ Gone

LEMMA Layer2Init == Init => Layer2
  BY DEF Init, Layer2, OneWriter, WrittenLate, Going, Gone, Written, NoChanges, Nothing

(* Only a commit changes the store.                                        *)
LEMMA OnlyCommitsStore ==
  ASSUME Layer1, Enlisted, NEW t \in Threads, Process(t)
  PROVE  Commit(t) \/ (saved' = saved /\ cleared' = cleared)
<1>1. CASE Invoke(t)
  <2>1. step[t] = "invoke" /\ entity[t] \in Ids
    BY <1>1, InvokeIds
  <2>2. PICK w \in Values, completed \in BOOLEAN :
          Save(t, completed) \/ Update(t, w) \/ Complete(t, w)
    BY <1>1 DEF Invoke, InvokeInMemory, Enlisted, Raven
  <2>3. \E c : Change(t, c)
    BY <2>2 DEF Save, Update, Complete, Unlink
  <2>4. QED
    BY <2>3, ChangeIds DEF Enlisted, Layer1
<1>2. CASE HandlerThrows(t) \/ PersisterThrows(t)
  BY <1>2, HandlerThrowsTyped, PersisterThrowsTyped
<1>3. CASE EndUnitOfWork(t)
  BY <1>3, ChangeIds DEF EndUnitOfWork, Enlisted, Layer1
<1>4. CASE \/ \E m \in Messages : Receive(t, m)
           \/ GetFromMemory(t) \/ LoadLookup(t) \/ LoadSaga(t)
           \/ SaveChangesThrows(t) \/ CommitThrows(t)
  BY <1>4 DEF Receive, GetFromMemory, LoadLookup, LoadSaga, SaveChangesThrows, CommitThrows,
     storeVars
<1>5. QED
  BY <1>1, <1>2, <1>3, <1>4 DEF Process

(* What invoking does to the session and the changes of the thread.        *)
LEMMA InvokeEnlisted ==
  ASSUME Layer1, Enlisted, NEW t \in Threads, Invoke(t)
  PROVE  /\ session'[t].stale = session[t].stale
         /\ session'[t].removed = session[t].removed
              \/ session'[t].removed = session[t].removed \cup {entity[t]}
         /\ \/ tx'[t].clears = tx[t].clears
            \/ entity[t] \in session'[t].removed
            \/ ~ persistent[t] /\ session' = session
         /\ persistent[t] => DOMAIN session'[t].entities = DOMAIN session[t].entities
<1>1. step[t] = "invoke" /\ entity[t] \in Ids
  BY InvokeIds
<1>2. PICK w \in Values, completed \in BOOLEAN :
        \/ Save(t, completed)
        \/ ~ completed /\ Update(t, w)
        \/ completed /\ Complete(t, w)
  <2>1. \A w \in Values, completed \in BOOLEAN : ~ InvokeInMemory(t, w, completed)
    BY DEF InvokeInMemory, Enlisted, Raven
  <2>2. QED
    BY <2>1 DEF Invoke
<1>3. DOMAIN session = Threads /\ DOMAIN session[t] = Fields
  BY DEF Layer1, Sessions
<1>4. Sends(t, completed).clears = IF completed THEN {entity[t]} ELSE {}
  BY <1>1, SentTyped
<1>5. CASE Save(t, completed)
  <2>1. CASE completed
    BY <1>5, <2>1 DEF Save
  <2>2. CASE ~ completed
    <3>1. tx'[t].clears = tx[t].clears
      BY <1>4, <1>5, <2>2, ChangeIds DEF Save, Enlisted, Layer1
    <3>2. session'[t].stale = session[t].stale /\ session'[t].removed = session[t].removed
      BY <1>3, <1>5, <2>2 DEF Save, Fields
    <3>3. QED
      BY <1>5, <3>1, <3>2 DEF Save
  <2>3. QED
    BY <2>1, <2>2
<1>6. CASE ~ completed /\ Update(t, w)
  <2>1. PICK c : Change(t, c) /\ c.clears = {}
    <3>1. CASE w = session[t].entities[entity[t]].value
      BY <1>1, <1>6, <3>1, SentTyped DEF Update
    <3>2. CASE w # session[t].entities[entity[t]].value
      BY <1>1, <1>6, <3>2, UnlinkIds DEF Update
    <3>3. QED
      BY <3>1, <3>2
  <2>2. tx'[t].clears = tx[t].clears
    BY <2>1, ChangeIds DEF Enlisted, Layer1
  <2>3. session'[t].stale = session[t].stale /\ session'[t].removed = session[t].removed
    <3>1. CASE w = session[t].entities[entity[t]].value
      BY <1>3, <1>6, <3>1 DEF Update, Fields
    <3>2. CASE w # session[t].entities[entity[t]].value
      BY <1>3, <1>6, <3>2 DEF Update, Fields
    <3>3. QED
      BY <3>1, <3>2
  <2>4. QED
    BY <1>1, <1>6, <2>2, <2>3, UpdateTyped
<1>7. CASE completed /\ Complete(t, w)
  <2>1. session'[t].stale = session[t].stale
        /\ session'[t].removed = session[t].removed \cup {entity[t]}
    BY <1>3, <1>7 DEF Complete, Fields
  <2>2. QED
    BY <1>1, <1>7, <2>1, CompleteTyped
<1>8. QED
  BY <1>2, <1>5, <1>6, <1>7

(* Invoking changes the session of the thread, and no saga elsewhere.      *)
LEMMA InvokedInRaven ==
  ASSUME Layer1, Raven, NEW t \in Threads, Invoke(t)
  PROVE  /\ saved' = saved /\ \A i \in saved : data'[i] = data[i]
         /\ DOMAIN tx'[t].puts = DOMAIN tx[t].puts /\ tx'[t].drops = tx[t].drops
         /\ \A i \in DOMAIN tx[t].puts : tx'[t].puts[i] = tx[t].puts[i]
         /\ session'[t].stale = session[t].stale
         /\ \/ ~ persistent[t] /\ session' = session
            \/ /\ entity[t] \in session'[t].changed \cup session'[t].removed
               /\ \E d : /\ session'[t].entities = With(session[t].entities, entity[t], d)
                         /\ IF persistent[t]
                            THEN \E w \in Values :
                                   d = Effect(session[t].entities[entity[t]], message[t], w)
                            ELSE d = Created(message[t])
<1> DEFINE i == entity[t]
           d == session[t].entities[i]
<1>1. step[t] = "invoke" /\ i \in Ids
  BY InvokeIds
<1>2. PICK w \in Values, completed \in BOOLEAN :
        \/ Save(t, completed)
        \/ ~ completed /\ Update(t, w)
        \/ completed /\ Complete(t, w)
  BY DEF Invoke, InvokeInMemory, Raven
<1>3. DOMAIN session = Threads /\ DOMAIN session[t] = Fields
  BY DEF Layer1, Sessions
<1>4. PICK c : Change(t, c) /\ DOMAIN c.puts = {} /\ c.drops = {}
  <2>1. CASE Save(t, completed)
    BY <1>1, <2>1, SentTyped, Domains DEF Save
  <2>2. CASE Update(t, w)
    <3>1. CASE w = d.value
      BY <1>1, <2>2, <3>1, SentTyped, Domains DEF Update
    <3>2. CASE w # d.value
      BY <1>1, <2>2, <3>2, UnlinkIds, Domains DEF Update
    <3>3. QED
      BY <3>1, <3>2
  <2>3. CASE Complete(t, w)
    BY <1>1, <2>3, UnlinkIds, Domains DEF Complete
  <2>4. QED
    BY <1>2, <2>1, <2>2, <2>3
<1>5. saved' = saved /\ \A j \in saved : data'[j] = data[j]
  BY <1>4 DEF Change, storeVars, Apply, Merge, Without, Layer1, Stored
<1>6. /\ DOMAIN tx'[t].puts = DOMAIN tx[t].puts /\ tx'[t].drops = tx[t].drops
      /\ \A j \in DOMAIN tx[t].puts : tx'[t].puts[j] = tx[t].puts[j]
  <2>1. CASE ambient
    <3>1. tx'[t].puts = Merge(c.puts, tx[t].puts) /\ tx'[t].drops = c.drops \cup tx[t].drops
      BY <1>4, <2>1 DEF Change, Layer1, Transactions
    <3>2. QED
      BY <1>4, <3>1 DEF Merge
  <2>2. CASE ~ ambient
    BY <1>4, <2>2 DEF Change
  <2>3. QED
    BY <2>1, <2>2
<1>7. CASE Save(t, completed)
  <2>1. ~ persistent[t]
    BY <1>7 DEF Save
  <2>2. CASE completed
    BY <1>5, <1>6, <1>7, <2>1, <2>2 DEF Save
  <2>3. CASE ~ completed
    <3>1. /\ session'[t].entities = With(session[t].entities, i, Created(message[t]))
          /\ session'[t].stale = session[t].stale
          /\ session'[t].changed = session[t].changed \cup {i}
      BY <1>3, <1>7, <2>3 DEF Save, Fields
    <3>2. QED
      BY <1>5, <1>6, <2>1, <3>1
  <2>4. QED
    BY <2>2, <2>3
<1>8. CASE Update(t, w)
  <2>1. persistent[t]
    BY <1>8 DEF Update
  <2>2. /\ session'[t].entities = With(session[t].entities, i, Effect(d, message[t], w))
        /\ session'[t].stale = session[t].stale
        /\ session'[t].changed = session[t].changed \cup {i}
    <3>1. CASE w = d.value
      BY <1>3, <1>8, <3>1 DEF Update, Fields
    <3>2. CASE w # d.value
      BY <1>3, <1>8, <3>2 DEF Update, Fields
    <3>3. QED
      BY <3>1, <3>2
  <2>3. QED
    BY <1>5, <1>6, <2>1, <2>2
<1>9. CASE Complete(t, w)
  <2>1. persistent[t]
    BY <1>9 DEF Complete
  <2>2. /\ session'[t].entities = With(session[t].entities, i, Effect(d, message[t], w))
        /\ session'[t].stale = session[t].stale
        /\ session'[t].removed = session[t].removed \cup {i}
    BY <1>3, <1>9 DEF Complete, Fields
  <2>3. QED
    BY <1>5, <1>6, <2>1, <2>2
<1>10. QED
  BY <1>2, <1>7, <1>8, <1>9

(* Who is dead stays dead, when the id is not given out again.             *)
LEMMA StaysDead ==
  ASSUME Layer1, Raven, NEW t \in Threads, Process(t), NEW i, Dead(i), ~ Free(i)
  PROVE  Dead(i)'
<1> DEFINE Goal == /\ i \notin saved' /\ i \notin DOMAIN tx'[t].puts
                   /\ i \in DOMAIN session'[t].entities => i \in session'[t].stale
<1>0. /\ SessionOK(session[t]) /\ DOMAIN session[t] = Fields /\ DOMAIN session = Threads
      /\ DOMAIN tx = Threads
      /\ i \notin saved /\ i \notin DOMAIN tx[t].puts
      /\ i \in DOMAIN session[t].entities => i \in session[t].stale
      /\ step[t] = "invoke" /\ ~ persistent[t] => entity[t] # i
  BY DEF Layer1, Sessions, Transactions, Dead
<1>1. ASSUME NEW m \in Messages, Receive(t, m) PROVE Goal
  BY <1>0, <1>1 DEF Receive, storeVars
<1>2. ASSUME GetFromMemory(t) \/ LoadLookup(t) \/ LoadSaga(t) PROVE Goal
  <2>1. UNCHANGED <<storeVars, tx>>
    BY <1>2 DEF GetFromMemory, LoadLookup, LoadSaga
  <2>2. CASE session' = session
    BY <1>0, <2>1, <2>2 DEF storeVars
  <2>3. ASSUME NEW v, NEW j, session' = [session EXCEPT ![t].lookups = With(@, v, j)]
        PROVE  Goal
    BY <1>0, <2>1, <2>3 DEF storeVars, Fields
  <2>4. ASSUME NEW j \in saved, NEW d, session' = [session EXCEPT ![t].entities = With(@, j, d)]
        PROVE  Goal
    BY <1>0, <2>1, <2>4 DEF storeVars, Fields, With
  <2>5. QED
    BY <1>2, <2>2, <2>3, <2>4 DEF GetFromMemory, LoadLookup, LoadSaga
<1>3. ASSUME Invoke(t) PROVE Goal
  <2>1. step[t] = "invoke" /\ (persistent[t] => entity[t] \in DOMAIN session[t].entities)
    BY <1>3, InHandInvoke DEF Invoke, Raven
  <2>2. i \in DOMAIN session'[t].entities => i \in DOMAIN session[t].entities
    <3>1. CASE session' = session
      BY <3>1
    <3>2. ASSUME NEW d, session'[t].entities = With(session[t].entities, entity[t], d)
          PROVE  i \in DOMAIN session'[t].entities => i \in DOMAIN session[t].entities
      BY <1>0, <2>1, <3>2 DEF With
    <3>3. QED
      BY <1>3, <3>1, <3>2, InvokedInRaven
  <2>3. QED
    BY <1>0, <1>3, <2>2, InvokedInRaven
<1>4. ASSUME HandlerThrows(t) \/ PersisterThrows(t) PROVE Goal
  <2>1. saved' = saved
    BY <1>4, HandlerThrowsTyped, PersisterThrowsTyped
  <2>2. session'[t] = NewSession /\ tx'[t] = NoChanges
    BY <1>0, <1>4 DEF HandlerThrows, PersisterThrows, GiveBack
  <2>3. QED
    BY <1>0, <2>1, <2>2 DEF NewSession, NoChanges, Nothing
<1>5. ASSUME EndUnitOfWork(t) PROVE Goal
  <2>1. i \notin DOMAIN Batch(t).puts
    BY <1>0, <1>5, BatchTyped DEF SessionOK, EndUnitOfWork, Conflict
  <2>2. session'[t] = NewSession /\ Change(t, Batch(t))
    BY <1>5 DEF EndUnitOfWork
  <2>3. QED
    BY <1>0, <2>1, <2>2, ChangeIds DEF NewSession, Layer1, Nothing
<1>6. ASSUME SaveChangesThrows(t) PROVE Goal
  <2>1. saved' = saved /\ tx'[t] = NoChanges
    BY <1>0, <1>6 DEF SaveChangesThrows, storeVars, GiveBack
  <2>2. /\ session'[t].entities = Without(session[t].entities, session[t].removed)
        /\ session'[t].stale = session[t].stale \ session[t].removed
    BY <1>0, <1>6 DEF SaveChangesThrows, Fields
  <2>3. QED
    BY <1>0, <2>1, <2>2 DEF NoChanges, Nothing, Without
<1>7. ASSUME Commit(t) PROVE Goal
  <2>1. Apply(tx[t]) /\ tx'[t] = NoChanges /\ session'[t] = Outdate(session[t], tx[t])
    BY <1>0, <1>7 DEF Commit
  <2>2. saved' \subseteq saved \cup DOMAIN tx[t].puts
    BY <2>1 DEF Apply
  <2>3. session'[t].entities = session[t].entities /\ session[t].stale \subseteq session'[t].stale
    BY <1>0, <2>1 DEF Outdate, Fields
  <2>4. QED
    BY <1>0, <2>1, <2>2, <2>3 DEF NoChanges, Nothing
<1>8. ASSUME CommitThrows(t) PROVE Goal
  BY <1>0, <1>8 DEF CommitThrows, storeVars, GiveBack, NoChanges, Nothing
<1>9. Goal
  BY <1>1, <1>2, <1>3, <1>4, <1>5, <1>6, <1>7, <1>8 DEF Process
<1>10. step'[t] = "invoke" /\ ~ persistent'[t] => entity'[t] # i
  BY ComesToInvoke
<1>11. ASSUME NEW u \in Threads \ {t}
       PROVE  /\ i \notin DOMAIN tx'[u].puts
              /\ i \in DOMAIN session'[u].entities => i \in session'[u].stale
              /\ step'[u] = "invoke" /\ ~ persistent'[u] => entity'[u] # i
  BY OthersKeep DEF Dead
<1>12. QED
  BY <1>9, <1>10, <1>11 DEF Dead

(* What a step of a thread does to the sagas its transaction writes.       *)
LEMMA WrittenStep ==
  ASSUME Layer1, Enlisted, NEW t \in Threads, Process(t), ~ EndUnitOfWork(t)
  PROVE  /\ DOMAIN tx'[t].puts \subseteq DOMAIN tx[t].puts
         /\ tx'[t].drops \subseteq tx[t].drops
         /\ Written(t) # {} /\ step[t] = "commit" => Written(t)' = {} /\ tx'[t].clears = {}
<1>0. DOMAIN tx = Threads /\ Written(t) = DOMAIN tx[t].puts \cup tx[t].drops
      /\ Written(t)' = DOMAIN tx'[t].puts \cup tx'[t].drops
  BY DEF Layer1, Transactions, Written
<1>1. CASE \E m \in Messages : Receive(t, m)
  BY <1>0, <1>1 DEF Receive
<1>2. CASE GetFromMemory(t) \/ LoadLookup(t) \/ LoadSaga(t)
  BY <1>0, <1>2 DEF GetFromMemory, LoadLookup, LoadSaga
<1>3. CASE Invoke(t)
  BY <1>0, <1>3, InvokeIds
<1>4. CASE tx'[t] = NoChanges
  BY <1>0, <1>4 DEF NoChanges, Nothing
<1>5. CASE \/ HandlerThrows(t) \/ PersisterThrows(t) \/ SaveChangesThrows(t)
           \/ Commit(t) \/ CommitThrows(t)
  BY <1>0, <1>4, <1>5 DEF HandlerThrows, PersisterThrows, SaveChangesThrows, Commit,
     CommitThrows, GiveBack
<1>6. QED
  BY <1>1, <1>2, <1>3, <1>5 DEF Process

LEMMA EndWrites ==
  ASSUME Layer1, Enlisted, WrittenLate, NEW t \in Threads, EndUnitOfWork(t)
  PROVE  /\ step[t] = "end" /\ step'[t] = "commit"
         /\ DOMAIN tx'[t].puts = session[t].changed \ session[t].removed
         /\ tx'[t].drops = session[t].removed
         /\ tx'[t].clears = tx[t].clears
         /\ \A u \in Threads \ {t} : Written(t)' \cap Written(u) = {}
<1>1. step[t] = "end" /\ step'[t] = "commit"
  BY DEF EndUnitOfWork, Goto, Layer1, Locals
<1>2. DOMAIN tx[t].puts = {} /\ tx[t].drops = {}
  BY <1>1 DEF WrittenLate, Written
<1>3. tx' = [tx EXCEPT ![t] =
               [puts |-> Merge(Batch(t).puts, tx[t].puts),
                drops |-> Batch(t).drops \cup tx[t].drops,
                links |-> Merge(Batch(t).links, tx[t].links),
                clears |-> Batch(t).clears \cup tx[t].clears,
                asks |-> Merge(Batch(t).asks, tx[t].asks)]]
  BY DEF EndUnitOfWork, Change, Enlisted
<1>4. /\ DOMAIN tx'[t].puts = session[t].changed \ session[t].removed
      /\ tx'[t].drops = session[t].removed
      /\ tx'[t].clears = tx[t].clears
  BY <1>2, <1>3, BatchTyped DEF Layer1, Transactions, Merge
<1>5. Written(t)' \subseteq session[t].changed \cup session[t].removed
  BY <1>4 DEF Written
<1>6. (session[t].changed \cup session[t].removed) \cap LockedSagas(t) = {}
  BY DEF EndUnitOfWork, Conflict
<1>7. \A u \in Threads \ {t} : Written(u) \subseteq LockedSagas(t)
  BY DEF Written, LockedSagas
<1>8. QED
  BY <1>1, <1>4, <1>5, <1>6, <1>7

LEMMA OneWriterStep ==
  ASSUME Layer1, Enlisted, OneWriter, WrittenLate, NEW t \in Threads, Process(t)
  PROVE  OneWriter' /\ WrittenLate'
<1>1. \A u \in Threads \ {t} : /\ Written(u)' = Written(u) /\ step'[u] = step[u]
                               /\ tx'[u] = tx[u]
  BY OthersKeep DEF Written
<1>2. CASE EndUnitOfWork(t)
  <2>1. \A u \in Threads \ {t} : Written(t)' \cap Written(u) = {}
    BY <1>2, EndWrites
  <2>2. step'[t] = "commit" /\ DOMAIN tx'[t].puts \cap tx'[t].drops = {}
    BY <1>2, EndWrites
  <2>3. QED
    BY <1>1, <2>1, <2>2 DEF OneWriter, WrittenLate
<1>3. CASE ~ EndUnitOfWork(t)
  <2>1. /\ DOMAIN tx'[t].puts \subseteq DOMAIN tx[t].puts
        /\ tx'[t].drops \subseteq tx[t].drops
        /\ Written(t) # {} /\ step[t] = "commit" => Written(t)' = {}
    BY <1>3, WrittenStep
  <2>2. Written(t)' \subseteq Written(t)
    BY <2>1 DEF Written
  <2>3. QED
    BY <1>1, <2>1, <2>2 DEF OneWriter, WrittenLate
<1>4. QED
  BY <1>2, <1>3

(* A saga one cannot start again: it is in hand, or its timeouts are       *)
(* cleared.                                                                *)
LEMMA NotFree ==
  ASSUME Layer1, NEW i, i \in cleared \/ \E t \in Threads : i \in tx[t].clears
  PROVE  ~ Free(i)
  BY DEF Free, Layer1, Clearing

LEMMA GoingStep ==
  ASSUME Layer1, Layer2, Enlisted, NEW t \in Threads, Process(t)
  PROVE  Going'
<1> SUFFICES ASSUME NEW u \in Threads, NEW i \in tx'[u].clears
             PROVE  \/ step'[u] = "end" /\ i \in session'[u].removed
                    \/ step'[u] = "commit" /\ i \in tx'[u].drops
                    \/ Dead(i)'
  BY DEF Going
<1>0. /\ OneWriter /\ WrittenLate /\ Going /\ DOMAIN tx = Threads
      /\ step \in [Threads -> Steps]
  BY DEF Layer2, Layer1, Transactions, Locals
<1>1. i \in tx[u].clears /\ Dead(i) => Dead(i)'
  BY NotFree, StaysDead DEF Enlisted
<1>2. CASE u # t
  <2>1. step'[u] = step[u] /\ tx'[u] = tx[u] /\ session'[u].removed = session[u].removed
    BY <1>2, OthersKeep
  <2>2. QED
    BY <1>0, <1>1, <2>1 DEF Going
<1>3. ASSUME u = t, Invoke(t)
      PROVE  (step'[t] = "end" /\ i \in session'[t].removed) \/ Dead(i)'
  <2>1. step[t] = "invoke" /\ step'[t] = "end" /\ tx[t].clears = {} /\ i = entity[t]
    BY <1>0, <1>3, InvokeIds DEF Layer1, Clearing
  <2>2. i \in session'[t].removed \/ (~ persistent[t] /\ session' = session)
    BY <1>3, <2>1, InvokeEnlisted
  <2>3. ASSUME ~ persistent[t], session' = session
        PROVE  Dead(i)'
    <3>1. /\ Unknown(i)
          /\ \A v \in Threads \ {t} : step[v] = "invoke" => entity[v] # i
      BY <2>1, <2>3 DEF Layer1, FreshInHand
    <3>2. i \notin saved'
      BY <1>3, <2>1, <3>1, OnlyCommitsStore DEF Commit, Unknown
    <3>3. \A v \in Threads : i \notin DOMAIN tx'[v].puts
      BY <1>3, <3>1, InvokeIds DEF Unknown
    <3>4. \A v \in Threads : i \notin DOMAIN session'[v].entities
      BY <2>3, <3>1 DEF Unknown
    <3>5. \A v \in Threads \ {t} : step'[v] = step[v] /\ entity'[v] = entity[v]
      BY OthersKeep
    <3>6. QED
      BY <2>1, <3>1, <3>2, <3>3, <3>4, <3>5 DEF Dead
  <2>4. QED
    BY <2>1, <2>2, <2>3
<1>4. ASSUME u = t, EndUnitOfWork(t)
      PROVE  (step'[t] = "commit" /\ i \in tx'[t].drops) \/ Dead(i)'
  <2>1. /\ step[t] = "end" /\ step'[t] = "commit" /\ tx'[t].drops = session[t].removed
        /\ i \in tx[t].clears
    BY <1>0, <1>4, EndWrites
  <2>2. QED
    BY <1>0, <1>1, <1>4, <2>1 DEF Going
<1>5. CASE \/ HandlerThrows(t) \/ PersisterThrows(t) \/ SaveChangesThrows(t)
           \/ Commit(t) \/ CommitThrows(t)
  <2>1. tx'[t] = NoChanges
    BY <1>0, <1>5 DEF HandlerThrows, PersisterThrows, SaveChangesThrows, Commit,
       CommitThrows, GiveBack
  <2>2. QED
    BY <1>2, <2>1 DEF NoChanges
<1>6. CASE (\E m \in Messages : Receive(t, m)) \/ GetFromMemory(t) \/ LoadLookup(t) \/ LoadSaga(t)
  <2>1. tx' = tx /\ step[t] \notin {"end", "commit"}
    BY <1>6 DEF Receive, GetFromMemory, LoadLookup, LoadSaga
  <2>2. tx[t].clears = {}
    BY <2>1 DEF Layer1, Clearing
  <2>3. QED
    BY <1>2, <2>1, <2>2
<1>7. QED
  BY <1>2, <1>3, <1>4, <1>5, <1>6 DEF Process

LEMMA GoneStep ==
  ASSUME Layer1, Layer2, Enlisted, NEW t \in Threads, Process(t)
  PROVE  Gone'
<1> SUFFICES ASSUME NEW i \in cleared' PROVE Dead(i)'
  BY DEF Gone
<1>1. CASE i \in cleared
  BY <1>1, NotFree, StaysDead DEF Layer2, Gone, Enlisted
<1>2. ASSUME i \notin cleared, Commit(t) PROVE Dead(i)'
  <2>0. DOMAIN tx = Threads /\ step[t] = "commit" /\ Apply(tx[t]) /\ tx'[t] = NoChanges
        /\ step' \in [Threads -> Steps] /\ step'[t] = "idle"
    BY <1>2, TypedStep DEF Layer1, Transactions, Locals, Commit, Release, Goto, Next, Typed
  <2>1. i \in tx[t].clears
    BY <1>2, <2>0 DEF Apply
  <2>2. CASE Dead(i)
    BY <2>1, <2>2, NotFree, StaysDead DEF Enlisted
  <2>3. CASE i \in tx[t].drops
    <3>1. i \notin saved'
      BY <2>0, <2>3 DEF Apply
    <3>2. \A u \in Threads : i \notin DOMAIN tx'[u].puts
      <4>1. \A u \in Threads \ {t} : tx'[u] = tx[u] /\ i \notin Written(u)
        BY <2>3, OthersKeep DEF Layer2, OneWriter, Written
      <4>2. QED
        BY <2>0, <4>1 DEF Written, NoChanges, Nothing
    <3>3. ASSUME NEW u \in Threads, i \in DOMAIN session'[u].entities
          PROVE  i \in session'[u].stale
      <4>1. session'[u] = Outdate(session[u], tx[t]) /\ DOMAIN session[u] = Fields
        BY <1>2 DEF Commit, Layer1, Sessions
      <4>2. QED
        BY <2>3, <3>3, <4>1 DEF Outdate, Fields
    <3>4. ASSUME NEW u \in Threads, step'[u] = "invoke", ~ persistent'[u]
          PROVE  entity'[u] # i
      <4>1. u # t
        BY <2>0, <3>4
      <4>2. step[u] = "invoke" /\ ~ persistent[u] /\ entity'[u] = entity[u]
        BY <3>4, <4>1, OthersKeep
      <4>3. QED
        BY <2>1, <4>2 DEF Layer1, FreshInHand, Unknown
    <3>5. QED
      BY <3>1, <3>2, <3>3, <3>4 DEF Dead
  <2>4. QED
    BY <2>0, <2>1, <2>2, <2>3 DEF Layer2, Going
<1>3. QED
  BY <1>1, <1>2, OnlyCommitsStore

LEMMA Layer2Step == Layer1 /\ Layer2 /\ [Next]_vars => Layer2'
<1> SUFFICES ASSUME Layer1, Layer2, [Next]_vars, Enlisted PROVE Layer2'
  BY SameConfiguration DEF Layer2, Enlisted, Raven, configVars
<1>1. CASE UNCHANGED vars
  BY <1>1 DEF vars, configVars, storeVars, threadVars, Layer2, OneWriter, WrittenLate, Going, Gone,
     Written, Dead, Enlisted
<1>2. CASE Restart
  <2>1. saved' = saved /\ cleared' = cleared /\ tx' = [t \in Threads |-> NoChanges]
        /\ session' = [t \in Threads |-> NewSession] /\ step' = [t \in Threads |-> "idle"]
    BY <1>2 DEF Restart, Enlisted, Raven
  <2>2. OneWriter' /\ WrittenLate' /\ Going'
    BY <2>1 DEF OneWriter, WrittenLate, Going, Written, NoChanges, Nothing
  <2>3. Gone'
    BY <2>1 DEF Layer2, Gone, Dead, NoChanges, NewSession, Nothing
  <2>4. QED
    BY <2>2, <2>3 DEF Layer2
<1>3. ASSUME NEW t \in Threads, Process(t) PROVE Layer2'
  BY <1>3, OneWriterStep, GoingStep, GoneStep DEF Layer2
<1>4. QED
  BY <1>1, <1>2, <1>3 DEF Next

(* With Raven and the transaction of the message a saga whose timeouts     *)
(* were cleared is not in the store and does not come back, for any number *)
(* of threads, messages and failures.                                      *)
THEOREM CompletedForGoodCorrect == Spec => []CompletedForGood
<1>1. Layer2 => CompletedForGood
  BY DEF Layer2, Enlisted, Raven, Gone, Dead, CompletedForGood
<1>2. QED
  BY Layer1Correct, Layer2Init, Layer2Step, <1>1, PTL DEF Spec
-----------------------------------------------------------------------------
(* Layer 3: with Raven, the document of a value that is not at risk names  *)
(* the saga that has the value.  For this, what a session will save is     *)
(* what the store has or a value with a new document, and who removes the  *)
(* document of a value gives its saga another value or removes it.         *)

Holds(i, v) == i \in saved /\ data[i].value = v

OneDocument == \A i \in Ids, v \in Values : Holds(i, v) => v \in risked \/ unique[v] = i

(* A change that keeps it, if the values in R are at risk.                 *)
Linking(c, i, v) ==
  IF v \in DOMAIN c.links THEN c.links[v] = i ELSE Holds(i, v)

Consistent(c, R) ==
  /\ DOMAIN c.puts \cap c.drops = {}
  /\ \A i \in DOMAIN c.puts : c.puts[i].value \in R \/ Linking(c, i, c.puts[i].value)
  /\ \A v \in DOMAIN c.links, j \in Ids :
       Holds(j, v) => v \in R \/ j \in DOMAIN c.puts \cup c.drops

Based(s) ==
  \A i \in DOMAIN s.entities \ (s.stale \cup s.removed) :
    LET v == s.entities[i].value
    IN (v \in s.added /\ s.lookups[v] = i) \/ Holds(i, v)

Renames(c, s) ==
  \A v \in DOMAIN c.links, j \in Ids : Holds(j, v) =>
    \/ v \in risked
    \/ j \in s.removed
    \/ j \in s.changed /\ (j \in s.stale \/ s.entities[j].value # v)

Linker(t) == DOMAIN tx[t].links

Ready(t) ==
  /\ Based(session[t])
  /\ IF step[t] = "commit" THEN Consistent(tx[t], risked) ELSE Renames(tx[t], session[t])

Documents ==
  /\ OneDocument
  /\ \A t \in Threads : Ready(t)
  /\ \A t \in Threads : Linker(t) # {} => step[t] \in {"end", "commit"}
  /\ \A t, u \in Threads : t # u => Linker(t) \cap Linker(u) = {}
  /\ ~ ambient => \A t \in Threads : tx[t] = NoChanges

Layer3 == persister = "Raven" => Documents

LEMMA NoChangesReady ==
  ASSUME NEW R, NEW s
  PROVE  /\ NoChanges.links = Nothing /\ NoChanges.puts = Nothing /\ NoChanges.drops = {}
         /\ DOMAIN NoChanges.links = {} /\ DOMAIN NoChanges.puts = {}
         /\ Consistent(NoChanges, R) /\ Renames(NoChanges, s)
<1>1. /\ NoChanges.links = Nothing /\ NoChanges.puts = Nothing /\ NoChanges.drops = {}
      /\ DOMAIN NoChanges.links = {} /\ DOMAIN NoChanges.puts = {}
  BY Domains DEF NoChanges
<1>2. QED
  BY <1>1 DEF Consistent, Renames

LEMMA NewSessionBased ==
  /\ DOMAIN NewSession.entities = {} /\ NewSession.removed = {} /\ NewSession.changed = {}
  /\ Based(NewSession)
<1>1. DOMAIN NewSession.entities = {} /\ NewSession.removed = {} /\ NewSession.changed = {}
  BY Domains DEF NewSession
<1>2. QED
  BY <1>1 DEF Based

LEMMA Layer3Init == Init => Layer3
<1> SUFFICES ASSUME Init PROVE Documents
  BY DEF Layer3
<1>1. OneDocument
  BY DEF Init, OneDocument, Holds
<1>2. \A t \in Threads : tx[t] = NoChanges /\ session[t] = NewSession /\ step[t] = "idle"
  BY DEF Init
<1>3. \A t \in Threads : Ready(t)
  BY <1>2, NoChangesReady, NewSessionBased DEF Ready
<1>4. \A t \in Threads : Linker(t) = {}
  BY <1>2, NoChangesReady DEF Linker
<1>5. QED
  BY <1>1, <1>2, <1>3, <1>4 DEF Documents

(* What a change does to the store.                                        *)
LEMMA Applied ==
  ASSUME Layer1, NEW c, ChangesOK(c), Apply(c)
  PROVE  /\ \A i \in Ids, v \in Values :
              Holds(i, v)' <=> /\ i \notin c.drops
                               /\ IF i \in DOMAIN c.puts THEN c.puts[i].value = v
                                  ELSE Holds(i, v)
         /\ \A v \in Values : unique'[v] = IF v \in DOMAIN c.links THEN c.links[v] ELSE unique[v]
<1>1. unique \in [Values -> Ids \cup {NoSaga}] /\ saved \subseteq DOMAIN data
  BY DEF Layer1, Stored
<1>2. \A v \in Values : unique'[v] = IF v \in DOMAIN c.links THEN c.links[v] ELSE unique[v]
  BY <1>1 DEF Apply, Merge
<1>3. saved' = (saved \cup DOMAIN c.puts) \ c.drops
  BY DEF Apply
<1>4. data' = [i \in (DOMAIN c.puts \cup DOMAIN data) \ c.drops |->
                 IF i \in DOMAIN c.puts THEN c.puts[i] ELSE data[i]]
  BY DEF Apply, Merge, Without
<1>5. \A i \in saved' : data'[i] = IF i \in DOMAIN c.puts THEN c.puts[i] ELSE data[i]
  BY <1>1, <1>3, <1>4
<1>6. \A i \in Ids, v \in Values :
        Holds(i, v)' <=> /\ i \notin c.drops
                         /\ IF i \in DOMAIN c.puts THEN c.puts[i].value = v ELSE Holds(i, v)
  BY <1>3, <1>5 DEF Holds
<1>7. QED
  BY <1>2, <1>6

LEMMA StaysConsistent ==
  ASSUME Layer1, NEW c, ChangesOK(c), Consistent(c, risked), risked \subseteq risked',
         \A i \in Ids, v \in Values : Holds(i, v)' <=> Holds(i, v)
  PROVE  Consistent(c, risked)'
<1>1. \A i \in DOMAIN c.puts : i \in Ids /\ c.puts[i].value \in Values
  BY DEF ChangesOK, IsPartial, Entities
<1>2. DOMAIN c.links \subseteq Values
  BY DEF ChangesOK, IsPartial
<1>3. ASSUME NEW i \in DOMAIN c.puts
      PROVE  c.puts[i].value \in risked' \/ Linking(c, i, c.puts[i].value)'
  <2>1. c.puts[i].value \in risked \/ Linking(c, i, c.puts[i].value)
    BY DEF Consistent
  <2>2. Holds(i, c.puts[i].value)' <=> Holds(i, c.puts[i].value)
    BY <1>1
  <2>3. QED
    BY <2>1, <2>2 DEF Linking
<1>4. ASSUME NEW v \in DOMAIN c.links, NEW j \in Ids, Holds(j, v)'
      PROVE  v \in risked' \/ j \in DOMAIN c.puts \cup c.drops
  BY <1>2, <1>4 DEF Consistent
<1>5. QED
  BY <1>3, <1>4 DEF Consistent

LEMMA StaysBased ==
  ASSUME NEW s, SessionOK(s), Based(s),
         \A i \in Ids, v \in Values : Holds(i, v)' <=> Holds(i, v)
  PROVE  Based(s)'
  BY DEF SessionOK, IsPartial, Entities, Based

(* A thread that does nothing, while nothing but documents of values at    *)
(* risk changes in the store.                                              *)
LEMMA Bystander ==
  ASSUME Layer1, NEW u \in Threads, Ready(u), risked \subseteq risked',
         session'[u] = session[u], tx'[u] = tx[u],
         (step'[u] = "commit") = (step[u] = "commit"),
         \A i \in Ids, v \in Values : Holds(i, v)' <=> Holds(i, v)
  PROVE  Ready(u)'
<1>1. ChangesOK(tx[u]) /\ SessionOK(session[u])
  BY DEF Layer1, Transactions, Sessions
<1> SUFFICES ASSUME NEW c, NEW s, c = tx[u], s = session[u] PROVE Ready(u)'
  OBVIOUS
<1>2. Based(s)'
  BY <1>1, StaysBased DEF Ready
<1>3. Consistent(c, risked) => Consistent(c, risked)'
  BY <1>1, StaysConsistent
<1>4. DOMAIN c.links \subseteq Values
  BY <1>1 DEF ChangesOK, IsPartial
<1>5. Renames(c, s) => Renames(c, s)'
  BY <1>4 DEF Renames
<1>6. tx'[u] = c /\ session'[u] = s
  OBVIOUS
<1>7. Based(session[u])'
  BY <1>2, <1>6 DEF Based
<1>8. CASE step[u] = "commit"
  <2>1. Consistent(c, risked)'
    BY <1>3, <1>8 DEF Ready
  <2>2. Consistent(tx[u], risked)'
    BY <1>6, <2>1 DEF Consistent, Linking
  <2>3. QED
    BY <1>7, <1>8, <2>2 DEF Ready
<1>9. CASE step[u] # "commit"
  <2>1. Renames(c, s)'
    BY <1>5, <1>9 DEF Ready
  <2>2. Renames(tx[u], session[u])'
    BY <1>6, <2>1 DEF Renames
  <2>3. QED
    BY <1>7, <1>9, <2>2 DEF Ready
<1>10. QED
  BY <1>8, <1>9

LEMMA SameDocuments ==
  ASSUME Layer1, OneDocument, risked \subseteq risked',
         \A i \in Ids, v \in Values : Holds(i, v)' <=> Holds(i, v),
         \A v \in Values \ risked' : unique'[v] = unique[v]
  PROVE  OneDocument'
  BY DEF OneDocument

(* A consistent change is made.                                            *)
LEMMA ChangedDocuments ==
  ASSUME Layer1, OneDocument, NEW c, ChangesOK(c), Apply(c), Consistent(c, risked),
         risked' = risked
  PROVE  OneDocument'
<1> SUFFICES ASSUME NEW i \in Ids, NEW v \in Values, Holds(i, v)', v \notin risked
             PROVE  unique'[v] = i
  BY DEF OneDocument
<1>1. /\ i \notin c.drops
      /\ IF i \in DOMAIN c.puts THEN c.puts[i].value = v ELSE Holds(i, v)
      /\ unique'[v] = IF v \in DOMAIN c.links THEN c.links[v] ELSE unique[v]
  BY Applied
<1>2. QED
  BY <1>1 DEF Consistent, Linking, OneDocument

LEMMA Watcher ==
  ASSUME Layer1, NEW c, ChangesOK(c), Apply(c), Consistent(c, risked), risked' = risked,
         NEW u \in Threads, Ready(u), tx'[u] = tx[u], step'[u] = step[u],
         session'[u] = Outdate(session[u], c),
         Linker(u) \cap DOMAIN c.links = {},
         Written(u) \cap (DOMAIN c.puts \cup c.drops) = {}
  PROVE  Ready(u)'
<1>1. ChangesOK(tx[u]) /\ SessionOK(session[u]) /\ DOMAIN session[u] = Fields
  BY DEF Layer1, Transactions, Sessions
<1> SUFFICES ASSUME NEW d, NEW s, NEW r, d = tx[u], s = session[u], r = Outdate(s, c)
             PROVE  Ready(u)'
  OBVIOUS
<1>2. /\ r.entities = s.entities /\ r.lookups = s.lookups /\ r.changed = s.changed
      /\ r.removed = s.removed /\ r.added = s.added
      /\ r.stale = s.stale \cup (DOMAIN s.entities \cap (DOMAIN c.puts \cup c.drops))
  BY <1>1, OutdateTyped
<1>3. \A i \in Ids, v \in Values :
        Holds(i, v)' <=> /\ i \notin c.drops
                         /\ IF i \in DOMAIN c.puts THEN c.puts[i].value = v ELSE Holds(i, v)
  BY Applied
<1>4. /\ \A i \in DOMAIN s.entities : i \in Ids /\ s.entities[i].value \in Values
      /\ DOMAIN d.links \subseteq Values
      /\ \A i \in DOMAIN d.puts : i \in Ids /\ d.puts[i].value \in Values
  BY <1>1 DEF ChangesOK, SessionOK, IsPartial, Entities
<1>5. Based(r)'
  <2> SUFFICES ASSUME NEW i \in DOMAIN s.entities, i \notin r.stale \cup r.removed,
                      NEW v, v = s.entities[i].value
               PROVE  (v \in s.added /\ s.lookups[v] = i) \/ Holds(i, v)'
    BY <1>2 DEF Based
  <2>1. i \notin DOMAIN c.puts \cup c.drops
    BY <1>2
  <2>2. (v \in s.added /\ s.lookups[v] = i) \/ Holds(i, v)
    BY <1>2 DEF Ready, Based
  <2>3. QED
    BY <1>3, <1>4, <2>1, <2>2
(* Who gets a value another transaction has linked had it before.          *)
<1>6. ASSUME NEW v \in DOMAIN d.links, NEW j \in Ids, Holds(j, v)'
      PROVE  v \in risked \/ Holds(j, v)
  <2>1. v \notin DOMAIN c.links /\ v \in Values
    BY <1>4 DEF Linker
  <2>2. CASE j \in DOMAIN c.puts
    BY <1>3, <1>6, <2>1, <2>2 DEF Consistent, Linking
  <2>3. QED
    BY <1>3, <1>6, <2>1, <2>2
<1>7. Consistent(d, risked) => Consistent(d, risked)'
  <2> SUFFICES ASSUME Consistent(d, risked) PROVE Consistent(d, risked)'
    OBVIOUS
  <2>1. \A i \in DOMAIN d.puts : i \notin DOMAIN c.puts \cup c.drops
    BY DEF Written
  <2>2. \A i \in DOMAIN d.puts : Holds(i, d.puts[i].value) => Holds(i, d.puts[i].value)'
    BY <1>3, <1>4, <2>1
  <2>3. QED
    BY <1>6, <2>2 DEF Consistent, Linking
<1>8. Renames(d, s) => Renames(d, r)'
  BY <1>2, <1>6 DEF Renames
<1>9. QED
  BY <1>5, <1>7, <1>8 DEF Ready

LEMMA OutdatedBased ==
  ASSUME Layer1, NEW c, ChangesOK(c), Apply(c), NEW u \in Threads, Based(session[u]),
         session'[u] = Outdate(session[u], c)
  PROVE  Based(session[u])'
<1>0. PICK s, r : s = session[u] /\ r = Outdate(s, c) /\ r = session'[u]
  OBVIOUS
<1>1. SessionOK(s) /\ DOMAIN s = Fields
  BY <1>0 DEF Layer1, Sessions
<1>2. /\ r.entities = s.entities /\ r.lookups = s.lookups
      /\ r.removed = s.removed /\ r.added = s.added
      /\ r.stale = s.stale \cup (DOMAIN s.entities \cap (DOMAIN c.puts \cup c.drops))
  BY <1>0, <1>1 DEF Outdate, Fields
<1> SUFFICES ASSUME NEW i \in DOMAIN r.entities \ (r.stale \cup r.removed),
                    NEW v, v = r.entities[i].value
             PROVE  (v \in r.added /\ r.lookups[v] = i) \/ Holds(i, v)'
  BY <1>0 DEF Based
<1>3. \A j \in Ids, w \in Values :
        Holds(j, w)' <=> /\ j \notin c.drops
                         /\ IF j \in DOMAIN c.puts THEN c.puts[j].value = w ELSE Holds(j, w)
  BY Applied
<1>4. i \in Ids /\ v \in Values
  BY <1>1, <1>2 DEF SessionOK, IsPartial, Entities
<1>5. (v \in s.added /\ s.lookups[v] = i) \/ Holds(i, v)
  BY <1>0, <1>2 DEF Based
<1>6. QED
  BY <1>2, <1>3, <1>4, <1>5

(* A step of one thread which changes documents of values at risk only.    *)
LEMMA QuietStep ==
  ASSUME Layer1, Documents, NEW t \in Threads,
         \A u \in Threads \ {t} : /\ session'[u] = session[u] /\ tx'[u] = tx[u]
                                  /\ step'[u] = step[u],
         risked \subseteq risked',
         \A i \in Ids, v \in Values : Holds(i, v)' <=> Holds(i, v),
         \A v \in Values \ risked' : unique'[v] = unique[v],
         ambient' = ambient, ~ ambient => tx'[t] = NoChanges,
         Ready(t)', Linker(t)' # {} => step'[t] \in {"end", "commit"},
         Linker(t)' \cap LockedValues(t) = {}
  PROVE  Documents'
<1>1. OneDocument'
  BY SameDocuments DEF Documents
<1>2. \A u \in Threads : Ready(u)'
  BY Bystander DEF Documents
<1>3. \A u \in Threads \ {t} : Linker(u)' = Linker(u) /\ Linker(u) \subseteq LockedValues(t)
  BY DEF Linker, LockedValues
<1>4. \A u \in Threads : Linker(u)' # {} => step'[u] \in {"end", "commit"}
  BY <1>3 DEF Documents
<1>5. \A u, w \in Threads : u # w => Linker(u)' \cap Linker(w)' = {}
  BY <1>3 DEF Documents
<1>6. ~ ambient' => \A u \in Threads : tx'[u] = NoChanges
  BY DEF Documents
<1>7. QED
  BY <1>1, <1>2, <1>4, <1>5, <1>6 DEF Documents

LEMMA Emptied ==
  ASSUME NEW t \in Threads, session'[t] = NewSession, tx'[t] = NoChanges
  PROVE  Ready(t)' /\ Linker(t)' = {}
<1>1. DOMAIN session'[t].entities = {} /\ DOMAIN tx'[t].links = {}
      /\ DOMAIN tx'[t].puts = {} /\ tx'[t].drops = {}
  BY NewSessionBased, NoChangesReady
<1>2. QED
  BY <1>1 DEF Ready, Based, Consistent, Renames, Linker

LEMMA SameStore ==
  ASSUME saved' = saved, data' = data
  PROVE  \A i \in Ids, v \in Values : Holds(i, v)' <=> Holds(i, v)
  BY DEF Holds

(* A change which keeps the sagas.                                         *)
LEMMA OnlyLinks ==
  ASSUME Layer1, NEW t \in Threads, NEW c, ChangesOK(c), Change(t, c),
         DOMAIN c.puts = {}, c.drops = {}
  PROVE  /\ \A i \in Ids, v \in Values : Holds(i, v)' <=> Holds(i, v)
         /\ \A v \in Values \ DOMAIN c.links : unique'[v] = unique[v]
         /\ ambient => /\ unique' = unique
                       /\ DOMAIN tx'[t].links = DOMAIN c.links \cup DOMAIN tx[t].links
         /\ ~ ambient => tx' = tx
         /\ \A u \in Threads \ {t} : tx'[u] = tx[u]
<1>1. CASE ambient
  <2>1. saved' = saved /\ data' = data /\ unique' = unique
    BY <1>1 DEF Change, storeVars
  <2>2. tx'[t].links = Merge(c.links, tx[t].links)
        /\ \A u \in Threads \ {t} : tx'[u] = tx[u]
    BY <1>1 DEF Change, Layer1, Transactions
  <2>3. QED
    <3>1. DOMAIN tx'[t].links = DOMAIN c.links \cup DOMAIN tx[t].links
      BY <2>2 DEF Merge
    <3>2. \A i \in Ids, v \in Values : Holds(i, v)' <=> Holds(i, v)
      BY <2>1, SameStore
    <3>3. QED
      BY <1>1, <2>1, <2>2, <3>1, <3>2
<1>2. CASE ~ ambient
  <2>1. Apply(c) /\ tx' = tx
    BY <1>2 DEF Change
  <2>2. QED
    BY <1>2, <2>1, Applied
<1>3. QED
  BY <1>1, <1>2

LEMMA SendsOnly ==
  ASSUME Layer1, Documents, NEW t \in Threads, step[t] = "invoke", entity[t] \in Ids,
         NEW completed \in BOOLEAN, Change(t, Sends(t, completed))
  PROVE  /\ \A i \in Ids, v \in Values : Holds(i, v)' <=> Holds(i, v)
         /\ \A v \in Values : unique'[v] = unique[v]
         /\ \A u \in Threads \ {t} : tx'[u] = tx[u]
         /\ ~ ambient => tx'[t] = NoChanges
         /\ DOMAIN tx'[t].links = {}
<1> SUFFICES ASSUME NEW c, c = Sends(t, completed) PROVE
         /\ \A i \in Ids, v \in Values : Holds(i, v)' <=> Holds(i, v)
         /\ \A v \in Values : unique'[v] = unique[v]
         /\ \A u \in Threads \ {t} : tx'[u] = tx[u]
         /\ ~ ambient => tx'[t] = NoChanges
         /\ DOMAIN tx'[t].links = {}
  OBVIOUS
<1>1. ChangesOK(c) /\ DOMAIN c.puts = {} /\ c.drops = {} /\ DOMAIN c.links = {}
  BY SentTyped, Domains
<1>2. DOMAIN tx[t].links = {} /\ (~ ambient => tx[t] = NoChanges)
  BY DEF Documents, Linker
<1>3. QED
  BY <1>1, <1>2, OnlyLinks

LEMMA UnlinksOne ==
  ASSUME Layer1, Documents, NEW t \in Threads, step[t] = "invoke", entity[t] \in Ids,
         NEW v \in Values, NEW completed \in BOOLEAN, Unlink(t, v, Sends(t, completed))
  PROVE  /\ risked \subseteq risked'
         /\ \A i \in Ids, w \in Values : Holds(i, w)' <=> Holds(i, w)
         /\ \A w \in Values \ risked' : unique'[w] = unique[w]
         /\ \A u \in Threads \ {t} : tx'[u] = tx[u]
         /\ ~ ambient => tx'[t] = NoChanges
         /\ DOMAIN tx'[t].links \subseteq {v}
         /\ v \notin LockedValues(t)
         /\ \A j \in Ids : Holds(j, v) => v \in risked' \/ j = entity[t]
<1>1. PICK c : /\ ChangesOK(c) /\ Change(t, c) /\ DOMAIN c.puts = {} /\ c.drops = {}
               /\ DOMAIN c.links = {v}
  <2>1. PICK s : s = Sends(t, completed)
    OBVIOUS
  <2>2. ChangesOK(s) /\ DOMAIN s = DOMAIN NoChanges /\ s.puts = Nothing /\ s.drops = {}
    BY <2>1, SentTyped DEF Sends, NoChanges
  <2>3. PICK c : c = [s EXCEPT !.links = With(Nothing, v, NoSaga)]
    OBVIOUS
  <2>4. ChangesOK(c)
    BY <2>2, <2>3, UnlinkTyped
  <2>5. c.puts = Nothing /\ c.drops = {} /\ c.links = With(Nothing, v, NoSaga)
    BY <2>2, <2>3 DEF NoChanges
  <2>6. Change(t, c)
    BY <2>1, <2>3 DEF Unlink
  <2>7. DOMAIN c.puts = {} /\ DOMAIN c.links = {v}
    <3>1. DOMAIN Nothing = {} /\ DOMAIN With(Nothing, v, NoSaga) = DOMAIN Nothing \cup {v}
      BY Domains
    <3>2. QED
      BY <2>5, <3>1
  <2>8. QED
    BY <2>4, <2>5, <2>6, <2>7
<1>2. DOMAIN tx[t].links = {} /\ (~ ambient => tx[t] = NoChanges) /\ OneDocument
  BY DEF Documents, Linker
<1>3. v \notin LockedValues(t) /\ risked \subseteq risked'
  BY DEF Unlink
<1>4. ~ ambient => v \in risked'
  BY DEF Unlink
<1>5. ASSUME NEW j \in Ids, Holds(j, v), v \notin risked'
      PROVE  j = entity[t]
  <2>1. unique[v] \in {entity[t], NoSaga}
    BY <1>2, <1>5 DEF Unlink, Linked
  <2>2. unique[v] = j
    BY <1>2, <1>3, <1>5 DEF OneDocument
  <2>3. QED
    BY <2>1, <2>2, SagasAssumption
<1>6. QED
  BY <1>1, <1>2, <1>3, <1>4, <1>5, OnlyLinks

(* The thread is looking for a saga.                                       *)
LEMMA FindDocuments ==
  ASSUME Layer1, Raven, Documents, NEW t \in Threads,
         (\E m \in Messages : Receive(t, m)) \/ LoadLookup(t) \/ LoadSaga(t)
  PROVE  Documents'
<1>1. /\ saved' = saved /\ data' = data /\ unique' = unique /\ risked' = risked
      /\ tx' = tx /\ ambient' = ambient
      /\ step[t] \in {"idle", "find", "load"}
  BY DEF Receive, LoadLookup, LoadSaga, storeVars, configVars
<1>2. /\ step[t] # "commit" /\ step'[t] # "commit" /\ Linker(t) = {} /\ Linker(t)' = {}
      /\ DOMAIN tx'[t].links = {}
      /\ \A u \in Threads \ {t} : step'[u] = step[u]
  <2>1. step \in [Threads -> Steps]
    BY DEF Layer1, Locals
  <2>2. /\ step'[t] \in {"find", "load", "invoke", "end"}
        /\ \A u \in Threads \ {t} : step'[u] = step[u]
    BY <2>1 DEF Receive, LoadLookup, LoadSaga, NotFound, Found, Goto
  <2>3. QED
    BY <1>1, <2>2 DEF Documents, Linker
<1>3. SessionOK(session[t]) /\ DOMAIN session[t] = Fields /\ DOMAIN session = Threads
      /\ Based(session[t])
  BY DEF Layer1, Sessions, Documents, Ready
<1>4. \A i \in Ids, v \in Values : Holds(i, v)' <=> Holds(i, v)
  BY <1>1, SameStore
<1>5. Based(session[t])' /\ \A u \in Threads \ {t} : session'[u] = session[u]
  <2>1. CASE session' = session
    <3>1. PICK s : s = session[t]
      OBVIOUS
    <3>2. Based(s)'
      BY <1>3, <1>4, <3>1, StaysBased
    <3>3. session'[t] = s
      BY <2>1, <3>1
    <3>4. QED
      BY <2>1, <3>2, <3>3 DEF Based
  <2>2. ASSUME LoadLookup(t), session' # session
        PROVE  Based(session[t])' /\ \A u \in Threads \ {t} : session'[u] = session[u]
    <3>1. PICK v, i : /\ session' = [session EXCEPT ![t].lookups = With(@, v, i)]
                      /\ v \in DOMAIN session[t].lookups => i = session[t].lookups[v]
      BY <2>2 DEF LoadLookup
    <3>2. PICK s, r : s = session[t] /\ r = session'[t]
      OBVIOUS
    <3>3. /\ r.entities = s.entities /\ r.stale = s.stale /\ r.removed = s.removed
          /\ r.added = s.added /\ r.lookups = With(s.lookups, v, i)
          /\ \A u \in Threads \ {t} : session'[u] = session[u]
      BY <1>3, <3>1, <3>2 DEF Fields
    <3>4. \A w \in s.added : r.lookups[w] = s.lookups[w]
      BY <1>3, <3>1, <3>2, <3>3 DEF With, SessionOK
    <3>5. Based(r)'
      BY <1>1, <1>3, <3>2, <3>3, <3>4 DEF Based, Holds
    <3>6. QED
      BY <3>2, <3>3, <3>5 DEF Based
  <2>3. ASSUME LoadSaga(t), session' # session
        PROVE  Based(session[t])' /\ \A u \in Threads \ {t} : session'[u] = session[u]
    <3>1. PICK i \in saved : /\ i \notin DOMAIN session[t].entities
                             /\ session' = [session EXCEPT ![t].entities = With(@, i, data[i])]
      BY <2>3 DEF LoadSaga
    <3>2. PICK s, r : s = session[t] /\ r = session'[t]
      OBVIOUS
    <3>3. /\ r.entities = With(s.entities, i, data[i])
          /\ r.stale = s.stale /\ r.removed = s.removed
          /\ r.added = s.added /\ r.lookups = s.lookups
          /\ \A u \in Threads \ {t} : session'[u] = session[u]
      BY <1>3, <3>1, <3>2 DEF Fields
    <3>4. ASSUME NEW j \in DOMAIN r.entities \ (r.stale \cup r.removed),
                 NEW v, v = r.entities[j].value
          PROVE  (v \in r.added /\ r.lookups[v] = j) \/ Holds(j, v)'
      <4>1. CASE j = i
        <5>1. r.entities[j] = data[i]
          BY <3>3, <4>1 DEF With
        <5>2. QED
          BY <1>1, <3>1, <3>4, <4>1, <5>1 DEF Holds
      <4>2. CASE j # i
        <5>1. j \in DOMAIN s.entities /\ r.entities[j] = s.entities[j]
          BY <3>3, <3>4, <4>2 DEF With
        <5>2. QED
          BY <1>1, <1>3, <3>2, <3>3, <3>4, <5>1 DEF Based, Holds
      <4>3. QED
        BY <4>1, <4>2
    <3>5. QED
      BY <3>2, <3>3, <3>4 DEF Based
  <2>4. QED
    BY <2>1, <2>2, <2>3 DEF Receive
<1>6. Ready(t)'
  BY <1>2, <1>5 DEF Ready, Renames
<1>7. ~ ambient => tx'[t] = NoChanges
  BY <1>1 DEF Documents
<1>8. QED
  BY <1>1, <1>2, <1>4, <1>5, <1>6, <1>7, QuietStep

(* Save, Update and Complete keep a saga in the session with the value v,  *)
(* which is the old one or has a new document, or remove it.               *)
LEMMA KeptBased ==
  ASSUME NEW s, SessionOK(s), Based(s), NEW r, NEW i \in Ids, NEW v \in Values,
         DOMAIN r.entities = DOMAIN s.entities \cup {i},
         \A j \in DOMAIN s.entities \ {i} : r.entities[j] = s.entities[j],
         r.entities[i].value = v, r.stale = s.stale,
         \/ /\ v \notin DOMAIN s.lookups /\ r.removed = s.removed
            /\ r.lookups = With(s.lookups, v, i) /\ r.added = s.added \cup {v}
         \/ /\ i \in DOMAIN s.entities /\ s.entities[i].value = v /\ r.removed = s.removed
            /\ r.lookups = s.lookups /\ r.added = s.added
         \/ /\ r.removed = s.removed \cup {i}
            /\ r.lookups = s.lookups /\ r.added = s.added,
         \A j \in Ids, w \in Values : Holds(j, w)' <=> Holds(j, w)
  PROVE  Based(r)'
<1> SUFFICES ASSUME NEW j \in DOMAIN r.entities \ (r.stale \cup r.removed),
                    NEW w, w = r.entities[j].value
             PROVE  (w \in r.added /\ r.lookups[w] = j) \/ Holds(j, w)'
  BY DEF Based
<1>1. \A x \in s.added : x \in r.added /\ r.lookups[x] = s.lookups[x]
  BY DEF SessionOK, With
<1>2. ASSUME j \in DOMAIN s.entities, w = s.entities[j].value
      PROVE  (w \in r.added /\ r.lookups[w] = j) \/ Holds(j, w)'
  <2>1. (w \in s.added /\ s.lookups[w] = j) \/ Holds(j, w)
    BY <1>2 DEF Based
  <2>2. j \in Ids /\ w \in Values
    BY <1>2 DEF SessionOK, IsPartial, Entities
  <2>3. QED
    BY <1>1, <2>1, <2>2
<1>3. CASE j # i
  BY <1>2, <1>3
<1>4. CASE j = i
  <2>1. CASE r.lookups = With(s.lookups, v, i) /\ r.added = s.added \cup {v}
    BY <1>4, <2>1 DEF With
  <2>2. QED
    BY <1>2, <1>4, <2>1
<1>5. QED
  BY <1>3, <1>4

(* A saga is invoked and nothing, or the document of v, is changed.        *)
LEMMA InvokedReady ==
  ASSUME Layer1, Documents, NEW t \in Threads, step[t] = "invoke", step'[t] = "end",
         \A u \in Threads \ {t} : /\ session'[u] = session[u] /\ tx'[u] = tx[u]
                                  /\ step'[u] = step[u],
         risked \subseteq risked',
         \A i \in Ids, v \in Values : Holds(i, v)' <=> Holds(i, v),
         \A v \in Values \ risked' : unique'[v] = unique[v],
         ambient' = ambient, ~ ambient => tx'[t] = NoChanges,
         Based(session[t])',
         NEW v \in Values, DOMAIN tx'[t].links \subseteq {v},
         DOMAIN tx'[t].links # {} =>
           /\ v \notin LockedValues(t)
           /\ \A j \in Ids : Holds(j, v) =>
                \/ v \in risked'
                \/ j \in session'[t].removed
                \/ j \in session'[t].changed /\ session'[t].entities[j].value # v
  PROVE  Documents'
<1>1. Renames(tx[t], session[t])'
  BY DEF Renames
<1>2. Ready(t)'
  BY <1>1 DEF Ready
<1>3. Linker(t)' = DOMAIN tx'[t].links
  BY DEF Linker
<1>4. QED
  BY <1>2, <1>3, QuietStep

LEMMA SaveDocuments ==
  ASSUME Layer1, Raven, Documents, NEW t \in Threads, Invoke(t),
         NEW completed \in BOOLEAN, Save(t, completed)
  PROVE  Documents'
<1>1. /\ step[t] = "invoke" /\ entity[t] \in Ids /\ message[t] \in Messages
      /\ Created(message[t]) \in Entities
  BY InHandInvoke, CreatedTyped DEF Invoke
<1>2. /\ step'[t] = "end" /\ \A u \in Threads \ {t} : step'[u] = step[u]
      /\ ambient' = ambient /\ risked' = risked
  BY DEF Save, Goto, Invoke, configVars, Layer1, Locals
<1>3. /\ \A i \in Ids, v \in Values : Holds(i, v)' <=> Holds(i, v)
      /\ \A v \in Values : unique'[v] = unique[v]
      /\ \A u \in Threads \ {t} : tx'[u] = tx[u]
      /\ ~ ambient => tx'[t] = NoChanges
      /\ DOMAIN tx'[t].links = {}
  BY <1>1, SendsOnly DEF Save
<1>4. SessionOK(session[t]) /\ DOMAIN session[t] = Fields /\ DOMAIN session = Threads
      /\ Based(session[t])
  BY DEF Layer1, Sessions, Documents, Ready
<1>5. PICK s, r : s = session[t] /\ r = session'[t]
  OBVIOUS
<1>6. Based(r)' /\ \A u \in Threads \ {t} : session'[u] = session[u]
  <2>1. CASE completed
    <3>1. Based(s)'
      BY <1>3, <1>4, <1>5, StaysBased
    <3>2. session' = session
      BY <2>1 DEF Save
    <3>3. QED
      BY <1>5, <3>1, <3>2 DEF Based
  <2>2. CASE ~ completed
    <3>1. PICK d, i : d = Created(message[t]) /\ i = entity[t]
      OBVIOUS
    <3>2. /\ d.value \notin DOMAIN session[t].lookups
          /\ session' = [session EXCEPT
               ![t].entities = With(@, i, d),
               ![t].changed = @ \cup {i},
               ![t].lookups = With(@, d.value, i),
               ![t].added = @ \cup {d.value}]
      BY <2>2, <3>1 DEF Save
    <3>3. /\ r.entities = With(s.entities, i, d)
          /\ r.stale = s.stale /\ r.removed = s.removed
          /\ r.added = s.added \cup {d.value} /\ r.lookups = With(s.lookups, d.value, i)
          /\ \A u \in Threads \ {t} : session'[u] = session[u]
      BY <1>4, <1>5, <3>2 DEF Fields
    <3>4. /\ DOMAIN r.entities = DOMAIN s.entities \cup {i} /\ r.entities[i] = d
          /\ \A j \in DOMAIN s.entities \ {i} : r.entities[j] = s.entities[j]
      BY <3>3 DEF With
    <3>5. d.value \in Values /\ i \in Ids
      BY <1>1, <3>1 DEF Entities
    <3>6. PICK v : v = d.value
      OBVIOUS
    <3>7. /\ v \notin DOMAIN s.lookups /\ v \in Values /\ r.entities[i].value = v
          /\ r.lookups = With(s.lookups, v, i) /\ r.added = s.added \cup {v}
      BY <1>5, <3>2, <3>3, <3>4, <3>5, <3>6
    <3>8. SessionOK(s) /\ Based(s)
      BY <1>4, <1>5
    <3>9. Based(r)'
      BY <1>3, <3>3, <3>4, <3>5, <3>7, <3>8, KeptBased
    <3>10. QED
      BY <3>3, <3>9
  <2>3. QED
    BY <2>1, <2>2
<1>7. Based(session[t])'
  BY <1>5, <1>6 DEF Based
<1>8. PICK v : v \in Values
  BY <1>1 DEF Entities
<1>9. QED
  BY <1>1, <1>2, <1>3, <1>6, <1>7, <1>8, InvokedReady

LEMMA UpdateDocuments ==
  ASSUME Layer1, Raven, Documents, NEW t \in Threads, Invoke(t),
         NEW w \in Values, Update(t, w)
  PROVE  Documents'
<1>1. PICK i, d, e : i = entity[t] /\ d = session[t].entities[i] /\ e = Effect(d, message[t], w)
  OBVIOUS
<1>2. /\ step[t] = "invoke" /\ i \in Ids /\ i \in DOMAIN session[t].entities
      /\ d.value \in Values /\ e.value = w
  <2>1. step[t] = "invoke" /\ persistent[t]
    BY DEF Invoke, Update
  <2>2. QED
    BY <1>1, <2>1, InHandInvoke DEF Raven, Effect, Entities
<1>3. /\ step'[t] = "end" /\ \A u \in Threads \ {t} : step'[u] = step[u]
      /\ ambient' = ambient
  BY DEF Update, Goto, Invoke, configVars, Layer1, Locals
<1>4. SessionOK(session[t]) /\ DOMAIN session[t] = Fields /\ DOMAIN session = Threads
      /\ Based(session[t])
  BY DEF Layer1, Sessions, Documents, Ready
<1>5. PICK s, r : s = session[t] /\ r = session'[t]
  OBVIOUS
<1>6. CASE w = d.value
  <2>1. Change(t, Sends(t, FALSE)) /\ risked' = risked
        /\ session' = [session EXCEPT ![t].entities = With(@, i, e),
                                      ![t].changed = @ \cup {i}]
    BY <1>1, <1>6 DEF Update
  <2>2. /\ \A j \in Ids, v \in Values : Holds(j, v)' <=> Holds(j, v)
        /\ \A v \in Values : unique'[v] = unique[v]
        /\ \A u \in Threads \ {t} : tx'[u] = tx[u]
        /\ ~ ambient => tx'[t] = NoChanges
        /\ DOMAIN tx'[t].links = {}
    BY <1>1, <1>2, <2>1, SendsOnly
  <2>3. /\ r.entities = With(s.entities, i, e)
        /\ r.stale = s.stale /\ r.removed = s.removed
        /\ r.added = s.added /\ r.lookups = s.lookups
        /\ \A u \in Threads \ {t} : session'[u] = session[u]
    BY <1>4, <1>5, <2>1 DEF Fields
  <2>4. /\ DOMAIN r.entities = DOMAIN s.entities \cup {i} /\ r.entities[i] = e
        /\ \A j \in DOMAIN s.entities \ {i} : r.entities[j] = s.entities[j]
    BY <2>3 DEF With
  <2>5. Based(r)'
    BY <1>1, <1>2, <1>4, <1>5, <1>6, <2>2, <2>3, <2>4, KeptBased
  <2>6. Based(session[t])'
    BY <1>5, <2>5 DEF Based
  <2>7. QED
    BY <1>2, <1>3, <2>1, <2>2, <2>3, <2>6, InvokedReady
<1>7. CASE w # d.value
  <2>1. /\ w \notin DOMAIN session[t].lookups
        /\ Unlink(t, d.value, Sends(t, FALSE))
        /\ session' = [session EXCEPT ![t].entities = With(@, i, e),
                                      ![t].changed = @ \cup {i},
                                      ![t].lookups = With(@, w, i),
                                      ![t].added = @ \cup {w}]
    BY <1>1, <1>7 DEF Update
  <2>2. /\ risked \subseteq risked'
        /\ \A j \in Ids, v \in Values : Holds(j, v)' <=> Holds(j, v)
        /\ \A v \in Values \ risked' : unique'[v] = unique[v]
        /\ \A u \in Threads \ {t} : tx'[u] = tx[u]
        /\ ~ ambient => tx'[t] = NoChanges
        /\ DOMAIN tx'[t].links \subseteq {d.value}
        /\ d.value \notin LockedValues(t)
        /\ \A j \in Ids : Holds(j, d.value) => d.value \in risked' \/ j = i
    BY <1>1, <1>2, <2>1, UnlinksOne
  <2>3. /\ r.entities = With(s.entities, i, e) /\ r.changed = s.changed \cup {i}
        /\ r.stale = s.stale /\ r.removed = s.removed
        /\ r.added = s.added \cup {w} /\ r.lookups = With(s.lookups, w, i)
        /\ \A u \in Threads \ {t} : session'[u] = session[u]
    BY <1>4, <1>5, <2>1 DEF Fields
  <2>4. /\ DOMAIN r.entities = DOMAIN s.entities \cup {i} /\ r.entities[i] = e
        /\ \A j \in DOMAIN s.entities \ {i} : r.entities[j] = s.entities[j]
    BY <2>3 DEF With
  <2>5. Based(r)'
    <3>1. w \notin DOMAIN s.lookups /\ SessionOK(s) /\ Based(s) /\ r.entities[i].value = w
      BY <1>2, <1>4, <1>5, <2>1, <2>4
    <3>2. QED
      BY <1>2, <2>2, <2>3, <2>4, <3>1, KeptBased
  <2>6. Based(session[t])'
    BY <1>5, <2>5 DEF Based
  <2>7. i \in session'[t].changed /\ session'[t].entities[i].value # d.value
    BY <1>2, <1>5, <1>7, <2>3, <2>4
  <2>8. QED
    BY <1>2, <1>3, <2>2, <2>3, <2>6, <2>7, InvokedReady
<1>8. QED
  BY <1>6, <1>7

LEMMA CompleteDocuments ==
  ASSUME Layer1, Raven, Documents, NEW t \in Threads, Invoke(t),
         NEW w \in Values, Complete(t, w)
  PROVE  Documents'
<1>1. PICK i, d, e : i = entity[t] /\ d = session[t].entities[i] /\ e = Effect(d, message[t], w)
  OBVIOUS
<1>2. /\ step[t] = "invoke" /\ i \in Ids /\ i \in DOMAIN session[t].entities /\ e.value = w
  <2>1. step[t] = "invoke" /\ persistent[t]
    BY DEF Invoke, Complete
  <2>2. QED
    BY <1>1, <2>1, InHandInvoke DEF Raven, Effect
<1>3. /\ step'[t] = "end" /\ \A u \in Threads \ {t} : step'[u] = step[u]
      /\ ambient' = ambient
  BY DEF Complete, Goto, Invoke, configVars, Layer1, Locals
<1>4. SessionOK(session[t]) /\ DOMAIN session[t] = Fields /\ DOMAIN session = Threads
      /\ Based(session[t])
  BY DEF Layer1, Sessions, Documents, Ready
<1>5. PICK s, r : s = session[t] /\ r = session'[t]
  OBVIOUS
<1>6. /\ Unlink(t, w, Sends(t, TRUE))
      /\ session' = [session EXCEPT ![t].entities = With(@, i, e),
                                    ![t].removed = @ \cup {i}]
  BY <1>1 DEF Complete
<1>7. /\ risked \subseteq risked'
      /\ \A j \in Ids, v \in Values : Holds(j, v)' <=> Holds(j, v)
      /\ \A v \in Values \ risked' : unique'[v] = unique[v]
      /\ \A u \in Threads \ {t} : tx'[u] = tx[u]
      /\ ~ ambient => tx'[t] = NoChanges
      /\ DOMAIN tx'[t].links \subseteq {w}
      /\ w \notin LockedValues(t)
      /\ \A j \in Ids : Holds(j, w) => w \in risked' \/ j = i
  BY <1>1, <1>2, <1>6, UnlinksOne
<1>8. /\ r.entities = With(s.entities, i, e) /\ r.stale = s.stale
      /\ r.removed = s.removed \cup {i}
      /\ r.added = s.added /\ r.lookups = s.lookups
      /\ \A u \in Threads \ {t} : session'[u] = session[u]
  BY <1>4, <1>5, <1>6 DEF Fields
<1>9. /\ DOMAIN r.entities = DOMAIN s.entities \cup {i} /\ r.entities[i] = e
      /\ \A j \in DOMAIN s.entities \ {i} : r.entities[j] = s.entities[j]
  BY <1>8 DEF With
<1>10. Based(r)'
  BY <1>2, <1>4, <1>5, <1>7, <1>8, <1>9, KeptBased
<1>11. Based(session[t])'
  BY <1>5, <1>10 DEF Based
<1>12. i \in session'[t].removed
  BY <1>5, <1>8
<1>13. QED
  BY <1>2, <1>3, <1>7, <1>8, <1>11, <1>12, InvokedReady

LEMMA InvokeDocuments ==
  ASSUME Layer1, Raven, Documents, NEW t \in Threads, Invoke(t)
  PROVE  Documents'
<1>1. PICK w \in Values, completed \in BOOLEAN :
        Save(t, completed) \/ Update(t, w) \/ Complete(t, w)
  BY DEF Invoke, InvokeInMemory, Raven
<1>2. QED
  BY <1>1, SaveDocuments, UpdateDocuments, CompleteDocuments

LEMMA ThrowsDocuments ==
  ASSUME Layer1, Raven, Documents, NEW t \in Threads, HandlerThrows(t) \/ PersisterThrows(t)
  PROVE  Documents'
<1>1. /\ session'[t] = NewSession /\ tx'[t] = NoChanges /\ step'[t] = "idle"
      /\ \A u \in Threads \ {t} : /\ session'[u] = session[u] /\ tx'[u] = tx[u]
                                  /\ step'[u] = step[u]
      /\ ambient' = ambient
  BY DEF HandlerThrows, PersisterThrows, GiveBack, Release, Goto, configVars, Layer1,
     Sessions, Transactions, Locals
<1>2. /\ risked \subseteq risked'
      /\ \A i \in Ids, v \in Values : Holds(i, v)' <=> Holds(i, v)
      /\ \A v \in Values \ risked' : unique'[v] = unique[v]
  <2>1. CASE UNCHANGED <<storeVars, risked>>
    BY <2>1, SameStore DEF storeVars
  <2>2. ASSUME NEW old, Apply([NoChanges EXCEPT !.links = With(Nothing, old, NoSaga)]),
               old \in Values, risked' = risked \cup {old}
        PROVE  /\ risked \subseteq risked'
               /\ \A i \in Ids, v \in Values : Holds(i, v)' <=> Holds(i, v)
               /\ \A v \in Values \ risked' : unique'[v] = unique[v]
    <3>1. PICK c : c = [NoChanges EXCEPT !.links = With(Nothing, old, NoSaga)]
      OBVIOUS
    <3>2. ChangesOK(c)
      BY <2>2, <3>1, NoChangesOK, UnlinkTyped
    <3>3. c.puts = Nothing /\ c.drops = {} /\ c.links = With(Nothing, old, NoSaga)
      BY <3>1 DEF NoChanges
    <3>4. DOMAIN c.puts = {} /\ DOMAIN c.links = {old}
      <4>1. DOMAIN Nothing = {} /\ DOMAIN With(Nothing, old, NoSaga) = DOMAIN Nothing \cup {old}
        BY Domains
      <4>2. QED
        BY <3>3, <4>1
    <3>5. Apply(c)
      BY <2>2, <3>1
    <3>6. QED
      BY <2>2, <3>2, <3>3, <3>4, <3>5, Applied
  <2>3. HandlerThrows(t) => UNCHANGED <<storeVars, risked>>
    BY DEF HandlerThrows, LeaveObject, Raven
  <2>4. ASSUME PersisterThrows(t), ~ UNCHANGED <<storeVars, risked>>
        PROVE  \E old \in Values :
                 /\ Apply([NoChanges EXCEPT !.links = With(Nothing, old, NoSaga)])
                 /\ risked' = risked \cup {old}
    <3>1. PICK old : /\ step[t] = "invoke" /\ persistent[t]
                     /\ old = session[t].entities[entity[t]].value
                     /\ Apply([NoChanges EXCEPT !.links = With(Nothing, old, NoSaga)])
                     /\ risked' = risked \cup {old}
      BY <2>4 DEF PersisterThrows, Raven
    <3>2. old \in Values
      BY <3>1, InHandInvoke DEF Raven, Entities
    <3>3. QED
      BY <3>1, <3>2
  <2>5. QED
    BY <2>1, <2>2, <2>3, <2>4
<1>3. Ready(t)' /\ Linker(t)' = {}
  BY <1>1, Emptied
<1>4. QED
  BY <1>1, <1>2, <1>3, QuietStep

(* The transaction is given up; the session stays.                         *)
LEMMA GivenUpDocuments ==
  ASSUME Layer1, Raven, Documents, NEW t \in Threads, SaveChangesThrows(t) \/ CommitThrows(t)
  PROVE  Documents'
<1>1. /\ tx'[t] = NoChanges /\ step'[t] = "idle"
      /\ \A u \in Threads \ {t} : /\ session'[u] = session[u] /\ tx'[u] = tx[u]
                                  /\ step'[u] = step[u]
      /\ ambient' = ambient /\ risked' = risked
      /\ saved' = saved /\ data' = data /\ unique' = unique
  BY DEF SaveChangesThrows, CommitThrows, GiveBack, Release, Goto, configVars, storeVars,
     Layer1, Sessions, Transactions, Locals
<1>2. SessionOK(session[t]) /\ DOMAIN session[t] = Fields /\ DOMAIN session = Threads
      /\ Based(session[t])
  BY DEF Layer1, Sessions, Documents, Ready
<1>3. PICK s, r : s = session[t] /\ r = session'[t]
  OBVIOUS
<1>4. Based(r)'
  <2>1. CASE session' = session
    BY <1>1, <1>2, <1>3, <2>1 DEF Based, Holds
  <2>2. CASE SaveChangesThrows(t)
    <3>1. /\ r.entities = Without(s.entities, s.removed)
          /\ r.stale = s.stale \ s.removed /\ r.removed = {}
          /\ r.lookups = s.lookups /\ r.added = s.added
      BY <1>2, <1>3, <2>2 DEF SaveChangesThrows, Fields
    <3>2. /\ DOMAIN r.entities = DOMAIN s.entities \ s.removed
          /\ \A i \in DOMAIN r.entities : r.entities[i] = s.entities[i]
      BY <3>1 DEF Without
    <3>3. QED
      BY <1>1, <1>2, <1>3, <3>1, <3>2 DEF Based, Holds
  <2>3. QED
    BY <2>1, <2>2 DEF CommitThrows
<1>5. DOMAIN tx'[t].links = {}
  BY <1>1, NoChangesReady
<1>6. Ready(t)' /\ Linker(t)' = {}
  <2>1. Based(session[t])'
    BY <1>3, <1>4 DEF Based
  <2>2. QED
    BY <1>1, <1>5, <2>1 DEF Ready, Renames, Linker
<1>7. \A i \in Ids, v \in Values : Holds(i, v)' <=> Holds(i, v)
  BY <1>1, SameStore
<1>8. QED
  BY <1>1, <1>6, <1>7, QuietStep

(* What SaveChanges sends is consistent: it was checked against the        *)
(* documents there are, and what it does not check nobody else may change. *)
LEMMA BatchConsistent ==
  ASSUME Layer1, OneDocument, NEW t \in Threads, Ready(t), step[t] = "end", ~ Conflict(t),
         NEW c, c.drops = session[t].removed,
         DOMAIN c.puts = session[t].changed \ session[t].removed,
         \A i \in DOMAIN c.puts : c.puts[i] = session[t].entities[i],
         DOMAIN c.links = session[t].added \cup Linker(t),
         \A v \in session[t].added : c.links[v] = session[t].lookups[v]
  PROVE  Consistent(c, risked)
<1>1. PICK s, d : s = session[t] /\ d = tx[t]
  OBVIOUS
<1>2. /\ SessionOK(s) /\ ChangesOK(d) /\ Based(s) /\ Renames(d, s)
      /\ unique \in [Values -> Ids \cup {NoSaga}]
  BY <1>1 DEF Layer1, Sessions, Transactions, Stored, Ready
<1>3. /\ s.changed \cap s.stale = {}
      /\ \A v \in s.added : v \notin DOMAIN d.links => unique[v] = NoSaga
  BY <1>1 DEF Conflict, Linked
<1>4. /\ DOMAIN c.puts = s.changed \ s.removed /\ c.drops = s.removed
      /\ DOMAIN c.links = s.added \cup DOMAIN d.links
      /\ \A v \in s.added : c.links[v] = s.lookups[v]
  BY <1>1 DEF Linker
<1>5. \A i \in DOMAIN c.puts : c.puts[i] = s.entities[i]
  BY <1>1
<1>6. \A i \in DOMAIN s.entities : i \in Ids /\ s.entities[i].value \in Values
  BY <1>2 DEF SessionOK, IsPartial, Entities
<1>7. s.added \subseteq Values /\ DOMAIN d.links \subseteq Values
  BY <1>2 DEF SessionOK, ChangesOK, IsPartial
(* Who has a value whose document is new, or was removed, gives it up.     *)
<1>8. ASSUME NEW v \in DOMAIN c.links, NEW j \in Ids, Holds(j, v), v \notin risked
      PROVE  /\ v \in DOMAIN d.links
             /\ j \in s.removed \/ (j \in s.changed /\ s.entities[j].value # v)
  <2>1. unique[v] = j /\ j # NoSaga
    BY <1>4, <1>7, <1>8, SagasAssumption DEF OneDocument
  <2>2. v \in DOMAIN d.links
    BY <1>3, <1>4, <2>1
  <2>3. QED
    BY <1>2, <1>3, <1>8, <2>2 DEF Renames
<1>9. ASSUME NEW i \in DOMAIN c.puts
      PROVE  c.puts[i].value \in risked \/ Linking(c, i, c.puts[i].value)
  <2>1. PICK v : v = c.puts[i].value
    OBVIOUS
  <2>2. /\ i \in s.changed \ (s.stale \cup s.removed) /\ i \in DOMAIN s.entities
        /\ v = s.entities[i].value
    BY <1>2, <1>3, <1>4, <1>5, <2>1 DEF SessionOK
  <2>3. (v \in s.added /\ s.lookups[v] = i) \/ Holds(i, v)
    BY <1>2, <2>2 DEF Based
  <2>4. CASE v \in s.added /\ s.lookups[v] = i
    BY <1>4, <2>1, <2>4 DEF Linking
  <2>5. CASE Holds(i, v)
    <3>1. v \in risked \/ v \notin DOMAIN c.links
      BY <1>6, <1>8, <2>2, <2>5
    <3>2. QED
      BY <2>1, <2>5, <3>1 DEF Linking
  <2>6. QED
    BY <2>3, <2>4, <2>5
<1>10. DOMAIN c.puts \cap c.drops = {}
  BY <1>4
<1>11. \A v \in DOMAIN c.links, j \in Ids :
         Holds(j, v) => v \in risked \/ j \in DOMAIN c.puts \cup c.drops
  BY <1>4, <1>8
<1>12. QED
  BY <1>9, <1>10, <1>11 DEF Consistent

LEMMA EndEnlisted ==
  ASSUME Layer1, Layer2, Raven, ambient, Documents, NEW t \in Threads, EndUnitOfWork(t)
  PROVE  Documents'
<1>1. /\ step[t] = "end" /\ step'[t] = "commit" /\ ~ Conflict(t)
      /\ \A u \in Threads \ {t} : /\ session'[u] = session[u] /\ tx'[u] = tx[u]
                                  /\ step'[u] = step[u]
      /\ session'[t] = NewSession
      /\ ambient' = ambient /\ risked' = risked
      /\ saved' = saved /\ data' = data /\ unique' = unique
      /\ tx'[t] = [puts |-> Merge(Batch(t).puts, tx[t].puts),
                   drops |-> Batch(t).drops \cup tx[t].drops,
                   links |-> Merge(Batch(t).links, tx[t].links),
                   clears |-> Batch(t).clears \cup tx[t].clears,
                   asks |-> Merge(Batch(t).asks, tx[t].asks)]
  BY DEF EndUnitOfWork, Change, Goto, configVars, storeVars, Layer1, Transactions, Locals
<1>2. PICK c, b : c = tx'[t] /\ b = Batch(t)
  OBVIOUS
<1>3. DOMAIN tx[t].puts = {} /\ tx[t].drops = {}
  BY <1>1 DEF Layer2, Enlisted, Raven, WrittenLate, Written
<1>4. /\ c.puts = Merge(b.puts, tx[t].puts) /\ c.drops = b.drops \cup tx[t].drops
      /\ c.links = Merge(b.links, tx[t].links)
  BY <1>1, <1>2
<1>5. DOMAIN b.puts = session[t].changed \ session[t].removed
      /\ b.drops = session[t].removed
      /\ b.puts = Without(session[t].entities,
           DOMAIN session[t].entities \ (session[t].changed \ session[t].removed))
      /\ b.links = Without(session[t].lookups, DOMAIN session[t].lookups \ session[t].added)
  BY <1>2, BatchTyped DEF Batch, NoChanges
<1>6. /\ DOMAIN c.puts = session[t].changed \ session[t].removed
      /\ \A i \in DOMAIN c.puts : c.puts[i] = session[t].entities[i]
      /\ c.drops = session[t].removed
  <2>1. \A i \in DOMAIN b.puts : b.puts[i] = session[t].entities[i]
    BY <1>5 DEF Without
  <2>2. QED
    BY <1>3, <1>4, <1>5, <2>1 DEF Merge
<1>7. DOMAIN b.links = session[t].added
      /\ \A v \in session[t].added : b.links[v] = session[t].lookups[v]
  BY <1>5 DEF Without, Layer1, Sessions, SessionOK
<1>8. DOMAIN c.links = session[t].added \cup Linker(t)
      /\ \A v \in session[t].added : c.links[v] = session[t].lookups[v]
  BY <1>4, <1>7 DEF Merge, Linker
<1>9. OneDocument /\ Ready(t)
  BY DEF Documents
<1>10. Consistent(c, risked)
  BY <1>1, <1>2, <1>6, <1>8, <1>9, BatchConsistent
<1>11. \A i \in Ids, v \in Values : Holds(i, v)' <=> Holds(i, v)
  BY <1>1, SameStore
<1>12. ChangesOK(c)
  BY <1>2, EndUnitOfWorkTyped DEF Typed, Transactions
<1>13. Consistent(c, risked)'
  BY <1>1, <1>10, <1>11, <1>12, StaysConsistent
<1>14. Ready(t)'
  <2>1. Consistent(tx[t], risked)'
    BY <1>2, <1>13 DEF Consistent, Linking
  <2>2. DOMAIN session'[t].entities = {}
    BY <1>1, NewSessionBased
  <2>3. QED
    BY <1>1, <2>1, <2>2 DEF Ready, Based
<1>15. Linker(t)' \cap LockedValues(t) = {}
  <2>1. session[t].added \cap LockedValues(t) = {}
    BY <1>1 DEF Conflict
  <2>2. Linker(t) \cap LockedValues(t) = {}
    BY DEF Documents, LockedValues, Linker
  <2>3. QED
    BY <1>2, <1>8, <2>1, <2>2 DEF Linker
<1>16. QED
  BY <1>1, <1>11, <1>14, <1>15, QuietStep

(* The changes of c are made, at the end of the unit of work or with the   *)
(* transaction.                                                            *)
LEMMA AppliedDocuments ==
  ASSUME Layer1, Documents, NEW t \in Threads, NEW c, ChangesOK(c), Apply(c),
         Consistent(c, risked), risked' = risked, ambient' = ambient, tx'[t] = NoChanges,
         Based(session[t])',
         \A u \in Threads \ {t} :
           /\ tx'[u] = tx[u] /\ step'[u] = step[u]
           /\ session'[u] = Outdate(session[u], c)
           /\ Linker(u) \cap DOMAIN c.links = {}
           /\ Written(u) \cap (DOMAIN c.puts \cup c.drops) = {}
  PROVE  Documents'
<1>1. OneDocument'
  BY ChangedDocuments DEF Documents
<1>2. DOMAIN tx'[t].links = {} /\ DOMAIN tx'[t].puts = {} /\ tx'[t].drops = {}
  BY NoChangesReady
<1>3. Ready(t)' /\ Linker(t)' = {}
  BY <1>2 DEF Ready, Consistent, Renames, Linker
<1>4. ASSUME NEW u \in Threads \ {t} PROVE Ready(u)' /\ Linker(u)' = Linker(u)
  <2>1. Ready(u)
    BY DEF Documents
  <2>2. Linker(u)' = Linker(u)
    BY DEF Linker
  <2>3. QED
    BY <2>1, <2>2, Watcher
<1>5. \A u \in Threads : Linker(u)' # {} => step'[u] \in {"end", "commit"}
  BY <1>3, <1>4 DEF Documents
<1>6. \A u, w \in Threads : u # w => Linker(u)' \cap Linker(w)' = {}
  BY <1>3, <1>4 DEF Documents
<1>7. ~ ambient' => \A u \in Threads : tx'[u] = NoChanges
  BY DEF Documents
<1>8. QED
  BY <1>1, <1>3, <1>4, <1>5, <1>6, <1>7 DEF Documents

LEMMA EndAlone ==
  ASSUME Layer1, Raven, ~ ambient, Documents, NEW t \in Threads, EndUnitOfWork(t)
  PROVE  Documents'
<1>1. PICK c : c = Batch(t)
  OBVIOUS
<1>2. /\ step[t] = "end" /\ ~ Conflict(t) /\ Apply(c) /\ tx' = tx
      /\ session'[t] = NewSession
      /\ ambient' = ambient /\ risked' = risked
      /\ \A u \in Threads \ {t} : /\ session'[u] = Outdate(session[u], c)
                                  /\ step'[u] = step[u]
  BY <1>1 DEF EndUnitOfWork, Change, Goto, configVars, Layer1, Locals
<1>3. \A u \in Threads : /\ tx[u] = NoChanges
                         /\ Linker(u) = {} /\ Written(u) = {}
  BY NoChangesReady DEF Documents, Linker, Written
<1>4. /\ ChangesOK(c) /\ c.drops = session[t].removed
      /\ DOMAIN c.puts = session[t].changed \ session[t].removed
      /\ c.puts = Without(session[t].entities,
           DOMAIN session[t].entities \ (session[t].changed \ session[t].removed))
      /\ c.links = Without(session[t].lookups, DOMAIN session[t].lookups \ session[t].added)
  BY <1>1, BatchTyped DEF Batch, NoChanges
<1>5. /\ DOMAIN c.links = session[t].added
      /\ \A v \in session[t].added : c.links[v] = session[t].lookups[v]
      /\ \A i \in DOMAIN c.puts : c.puts[i] = session[t].entities[i]
  BY <1>4 DEF Without, Layer1, Sessions, SessionOK
<1>6. OneDocument /\ Ready(t) /\ DOMAIN c.links = session[t].added \cup Linker(t)
  BY <1>3, <1>5 DEF Documents
<1>7. Consistent(c, risked)
  BY <1>2, <1>4, <1>5, <1>6, BatchConsistent
<1>8. DOMAIN session'[t].entities = {}
  BY <1>2, NewSessionBased
<1>9. Based(session[t])'
  BY <1>8 DEF Based
<1>10. QED
  BY <1>2, <1>3, <1>4, <1>7, <1>9, AppliedDocuments

LEMMA CommitDocuments ==
  ASSUME Layer1, Layer2, Raven, Documents, NEW t \in Threads, Commit(t)
  PROVE  Documents'
<1>1. PICK c : c = tx[t]
  OBVIOUS
<1>2. /\ step[t] = "commit" /\ Apply(c) /\ tx'[t] = NoChanges
      /\ ambient' = ambient /\ risked' = risked
      /\ \A u \in Threads : session'[u] = Outdate(session[u], c)
      /\ \A u \in Threads \ {t} : tx'[u] = tx[u] /\ step'[u] = step[u]
  BY <1>1 DEF Commit, Release, Goto, configVars, Layer1, Transactions, Locals
<1>3. ChangesOK(c) /\ Consistent(c, risked) /\ Based(session[t])
  BY <1>1, <1>2 DEF Layer1, Transactions, Documents, Ready
<1>4. Based(session[t])'
  BY <1>2, <1>3, OutdatedBased
<1>5. \A u \in Threads \ {t} : /\ Linker(u) \cap DOMAIN c.links = {}
                               /\ Written(u) \cap (DOMAIN c.puts \cup c.drops) = {}
  <2>1. \A u \in Threads \ {t} : Linker(u) \cap DOMAIN c.links = {}
    BY <1>1 DEF Documents, Linker
  <2>2. CASE ambient
    BY <1>1, <2>1, <2>2 DEF Layer2, Enlisted, Raven, OneWriter, Written
  <2>3. CASE ~ ambient
    BY <1>1, <2>1, <2>3, NoChangesReady DEF Documents, Written
  <2>4. QED
    BY <2>2, <2>3
<1>6. QED
  BY <1>2, <1>3, <1>4, <1>5, AppliedDocuments

LEMMA RestartDocuments ==
  ASSUME Raven, Documents, Restart
  PROVE  Documents'
<1>1. /\ saved' = saved /\ data' = data /\ unique' = unique /\ risked' = risked
      /\ \A t \in Threads : session'[t] = NewSession /\ tx'[t] = NoChanges
  BY DEF Restart, Raven
<1>2. OneDocument'
  BY <1>1 DEF Documents, OneDocument, Holds
<1>3. \A t \in Threads : Ready(t)' /\ Linker(t)' = {}
  BY <1>1, Emptied
<1>4. QED
  BY <1>1, <1>2, <1>3 DEF Documents

LEMMA Layer3Step == Layer1 /\ Layer2 /\ Layer3 /\ [Next]_vars => Layer3'
<1> SUFFICES ASSUME Layer1, Layer2, Layer3, [Next]_vars, Raven, Documents PROVE Documents'
  BY SameConfiguration DEF Layer3, Raven, configVars
<1>1. CASE UNCHANGED vars
  BY <1>1 DEF vars, configVars, storeVars, threadVars, Documents, OneDocument, Ready, Based,
     Consistent, Linking, Renames, Holds, Linker
<1>2. ASSUME NEW t \in Threads, Process(t) PROVE Documents'
  <2>1. ~ GetFromMemory(t)
    BY DEF GetFromMemory, Raven
  <2>2. QED
    BY <1>2, <2>1, FindDocuments, InvokeDocuments, ThrowsDocuments, GivenUpDocuments,
       EndEnlisted, EndAlone, CommitDocuments DEF Process
<1>3. QED
  BY <1>1, <1>2, RestartDocuments DEF Next
-----------------------------------------------------------------------------
(* Layer 4: the persister in memory looks at all sagas it keeps first.     *)

Layer4 == persister = "InMemory" => OneSagaPerValue

LEMMA LeftObject ==
  ASSUME Layer1, OneSagaPerValue, NEW t, NEW w \in Values, LeaveObject(t, w)
  PROVE  OneSagaPerValue'
<1>1. CASE UNCHANGED <<saved, data, risked>>
  BY <1>1 DEF OneSagaPerValue
<1>2. ASSUME NEW i, NEW d, i = entity[t], d = data[i],
             data' = With(data, i, Effect(d, message[t], w)), saved' = saved,
             risked' = IF w = d.value THEN risked ELSE risked \cup {w}
      PROVE  OneSagaPerValue'
  <2>1. \A j \in saved : data'[j].value = IF j = i THEN w ELSE data[j].value
    BY <1>2 DEF With, Effect, Layer1, Stored
  <2>2. \A j \in saved' : data'[j].value # data[j].value => data'[j].value \in risked'
    BY <1>2, <2>1
  <2>3. risked \subseteq risked'
    BY <1>2
  <2>4. SUFFICES ASSUME NEW j \in saved, NEW k \in saved, j # k,
                        data'[j].value = data'[k].value, data'[j].value \notin risked'
                 PROVE  FALSE
    BY <1>2 DEF OneSagaPerValue
  <2>5. QED
    BY <1>2, <2>2, <2>3, <2>4 DEF OneSagaPerValue
<1>3. QED
  BY <1>1, <1>2 DEF LeaveObject, storeVars

LEMMA ObjectsInvoked ==
  ASSUME Layer1, OneSagaPerValue, NEW t \in Threads, step[t] = "invoke",
         NEW w \in Values, NEW completed \in BOOLEAN, InvokeInMemory(t, w, completed)
  PROVE  OneSagaPerValue'
<1>1. PICK i, d : /\ i = entity[t]
                  /\ d = IF persistent[t] THEN Effect(data[i], message[t], w)
                         ELSE Created(message[t])
  OBVIOUS
<1>2. /\ completed \/ Valid(i, d.value)
      /\ \/ data' = Without(data, {i}) /\ completed
         \/ data' = With(data, i, d)
      /\ saved' = IF completed THEN IF persistent[t] THEN saved \ {i} ELSE saved
                  ELSE saved \cup {i}
      /\ risked' = risked
  BY <1>1 DEF InvokeInMemory
<1>3. \A j \in saved \ {i} : data'[j] = data[j]
  BY <1>2 DEF With, Without, Layer1, Stored
<1>4. CASE completed
  <2>1. i \notin saved'
    BY <1>1, <1>2, <1>4 DEF Layer1, FreshInHand, Unknown, Locals
  <2>2. QED
    BY <1>2, <1>3, <1>4, <2>1 DEF OneSagaPerValue
<1>5. CASE ~ completed
  <2>1. data'[i] = d /\ saved' = saved \cup {i} /\ Valid(i, d.value)
    BY <1>2, <1>5 DEF With
  <2>2. \A j \in saved \ {i} : data'[j].value # d.value
    BY <1>3, <2>1 DEF Valid
  <2>3. QED
    BY <1>2, <1>3, <2>1, <2>2 DEF OneSagaPerValue
<1>6. QED
  BY <1>4, <1>5

LEMMA KeptSagas ==
  ASSUME Layer1, OneSagaPerValue, NEW c, Apply(c), DOMAIN c.puts = {}, c.drops = {},
         risked' = risked
  PROVE  OneSagaPerValue'
<1>1. saved' = saved
  BY DEF Apply
<1>2. \A i \in saved : data'[i] = data[i]
  BY DEF Apply, Merge, Without, Layer1, Stored
<1>3. QED
  BY <1>1, <1>2 DEF OneSagaPerValue

LEMMA Layer4Step == Layer1 /\ Layer4 /\ [Next]_vars => Layer4'
<1> SUFFICES ASSUME Layer1, Layer4, [Next]_vars, persister = "InMemory", OneSagaPerValue
             PROVE  OneSagaPerValue'
  BY SameConfiguration DEF Layer4, configVars
<1>1. CASE UNCHANGED <<saved, data, risked>>
  BY <1>1 DEF OneSagaPerValue
<1>2. CASE Restart
  BY <1>2 DEF Restart, OneSagaPerValue
<1>3. ASSUME NEW t \in Threads, Invoke(t) PROVE OneSagaPerValue'
  <2>1. PICK w \in Values, completed \in BOOLEAN : InvokeInMemory(t, w, completed)
    BY <1>3 DEF Invoke, Save, Update, Complete
  <2>2. step[t] = "invoke"
    BY <1>3 DEF Invoke
  <2>3. QED
    BY <2>1, <2>2, ObjectsInvoked
<1>4. ASSUME NEW t \in Threads, HandlerThrows(t) \/ PersisterThrows(t) PROVE OneSagaPerValue'
  <2>1. \/ UNCHANGED <<saved, data, risked>>
        \/ step[t] = "invoke" /\ \E w \in Values : LeaveObject(t, w)
    <3>1. step[t] = "invoke" => ValueOf[message[t]] \in Values
      BY InHandInvoke, MessagesAssumption
    <3>2. QED
      BY <1>4, <3>1 DEF HandlerThrows, PersisterThrows, storeVars
  <2>2. QED
    BY <1>1, <2>1, LeftObject
<1>5. ASSUME NEW t \in Threads, EndUnitOfWork(t) PROVE OneSagaPerValue'
  <2>1. PICK c : c = Batch(t)
    OBVIOUS
  <2>2. DOMAIN c.puts = {} /\ c.drops = {}
    BY <2>1, BatchTyped DEF Layer1, NoSessions, Sessions, SessionOK
  <2>3. risked' = risked /\ (Apply(c) \/ UNCHANGED storeVars)
    BY <1>5, <2>1 DEF EndUnitOfWork, Change
  <2>4. QED
    BY <1>1, <2>2, <2>3, KeptSagas DEF storeVars
<1>6. ASSUME NEW t \in Threads, Commit(t) PROVE OneSagaPerValue'
  <2>1. PICK c : c = tx[t]
    OBVIOUS
  <2>2. DOMAIN c.puts = {} /\ c.drops = {} /\ Apply(c) /\ risked' = risked
    BY <1>6, <2>1 DEF Layer1, NoSessions, Commit
  <2>3. QED
    BY <2>2, KeptSagas
<1>7. ASSUME NEW t \in Threads,
             \/ \E m \in Messages : Receive(t, m)
             \/ GetFromMemory(t) \/ LoadLookup(t) \/ LoadSaga(t)
             \/ SaveChangesThrows(t) \/ CommitThrows(t)
      PROVE  UNCHANGED <<saved, data, risked>>
  BY <1>7 DEF Receive, GetFromMemory, LoadLookup, LoadSaga, SaveChangesThrows, CommitThrows,
     storeVars
<1>8. ASSUME NEW t \in Threads, Process(t) PROVE OneSagaPerValue'
  BY <1>1, <1>3, <1>4, <1>5, <1>6, <1>7, <1>8 DEF Process
<1>9. QED
  BY <1>1, <1>2, <1>8 DEF Next, vars, storeVars

(* Two sagas in the store never have the same value of the unique property,*)
(* unless the value was put at risk, for either persister, with or without *)
(* the transaction of the thread and for any number of threads, messages,  *)
(* values, failures and restarts.                                          *)
THEOREM OneSagaPerValueCorrect == Spec => []OneSagaPerValue
<1>1. Init => Layer4
  BY DEF Init, Layer4, OneSagaPerValue
<1>2. Layer1 /\ Layer3 /\ Layer4 => OneSagaPerValue
  <2> SUFFICES ASSUME Layer1, Layer3, persister = "Raven",
                      NEW i \in saved, NEW j \in saved, i # j, data[i].value = data[j].value
               PROVE  data[i].value \in risked
    BY DEF Layer1, Configured, Layer4, OneSagaPerValue
  <2>1. i \in Ids /\ j \in Ids /\ data[i].value \in Values
    BY DEF Layer1, Stored, IsPartial, Entities
  <2>2. QED
    BY <2>1 DEF Layer3, Documents, OneDocument, Holds
<1>3. QED
  BY Layer1Correct, Layer2Init, Layer2Step, Layer3Init, Layer3Step, <1>1, Layer4Step, <1>2, PTL
     DEF Spec
-----------------------------------------------------------------------------
(* Layer 5: a message that is handled is in the hand of one thread, and a  *)
(* new saga in the hand of one.                                            *)

Holding ==
  /\ \A t \in Threads : message[t] # NoMessage => status[message[t]] = "held"
  /\ \A t, u \in Threads : t # u /\ message[t] = message[u] => message[t] = NoMessage
  /\ \A m \in Messages : handledBy[m] # NoSaga => status[m] = "handled"

Busy == {"invoke", "end", "commit"}

FreshAlone ==
  \A t \in Threads : step[t] = "invoke" /\ ~ persistent[t] =>
    /\ \A m \in Messages : handledBy[m] # entity[t]
    /\ \A u \in Threads \ {t} : step[u] \in Busy => entity[u] # entity[t]

Layer5 == Holding /\ FreshAlone

LEMMA HoldingStep == Layer1 /\ Holding /\ [Next]_vars => Holding'
<1> SUFFICES ASSUME Layer1, Holding, [Next]_vars PROVE Holding'
  OBVIOUS
<1>1. /\ message \in [Threads -> Messages \cup {NoMessage}]
      /\ status \in [Messages -> States] /\ handledBy \in [Messages -> Ids \cup {NoSaga}]
      /\ \A t \in Threads : (step[t] = "idle") = (message[t] = NoMessage)
      /\ NoMessage \notin Messages
  BY MessagesAssumption DEF Layer1, Locals, Tallies
<1>2. CASE UNCHANGED <<message, status, handledBy>>
  BY <1>2 DEF Holding
<1>3. ASSUME NEW t \in Threads, NEW m \in Messages, Receive(t, m) PROVE Holding'
  <2>1. /\ status[m] = "queued" /\ status' = [status EXCEPT ![m] = "held"]
        /\ message' = [message EXCEPT ![t] = m] /\ handledBy' = handledBy
    BY <1>3 DEF Receive
  <2>2. QED
    BY <1>1, <2>1 DEF Holding
<1>4. ASSUME NEW t \in Threads, step[t] # "idle",
             NEW s, s \in {"queued", "error"},
             status' = [status EXCEPT ![message[t]] = s],
             message' = [message EXCEPT ![t] = NoMessage], handledBy' = handledBy
      PROVE  Holding'
  <2>1. message[t] \in Messages /\ status[message[t]] = "held"
    BY <1>1, <1>4 DEF Holding
  <2>2. QED
    BY <1>1, <1>4, <2>1 DEF Holding
<1>5. ASSUME NEW t \in Threads, step[t] # "idle", GiveBack(t) PROVE Holding'
  BY <1>4, <1>5 DEF GiveBack, Release
<1>6. ASSUME NEW t \in Threads, Commit(t) PROVE Holding'
  <2>1. /\ step[t] = "commit" /\ status' = [status EXCEPT ![message[t]] = "handled"]
        /\ message' = [message EXCEPT ![t] = NoMessage]
        /\ handledBy' = [handledBy EXCEPT ![message[t]] = entity[t]]
    BY <1>6 DEF Commit, Release
  <2>2. message[t] \in Messages /\ status[message[t]] = "held"
    BY <1>1, <2>1 DEF Holding
  <2>3. QED
    BY <1>1, <2>1, <2>2 DEF Holding
<1>7. CASE Restart
  <2>1. /\ \A t \in Threads : message'[t] = NoMessage
        /\ handledBy' = handledBy
        /\ \A m \in Messages : status[m] = "handled" => status'[m] = "handled"
    BY <1>7 DEF Restart
  <2>2. QED
    BY <2>1 DEF Holding
<1>8. ASSUME NEW t \in Threads,
             \/ GetFromMemory(t) \/ LoadLookup(t) \/ LoadSaga(t)
             \/ Invoke(t) \/ EndUnitOfWork(t)
      PROVE  UNCHANGED <<message, status, handledBy>>
  BY <1>8 DEF GetFromMemory, LoadLookup, LoadSaga, Invoke, EndUnitOfWork, messageVars
<1>9. ASSUME NEW t \in Threads,
             HandlerThrows(t) \/ PersisterThrows(t) \/ SaveChangesThrows(t) \/ CommitThrows(t)
      PROVE  step[t] # "idle" /\ GiveBack(t)
  BY <1>9 DEF HandlerThrows, PersisterThrows, SaveChangesThrows, CommitThrows
<1>10. ASSUME NEW t \in Threads, Process(t) PROVE Holding'
  BY <1>2, <1>3, <1>5, <1>6, <1>8, <1>9, <1>10 DEF Process
<1>11. CASE UNCHANGED vars
  BY <1>2, <1>11 DEF vars, threadVars, messageVars
<1>12. QED
  BY <1>7, <1>10, <1>11 DEF Next

(* How a thread comes to an end of a unit of work.                         *)
LEMMA ComesToEnd ==
  ASSUME Layer1, NEW t \in Threads, Process(t)
  PROVE  /\ step'[t] = "end" => \/ Invoke(t)
                                \/ entity'[t] = NoSaga /\ UNCHANGED <<storeVars, session, tx>>
         /\ step'[t] = "commit" => EndUnitOfWork(t)
         /\ Invoke(t) \/ EndUnitOfWork(t) => entity' = entity /\ message' = message
<1>1. /\ step \in [Threads -> Steps] /\ entity \in [Threads -> Ids \cup {NoSaga}]
  BY DEF Layer1, Locals
<1>2. CASE GetFromMemory(t) \/ LoadLookup(t) \/ LoadSaga(t)
  <2>1. step'[t] \notin {"end", "commit"} \/ NotFound(t)
    BY <1>1, <1>2 DEF GetFromMemory, LoadLookup, LoadSaga, Found, Goto
  <2>2. NotFound(t) => /\ step'[t] # "commit"
                       /\ step'[t] = "end" => entity'[t] = NoSaga
    BY <1>1 DEF NotFound, Goto
  <2>3. step'[t] = "end" => UNCHANGED <<storeVars, session, tx>>
    <3>1. CASE GetFromMemory(t)
      BY <3>1 DEF GetFromMemory
    <3>2. CASE LoadLookup(t)
      BY <1>1, <3>2 DEF LoadLookup, Goto
    <3>3. CASE LoadSaga(t)
      BY <1>1, <3>3 DEF LoadSaga, Found, Goto
    <3>4. QED
      BY <1>2, <3>1, <3>2, <3>3
  <2>4. ~ EndUnitOfWork(t) /\ ~ Invoke(t)
    BY <1>2 DEF GetFromMemory, LoadLookup, LoadSaga, EndUnitOfWork, Invoke
  <2>5. QED
    BY <2>1, <2>2, <2>3, <2>4
<1>3. CASE Invoke(t) \/ EndUnitOfWork(t)
  BY <1>1, <1>3, InvokeIds DEF EndUnitOfWork, Goto, Invoke
<1>4. CASE \/ \E m \in Messages : Receive(t, m)
           \/ HandlerThrows(t) \/ PersisterThrows(t) \/ SaveChangesThrows(t)
           \/ Commit(t) \/ CommitThrows(t)
  BY <1>1, <1>3, <1>4 DEF Receive, HandlerThrows, PersisterThrows, SaveChangesThrows, Commit,
     CommitThrows, GiveBack, Release, Goto
<1>5. QED
  BY <1>2, <1>3, <1>4 DEF Process

LEMMA HandledBy ==
  ASSUME Layer1, NEW t \in Threads, Process(t)
  PROVE  \/ handledBy' = handledBy
         \/ /\ Commit(t) /\ step[t] = "commit" /\ message[t] \in Messages
            /\ handledBy' = [handledBy EXCEPT ![message[t]] = entity[t]]
<1>1. CASE Commit(t)
  BY <1>1 DEF Commit, Layer1, Locals
<1>2. CASE ~ Commit(t)
  BY <1>2 DEF Process, Receive, GetFromMemory, LoadLookup, LoadSaga, Invoke, HandlerThrows,
     PersisterThrows, EndUnitOfWork, SaveChangesThrows, CommitThrows, GiveBack, messageVars
<1>3. QED
  BY <1>1, <1>2

LEMMA FreshAloneStep == Layer1 /\ FreshAlone /\ [Next]_vars => FreshAlone'
<1> SUFFICES ASSUME Layer1, FreshAlone, [Next]_vars PROVE FreshAlone'
  OBVIOUS
<1>1. CASE UNCHANGED vars
  BY <1>1 DEF vars, threadVars, messageVars, FreshAlone, Busy
<1>2. CASE Restart
  BY <1>2 DEF Restart, FreshAlone
<1>3. ASSUME NEW t \in Threads, Process(t) PROVE FreshAlone'
  <2>0. /\ step \in [Threads -> Steps] /\ handledBy \in [Messages -> Ids \cup {NoSaga}]
        /\ entity \in [Threads -> Ids \cup {NoSaga}]
    BY DEF Layer1, Locals, Tallies
  <2> SUFFICES ASSUME NEW u \in Threads, step'[u] = "invoke", ~ persistent'[u]
               PROVE  /\ \A m \in Messages : handledBy'[m] # entity'[u]
                      /\ \A w \in Threads \ {u} : step'[w] \in Busy => entity'[w] # entity'[u]
    BY DEF FreshAlone, Busy
  <2>1. CASE u = t
    <3>1. Free(entity'[t])
      BY <1>3, <2>1, ComesToInvoke
    <3>2. ~ Commit(t)
      BY <2>0, <2>1 DEF Commit, Release, Goto
    <3>3. handledBy' = handledBy
      BY <1>3, <3>2, HandledBy
    <3>4. \A w \in Threads \ {t} : entity'[w] = entity[w]
      BY <1>3, OthersKeep
    <3>5. QED
      BY <2>1, <3>1, <3>3, <3>4 DEF Free
  <2>2. CASE u # t
    <3>1. /\ step[u] = "invoke" /\ ~ persistent[u] /\ entity'[u] = entity[u]
          /\ \A w \in Threads \ {t} : entity'[w] = entity[w] /\ step'[w] = step[w]
      BY <1>3, <2>2, OthersKeep
    <3>2. /\ \A m \in Messages : handledBy[m] # entity[u]
          /\ \A w \in Threads \ {u} : step[w] \in Busy => entity[w] # entity[u]
      BY <3>1 DEF FreshAlone
    <3>3. \A m \in Messages : handledBy'[m] # entity[u]
      BY <1>3, <2>0, <2>2, <3>2, HandledBy DEF Busy
    <3>4. step'[t] \in Busy => entity'[t] # entity[u]
      <4>1. Unknown(entity[u]) /\ entity[u] # NoSaga /\ ~ Free(entity[u])
        BY <3>1, SagasAssumption DEF Layer1, FreshInHand, InHand, Free
      <4>2. CASE step'[t] = "invoke"
        BY <1>3, <4>1, <4>2, ComesToInvoke DEF Unknown
      <4>3. CASE step'[t] \in {"end", "commit"}
        BY <1>3, <2>2, <3>2, <4>1, <4>3, ComesToEnd DEF Invoke, EndUnitOfWork, Busy
      <4>4. QED
        BY <4>2, <4>3 DEF Busy
    <3>5. QED
      BY <3>1, <3>3, <3>4, <3>2
  <2>3. QED
    BY <2>1, <2>2
<1>4. QED
  BY <1>1, <1>2, <1>3 DEF Next

LEMMA Layer5Init == Init => Layer5
  BY DEF Init, Layer5, Holding, FreshAlone

LEMMA Layer5Step == Layer1 /\ Layer5 /\ [Next]_vars => Layer5'
  BY HoldingStep, FreshAloneStep DEF Layer5
-----------------------------------------------------------------------------
(* Layer 6: an object in memory has all that was done to it, by messages   *)
(* that are handled or about to be.                                        *)

ObjectsInclude ==
  \A i \in DOMAIN data :
    /\ \A m \in Messages : handledBy[m] = i => m \in data[i].applied
    /\ \A t \in Threads : step[t] \in {"end", "commit"} /\ entity[t] = i =>
         message[t] \in data[i].applied

Layer6 == persister = "InMemory" => ObjectsInclude

LEMMA ObjectsGrow ==
  ASSUME Layer1, persister = "InMemory", NEW t \in Threads, Process(t), ~ Invoke(t)
  PROVE  \A i \in DOMAIN data' : i \in DOMAIN data /\ data[i].applied \subseteq data'[i].applied
<1>1. CASE data' = data
  BY <1>1
<1>2. ASSUME NEW c, Apply(c), DOMAIN c.puts = {}, c.drops = {}
      PROVE  \A i \in DOMAIN data' : i \in DOMAIN data /\ data'[i] = data[i]
  BY <1>2 DEF Apply, Merge, Without
<1>3. CASE EndUnitOfWork(t)
  <2>1. PICK c : c = Batch(t)
    OBVIOUS
  <2>2. DOMAIN c.puts = {} /\ c.drops = {}
    BY <2>1, BatchTyped DEF Layer1, NoSessions, Sessions, SessionOK
  <2>3. Apply(c) \/ UNCHANGED storeVars
    BY <1>3, <2>1 DEF EndUnitOfWork, Change
  <2>4. QED
    BY <1>1, <1>2, <2>2, <2>3 DEF storeVars
<1>4. CASE Commit(t)
  <2>1. PICK c : c = tx[t]
    OBVIOUS
  <2>2. DOMAIN c.puts = {} /\ c.drops = {} /\ Apply(c)
    BY <1>4, <2>1 DEF Layer1, NoSessions, Commit
  <2>3. QED
    BY <1>2, <2>2
<1>5. CASE HandlerThrows(t) \/ PersisterThrows(t)
  <2>1. ASSUME NEW w, step[t] = "invoke", persistent[t],
               data' = With(data, entity[t], Effect(data[entity[t]], message[t], w))
        PROVE  \A i \in DOMAIN data' :
                 i \in DOMAIN data /\ data[i].applied \subseteq data'[i].applied
    <3>1. entity[t] \in DOMAIN data
      BY <2>1 DEF Layer1, InHand
    <3>2. DOMAIN data' = DOMAIN data
      BY <2>1, <3>1 DEF With
    <3>3. \A i \in DOMAIN data : data'[i].applied =
            IF i = entity[t] THEN data[i].applied \cup {message[t]} ELSE data[i].applied
      BY <2>1, <3>1 DEF With, Effect
    <3>4. QED
      BY <3>2, <3>3
  <2>2. \/ data' = data
        \/ /\ step[t] = "invoke" /\ persistent[t]
           /\ \E w : data' = With(data, entity[t], Effect(data[entity[t]], message[t], w))
    BY <1>5 DEF HandlerThrows, PersisterThrows, LeaveObject, storeVars
  <2>3. QED
    BY <1>1, <2>1, <2>2
<1>6. CASE \/ \E m \in Messages : Receive(t, m)
           \/ GetFromMemory(t) \/ LoadLookup(t) \/ LoadSaga(t)
           \/ SaveChangesThrows(t) \/ CommitThrows(t)
  BY <1>1, <1>6 DEF Receive, GetFromMemory, LoadLookup, LoadSaga, SaveChangesThrows,
     CommitThrows, storeVars
<1>7. QED
  BY <1>3, <1>4, <1>5, <1>6 DEF Process

LEMMA ObjectsInvokedInclude ==
  ASSUME Layer1, FreshAlone, persister = "InMemory", ObjectsInclude,
         NEW t \in Threads, Process(t), Invoke(t)
  PROVE  ObjectsInclude'
<1>1. /\ step[t] = "invoke" /\ entity[t] \in Ids /\ message[t] \in Messages
      /\ step' = [step EXCEPT ![t] = "end"]
      /\ UNCHANGED <<message, entity, handledBy>>
      /\ step \in [Threads -> Steps]
  BY InvokeIds, InHandInvoke DEF Invoke, messageVars, Layer1, Locals
<1>2. PICK w \in Values, completed \in BOOLEAN : InvokeInMemory(t, w, completed)
  BY DEF Invoke, Save, Update, Complete
<1>3. PICK i, d : /\ i = entity[t]
                  /\ d = IF persistent[t] THEN Effect(data[i], message[t], w)
                         ELSE Created(message[t])
  OBVIOUS
<1>4. data' = Without(data, {i}) \/ data' = With(data, i, d)
  BY <1>2, <1>3 DEF InvokeInMemory
<1>5. ASSUME NEW j \in DOMAIN data', j # i PROVE j \in DOMAIN data /\ data'[j] = data[j]
  BY <1>4, <1>5 DEF With, Without
<1>6. i \in DOMAIN data' => data'[i] = d
  BY <1>4 DEF With, Without
<1>7. message[t] \in d.applied
  BY <1>3 DEF Effect, Created
<1>8. CASE persistent[t]
  <2>1. i \in DOMAIN data /\ data[i].applied \subseteq d.applied
    BY <1>1, <1>3, <1>8 DEF Layer1, InHand, Effect
  <2>2. QED
    BY <1>1, <1>3, <1>5, <1>6, <1>7, <2>1 DEF ObjectsInclude
<1>9. CASE ~ persistent[t]
  <2>1. /\ \A m \in Messages : handledBy[m] # i
        /\ \A u \in Threads \ {t} : step[u] \in Busy => entity[u] # i
    BY <1>1, <1>3, <1>9 DEF FreshAlone
  <2>2. QED
    BY <1>1, <1>3, <1>5, <1>6, <1>7, <2>1 DEF ObjectsInclude, Busy
<1>10. QED
  BY <1>8, <1>9

LEMMA Layer6Step == Layer1 /\ Layer5 /\ Layer6 /\ [Next]_vars => Layer6'
<1> SUFFICES ASSUME Layer1, FreshAlone, [Next]_vars, persister = "InMemory", ObjectsInclude
             PROVE  ObjectsInclude'
  BY SameConfiguration DEF Layer5, Layer6, configVars
<1>1. CASE UNCHANGED vars
  BY <1>1 DEF vars, storeVars, threadVars, messageVars, ObjectsInclude
<1>2. CASE Restart
  BY <1>2, Domains DEF Restart, ObjectsInclude
<1>3. ASSUME NEW t \in Threads, Process(t), ~ Invoke(t) PROVE ObjectsInclude'
  <2>1. \A i \in DOMAIN data' :
          i \in DOMAIN data /\ i \in Ids /\ data[i].applied \subseteq data'[i].applied
    BY <1>3, ObjectsGrow DEF Layer1, Stored, IsPartial
  <2>2. ASSUME NEW i \in DOMAIN data', NEW m \in Messages, handledBy'[m] = i
        PROVE  m \in data'[i].applied
    <3>1. handledBy[m] = i \/ (step[t] = "commit" /\ m = message[t] /\ entity[t] = i)
      BY <1>3, <2>2, HandledBy DEF Layer1, Tallies
    <3>2. QED
      BY <2>1, <3>1 DEF ObjectsInclude
  <2>3. ASSUME NEW i \in DOMAIN data', NEW u \in Threads,
               step'[u] \in {"end", "commit"}, entity'[u] = i
        PROVE  message'[u] \in data'[i].applied
    <3>1. /\ step[u] \in {"end", "commit"} /\ entity[u] = i /\ message'[u] = message[u]
      <4>1. CASE u # t
        BY <1>3, <2>3, <4>1, OthersKeep
      <4>2. CASE u = t
        <5>1. entity'[t] # NoSaga
          BY <2>1, <2>3, <4>2, SagasAssumption
        <5>2. EndUnitOfWork(t) /\ entity' = entity /\ message' = message
          BY <1>3, <2>3, <4>2, <5>1, ComesToEnd
        <5>3. QED
          BY <2>3, <4>2, <5>2 DEF EndUnitOfWork
      <4>3. QED
        BY <4>1, <4>2
    <3>2. QED
      BY <2>1, <3>1 DEF ObjectsInclude
  <2>4. QED
    BY <2>2, <2>3 DEF ObjectsInclude
<1>4. QED
  BY <1>1, <1>2, <1>3, ObjectsInvokedInclude DEF Next
-----------------------------------------------------------------------------
(* Layer 7: with Raven nobody overwrites what was done to a saga: who has  *)
(* not an old version of it has all of it.  Without the transaction of the *)
(* message it is there when the unit of work has ended.                    *)

Handlings(i) ==
  {m \in Messages : handledBy[m] = i} \cup
  {message[t] : t \in {u \in Threads : ~ ambient /\ step[u] = "commit" /\ entity[u] = i}}

Includes(f, S) == \A i \in S : Handlings(i) \subseteq f[i].applied

(* What a thread has done to the saga in its hand will get into the store. *)
Carried(t) ==
  entity[t] # NoSaga =>
    /\ step[t] = "end" =>
         \/ Dead(entity[t])
         \/ /\ entity[t] \in session[t].changed \cup session[t].removed
            /\ message[t] \in session[t].entities[entity[t]].applied
    /\ step[t] = "commit" /\ ambient =>
         \/ Dead(entity[t])
         \/ entity[t] \in tx[t].drops
         \/ entity[t] \in DOMAIN tx[t].puts /\ message[t] \in tx[t].puts[entity[t]].applied

Included ==
  /\ Includes(data, saved)
  /\ \A t \in Threads :
       /\ Includes(session[t].entities, DOMAIN session[t].entities \ session[t].stale)
       /\ Includes(tx[t].puts, DOMAIN tx[t].puts)
       /\ Carried(t)

Layer7 == Raven => Included

(* The step at which a message counts as handled by a saga.                *)
Counts(t) == IF ambient THEN Commit(t) ELSE EndUnitOfWork(t)

LEMMA HandlingsStep ==
  ASSUME Layer1, NEW t \in Threads, Process(t), NEW i \in Ids, NEW m \in Handlings(i)'
  PROVE  m \in Handlings(i) \/ (Counts(t) /\ entity[t] = i /\ m = message[t])
<1>1. ambient' = ambient
  BY SameConfiguration DEF configVars, Next
<1>2. ASSUME m \in Messages, handledBy'[m] = i
      PROVE  m \in Handlings(i) \/ (Counts(t) /\ entity[t] = i /\ m = message[t])
  <2>1. CASE handledBy[m] = i
    BY <1>2, <2>1 DEF Handlings
  <2>2. CASE handledBy[m] # i
    <3>1. Commit(t) /\ step[t] = "commit" /\ m = message[t] /\ entity[t] = i
      BY <1>2, <2>2, HandledBy DEF Layer1, Tallies
    <3>2. QED
      BY <3>1 DEF Counts, Handlings
  <2>3. QED
    BY <2>1, <2>2
<1>3. ASSUME NEW u \in Threads, ~ ambient', step'[u] = "commit", entity'[u] = i,
             m = message'[u]
      PROVE  m \in Handlings(i) \/ (Counts(t) /\ entity[t] = i /\ m = message[t])
  <2>1. CASE u = t
    <3>1. EndUnitOfWork(t) /\ entity' = entity /\ message' = message
      BY <1>3, <2>1, ComesToEnd
    <3>2. QED
      BY <1>1, <1>3, <2>1, <3>1 DEF Counts
  <2>2. CASE u # t
    <3>1. step[u] = "commit" /\ entity[u] = i /\ m = message[u]
      BY <1>3, <2>2, OthersKeep
    <3>2. QED
      BY <1>1, <1>3, <3>1 DEF Handlings
  <2>3. QED
    BY <2>1, <2>2
<1>4. QED
  BY <1>2, <1>3 DEF Handlings

(* The other threads at a step at which nothing counts.                    *)
LEMMA OthersCarry ==
  ASSUME Layer1, Raven, NEW t \in Threads, Process(t), NEW u \in Threads \ {t}, Carried(u)
  PROVE  Carried(u)'
<1>1. /\ step'[u] = step[u] /\ message'[u] = message[u] /\ entity'[u] = entity[u]
      /\ tx'[u] = tx[u]
      /\ session'[u].entities = session[u].entities
      /\ session'[u].changed = session[u].changed
      /\ session'[u].removed = session[u].removed
  BY OthersKeep
<1>2. ambient' = ambient
  BY SameConfiguration DEF configVars, Next
<1>3. ASSUME Dead(entity[u]) PROVE Dead(entity[u])'
  <2>1. PICK i : i = entity[u]
    OBVIOUS
  <2>2. Dead(i)'
    BY <1>3, <2>1, StaysDead DEF Free
  <2>3. entity'[u] = i
    BY <1>1, <2>1
  <2>4. QED
    BY <2>2, <2>3 DEF Dead
<1>4. QED
  BY <1>1, <1>2, <1>3 DEF Carried

LEMMA SmallerHandlings ==
  ASSUME Layer1, Raven, Included, NEW t \in Threads, Process(t), ~ Counts(t),
         saved' = saved, \A i \in saved : data'[i] = data[i],
         \A i \in DOMAIN session'[t].entities \ session'[t].stale :
           i \in Ids /\ Handlings(i) \subseteq session'[t].entities[i].applied,
         \A i \in DOMAIN tx'[t].puts :
           i \in Ids /\ Handlings(i) \subseteq tx'[t].puts[i].applied,
         Carried(t)'
  PROVE  Included'
<1>1. \A i \in Ids : Handlings(i)' \subseteq Handlings(i)
  BY HandlingsStep
<1>2. Includes(data, saved)'
  <2>1. saved \subseteq Ids
    BY DEF Layer1, Stored, IsPartial
  <2>2. \A i \in saved : Handlings(i) \subseteq data[i].applied
    BY DEF Included, Includes
  <2>3. QED
    BY <1>1, <2>1, <2>2 DEF Includes
<1>3. ASSUME NEW u \in Threads
      PROVE  /\ Includes(session[u].entities, DOMAIN session[u].entities \ session[u].stale)'
             /\ Includes(tx[u].puts, DOMAIN tx[u].puts)'
             /\ Carried(u)'
  <2>1. CASE u = t
    BY <1>1, <2>1 DEF Includes
  <2>2. CASE u # t
    <3>1. /\ session'[u].entities = session[u].entities
          /\ session[u].stale \subseteq session'[u].stale
          /\ tx'[u] = tx[u]
      BY <2>2, OthersKeep
    <3>2. /\ \A i \in DOMAIN session[u].entities : i \in Ids
          /\ \A i \in DOMAIN tx[u].puts : i \in Ids
      BY DEF Layer1, Sessions, SessionOK, Transactions, ChangesOK, IsPartial
    <3>3. Includes(session[u].entities, DOMAIN session[u].entities \ session[u].stale)'
      BY <1>1, <3>1, <3>2 DEF Included, Includes
    <3>4. Includes(tx[u].puts, DOMAIN tx[u].puts)'
      BY <1>1, <3>1, <3>2 DEF Included, Includes
    <3>5. Carried(u)'
      BY <2>2, OthersCarry DEF Included
    <3>6. QED
      BY <3>3, <3>4, <3>5
  <2>3. QED
    BY <2>1, <2>2
<1>4. QED
  BY <1>2, <1>3 DEF Included

LEMMA InvokedIncluded ==
  ASSUME Layer1, FreshAlone, Raven, Included, NEW t \in Threads, Process(t), Invoke(t)
  PROVE  Included'
<1>1. /\ step[t] = "invoke" /\ step'[t] = "end" /\ entity[t] \in Ids
      /\ UNCHANGED <<message, entity, persistent>>
      /\ \A u \in Threads \ {t} : session'[u] = session[u] /\ tx'[u] = tx[u]
      /\ persistent[t] => entity[t] \in DOMAIN session[t].entities
      /\ message[t] \in Messages
  <2>1. step[t] = "invoke"
    BY DEF Invoke
  <2>2. QED
    BY <2>1, InvokeIds, InHandInvoke DEF Raven, Layer1, Locals
<1>2. ~ Counts(t)
  BY <1>1 DEF Counts, Commit, EndUnitOfWork
<1>3. PICK i, m : i = entity[t] /\ m = message[t]
  OBVIOUS
<1>4. /\ saved' = saved /\ \A j \in saved : data'[j] = data[j]
      /\ DOMAIN tx'[t].puts = DOMAIN tx[t].puts
      /\ \A j \in DOMAIN tx[t].puts : tx'[t].puts[j] = tx[t].puts[j]
      /\ session'[t].stale = session[t].stale
  BY InvokedInRaven
<1>5. /\ \A j \in DOMAIN session[t].entities : j \in Ids
      /\ \A j \in DOMAIN tx[t].puts : j \in Ids
      /\ \A j \in DOMAIN session[t].entities \ session[t].stale :
           Handlings(j) \subseteq session[t].entities[j].applied
      /\ \A j \in DOMAIN tx[t].puts : Handlings(j) \subseteq tx[t].puts[j].applied
  BY DEF Layer1, Sessions, SessionOK, Transactions, ChangesOK, IsPartial, Included, Includes
<1>6. ~ persistent[t] => /\ Unknown(i) /\ Handlings(i) = {}
                         /\ \A u \in Threads \ {t} : step[u] = "invoke" => entity[u] # i
  BY <1>1, <1>3 DEF FreshAlone, Handlings, Busy, Layer1, FreshInHand
<1>7. CASE ~ persistent[t] /\ session' = session
  <2>1. Dead(i)'
    <3>1. \A u \in Threads : tx'[u].puts = tx[u].puts \/ DOMAIN tx'[u].puts = DOMAIN tx[u].puts
      BY <1>1, <1>4
    <3>2. \A u \in Threads \ {t} : step'[u] = step[u] /\ entity'[u] = entity[u]
      BY OthersKeep
    <3>3. QED
      BY <1>1, <1>3, <1>4, <1>6, <1>7, <3>1, <3>2 DEF Dead, Unknown
  <2>2. Carried(t)'
    <3>1. entity'[t] = i
      BY <1>1, <1>3
    <3>2. Dead(entity[t])'
      BY <2>1, <3>1 DEF Dead
    <3>3. QED
      BY <1>1, <3>2 DEF Carried
  <2>3. QED
    BY <1>2, <1>4, <1>5, <1>7, <2>2, SmallerHandlings
<1>8. ASSUME NEW d, i \in session'[t].changed \cup session'[t].removed,
             session'[t].entities = With(session[t].entities, i, d),
             IF persistent[t] THEN \E w \in Values : d = Effect(session[t].entities[i], m, w)
             ELSE d = Created(m)
      PROVE  Included'
  <2>1. m \in d.applied
    BY <1>8 DEF Effect, Created
  <2>2. /\ DOMAIN session'[t].entities = DOMAIN session[t].entities \cup {i}
        /\ session'[t].entities[i] = d
        /\ \A j \in DOMAIN session[t].entities \ {i} :
             session'[t].entities[j] = session[t].entities[j]
    BY <1>8 DEF With
  <2>3. i \in session[t].stale \/ Handlings(i) \subseteq d.applied
    <3>1. CASE persistent[t]
      BY <1>1, <1>3, <1>5, <1>8, <3>1 DEF Effect
    <3>2. CASE ~ persistent[t]
      BY <1>6, <3>2
    <3>3. QED
      BY <3>1, <3>2
  <2>4. \A j \in DOMAIN session'[t].entities \ session'[t].stale :
          j \in Ids /\ Handlings(j) \subseteq session'[t].entities[j].applied
    BY <1>1, <1>3, <1>4, <1>5, <2>2, <2>3
  <2>5. Carried(t)'
    <3>1. entity'[t] = i /\ message'[t] = m
      BY <1>1, <1>3
    <3>2. QED
      BY <1>1, <1>8, <2>1, <2>2, <3>1 DEF Carried
  <2>6. QED
    BY <1>2, <1>4, <1>5, <2>4, <2>5, SmallerHandlings
<1>9. QED
  BY <1>3, <1>7, <1>8, InvokedInRaven

LEMMA FoundIncluded ==
  ASSUME Layer1, Raven, Included, NEW t \in Threads, Process(t),
         (\E m \in Messages : Receive(t, m)) \/ LoadLookup(t) \/ LoadSaga(t)
  PROVE  Included'
<1>1. /\ saved' = saved /\ data' = data /\ tx' = tx
      /\ step[t] \notin {"end", "commit"} /\ step \in [Threads -> Steps]
  BY DEF Receive, LoadLookup, LoadSaga, storeVars, Layer1, Locals
<1>2. ~ Counts(t) /\ ~ Invoke(t)
  BY <1>1 DEF Counts, Commit, EndUnitOfWork, Receive, LoadLookup, LoadSaga, Invoke
<1>3. Carried(t)'
  <2>1. step'[t] # "commit" /\ (step'[t] = "end" => entity'[t] = NoSaga)
    BY <1>1, <1>2, ComesToEnd DEF EndUnitOfWork
  <2>2. QED
    BY <2>1 DEF Carried
<1>4. /\ \A j \in DOMAIN session[t].entities : j \in Ids
      /\ \A j \in DOMAIN tx[t].puts : j \in Ids
      /\ \A j \in DOMAIN session[t].entities \ session[t].stale :
           Handlings(j) \subseteq session[t].entities[j].applied
      /\ \A j \in DOMAIN tx[t].puts : Handlings(j) \subseteq tx[t].puts[j].applied
      /\ \A j \in saved : j \in Ids /\ Handlings(j) \subseteq data[j].applied
      /\ DOMAIN session = Threads /\ DOMAIN session[t] = Fields
  BY DEF Layer1, Stored, Sessions, SessionOK, Transactions, ChangesOK, IsPartial, Included,
     Includes
<1>5. \A i \in DOMAIN session'[t].entities \ session'[t].stale :
        i \in Ids /\ Handlings(i) \subseteq session'[t].entities[i].applied
  <2>1. CASE session'[t].entities = session[t].entities /\ session'[t].stale = session[t].stale
    BY <1>4, <2>1
  <2>2. ASSUME NEW j \in saved, session' = [session EXCEPT ![t].entities = With(@, j, data[j])]
        PROVE  \A i \in DOMAIN session'[t].entities \ session'[t].stale :
                 i \in Ids /\ Handlings(i) \subseteq session'[t].entities[i].applied
    <3>1. /\ session'[t].entities = With(session[t].entities, j, data[j])
          /\ session'[t].stale = session[t].stale
      BY <1>4, <2>2 DEF Fields
    <3>2. /\ DOMAIN session'[t].entities = DOMAIN session[t].entities \cup {j}
          /\ session'[t].entities[j] = data[j]
          /\ \A i \in DOMAIN session[t].entities \ {j} :
               session'[t].entities[i] = session[t].entities[i]
      BY <3>1 DEF With
    <3>3. QED
      BY <1>4, <3>1, <3>2
  <2>3. ASSUME NEW v, NEW j, session' = [session EXCEPT ![t].lookups = With(@, v, j)]
        PROVE  session'[t].entities = session[t].entities /\ session'[t].stale = session[t].stale
    BY <1>4, <2>3 DEF Fields
  <2>4. \/ session' = session
        \/ \E j \in saved : session' = [session EXCEPT ![t].entities = With(@, j, data[j])]
        \/ \E v, j : session' = [session EXCEPT ![t].lookups = With(@, v, j)]
    BY DEF Receive, LoadLookup, LoadSaga
  <2>5. QED
    BY <2>1, <2>2, <2>3, <2>4
<1>6. QED
  BY <1>1, <1>2, <1>3, <1>4, <1>5, SmallerHandlings

(* The attempt has failed, or there was nothing left to commit.            *)
LEMMA ReleasedIncluded ==
  ASSUME Layer1, Raven, Included, NEW t \in Threads, Process(t), ~ Counts(t),
         \/ HandlerThrows(t) \/ PersisterThrows(t) \/ SaveChangesThrows(t)
         \/ CommitThrows(t) \/ (Commit(t) /\ tx[t] = NoChanges)
  PROVE  Included'
<1>1. /\ DOMAIN session = Threads /\ DOMAIN session[t] = Fields /\ SessionOK(session[t])
      /\ \A j \in DOMAIN session[t].entities : j \in Ids
      /\ \A j \in DOMAIN session[t].entities \ session[t].stale :
           Handlings(j) \subseteq session[t].entities[j].applied
  BY DEF Layer1, Sessions, SessionOK, IsPartial, Included, Includes
<1>2. /\ tx'[t] = NoChanges /\ entity'[t] = NoSaga
  BY DEF HandlerThrows, PersisterThrows, SaveChangesThrows, CommitThrows, Commit, GiveBack,
     Release, Layer1, Transactions, Locals
<1>3. Carried(t)'
  BY <1>2 DEF Carried
<1>4. DOMAIN tx'[t].puts = {}
  BY <1>2, NoChangesReady
<1>5. saved' = saved /\ \A j \in saved : data'[j] = data[j]
  <2>1. CASE UNCHANGED storeVars
    BY <2>1 DEF storeVars
  <2>2. ASSUME NEW c, Apply(c), DOMAIN c.puts = {}, c.drops = {}
        PROVE  saved' = saved /\ \A j \in saved : data'[j] = data[j]
    BY <2>2 DEF Apply, Merge, Without, Layer1, Stored
  <2>3. CASE Commit(t) /\ tx[t] = NoChanges
    BY <2>2, <2>3, NoChangesReady DEF Commit
  <2>4. CASE PersisterThrows(t)
    <3>1. UNCHANGED storeVars \/ \E f : Apply([NoChanges EXCEPT !.links = f])
      BY <2>4 DEF PersisterThrows, Raven
    <3>2. ASSUME NEW f, NEW c, c = [NoChanges EXCEPT !.links = f]
          PROVE  c.puts = Nothing /\ c.drops = {}
      BY <3>2 DEF NoChanges
    <3>3. QED
      BY <2>1, <2>2, <3>1, <3>2, Domains
  <2>5. QED
    BY <2>1, <2>3, <2>4 DEF HandlerThrows, LeaveObject, SaveChangesThrows, CommitThrows, Raven,
       storeVars
<1>6. \A i \in DOMAIN session'[t].entities \ session'[t].stale :
        i \in Ids /\ Handlings(i) \subseteq session'[t].entities[i].applied
  <2>1. CASE session'[t] = NewSession
    BY <2>1, NewSessionBased
  <2>2. CASE SaveChangesThrows(t)
    <3>1. /\ session'[t].entities = Without(session[t].entities, session[t].removed)
          /\ session'[t].stale = session[t].stale \ session[t].removed
      BY <1>1, <2>2 DEF SaveChangesThrows, Fields
    <3>2. /\ DOMAIN session'[t].entities = DOMAIN session[t].entities \ session[t].removed
          /\ \A i \in DOMAIN session'[t].entities :
               session'[t].entities[i] = session[t].entities[i]
      BY <3>1 DEF Without
    <3>3. QED
      BY <1>1, <3>1, <3>2
  <2>3. CASE session' = session
    BY <1>1, <2>3
  <2>4. CASE Commit(t)
    <3>1. /\ session'[t].entities = session[t].entities
          /\ session[t].stale \subseteq session'[t].stale
      BY <1>1, <2>4 DEF Commit, Outdate, Fields
    <3>2. QED
      BY <1>1, <3>1
  <2>5. QED
    BY <1>1, <2>1, <2>2, <2>3, <2>4 DEF HandlerThrows, PersisterThrows, CommitThrows
<1>7. QED
  BY <1>3, <1>4, <1>5, <1>6, SmallerHandlings

(* The unit of work ends, and the transaction will put what it has sent.   *)
LEMMA EndedIncluded ==
  ASSUME Layer1, Layer2, Raven, ambient, Included, NEW t \in Threads, Process(t), EndUnitOfWork(t)
  PROVE  Included'
<1>1. /\ step[t] = "end" /\ step'[t] = "commit" /\ ~ Conflict(t)
      /\ session'[t] = NewSession /\ UNCHANGED <<saved, data, message, entity>>
      /\ tx'[t].puts = Merge(Batch(t).puts, tx[t].puts)
      /\ ambient' = ambient
  BY DEF EndUnitOfWork, Change, Goto, configVars, storeVars, Layer1, Transactions, Locals
<1>2. ~ Counts(t)
  BY <1>1 DEF Counts, Commit
<1>3. PICK s, b, c : s = session[t] /\ b = Batch(t) /\ c = tx'[t]
  OBVIOUS
<1>4. /\ SessionOK(s) /\ \A j \in DOMAIN s.entities : j \in Ids
      /\ \A j \in DOMAIN s.entities \ s.stale : Handlings(j) \subseteq s.entities[j].applied
      /\ \A j \in DOMAIN tx[t].puts : j \in Ids /\ Handlings(j) \subseteq tx[t].puts[j].applied
  BY <1>3 DEF Layer1, Sessions, SessionOK, Transactions, ChangesOK, IsPartial, Included, Includes
<1>5. /\ DOMAIN b.puts = s.changed \ s.removed
      /\ \A i \in DOMAIN b.puts : i \in DOMAIN s.entities /\ b.puts[i] = s.entities[i]
      /\ (s.changed \cup s.removed) \cap s.stale = {}
  <2>1. b.puts = Without(s.entities, DOMAIN s.entities \ (s.changed \ s.removed))
    BY <1>3 DEF Batch, NoChanges
  <2>2. QED
    BY <1>1, <1>3, <2>1, BatchTyped DEF Without, Conflict
<1>6. /\ DOMAIN c.puts = DOMAIN b.puts \cup DOMAIN tx[t].puts
      /\ \A i \in DOMAIN c.puts :
           c.puts[i] = IF i \in DOMAIN b.puts THEN b.puts[i] ELSE tx[t].puts[i]
  BY <1>1, <1>3 DEF Merge
<1>7. \A i \in DOMAIN c.puts : i \in Ids /\ Handlings(i) \subseteq c.puts[i].applied
  BY <1>4, <1>5, <1>6
<1>8. Carried(t)'
  <2>1. PICK i, m : i = entity[t] /\ m = message[t]
    OBVIOUS
  <2>2. entity'[t] = i /\ message'[t] = m
    BY <1>1, <2>1
  <2>3. SUFFICES ASSUME i # NoSaga
                 PROVE  \/ Dead(i)' \/ i \in c.drops
                        \/ i \in DOMAIN c.puts /\ m \in c.puts[i].applied
    BY <1>1, <1>3, <2>2 DEF Carried, Dead
  <2>4. \/ Dead(i)
        \/ i \in s.changed \cup s.removed /\ m \in s.entities[i].applied
    BY <1>1, <1>3, <2>1, <2>3 DEF Included, Carried
  <2>5. CASE Dead(i)
    BY <2>1, <2>5, StaysDead DEF Free
  <2>6. CASE i \in s.removed
    BY <1>3, <2>6, EndWrites DEF Layer2, Enlisted
  <2>7. CASE i \in s.changed \ s.removed /\ m \in s.entities[i].applied
    BY <1>5, <1>6, <2>7
  <2>8. QED
    BY <2>4, <2>5, <2>6, <2>7
<1>9. DOMAIN session'[t].entities = {}
  BY <1>1, NewSessionBased
<1>10. QED
  BY <1>1, <1>2, <1>3, <1>7, <1>8, <1>9, SmallerHandlings

(* A message counts as handled when the changes c are made, which have     *)
(* what it has done.                                                       *)
LEMMA CountedIncluded ==
  ASSUME Layer1, Raven, Included, NEW t \in Threads, Process(t),
         NEW c, ChangesOK(c), Apply(c),
         \A i \in DOMAIN c.puts : Handlings(i) \subseteq c.puts[i].applied,
         NEW e, NEW m, e = entity[t], m = message[t],
         \/ e = NoSaga
         \/ Dead(e) /\ e \notin DOMAIN c.puts
         \/ e \in c.drops
         \/ e \in DOMAIN c.puts /\ m \in c.puts[e].applied,
         tx'[t] = NoChanges, Carried(t)',
         \A u \in Threads :
           \/ u = t /\ DOMAIN session'[u].entities = {}
           \/ session'[u] = Outdate(session[u], c),
         \A u \in Threads \ {t} : Written(u) \cap (DOMAIN c.puts \cup c.drops) = {}
  PROVE  Included'
<1>1. ASSUME NEW i \in Ids, NEW n \in Handlings(i)'
      PROVE  n \in Handlings(i) \/ (i = e /\ n = m)
  BY <1>1, HandlingsStep
<1>2. e \in Ids => Dead(e) \/ e \in c.drops \cup DOMAIN c.puts
  BY SagasAssumption
<1>3. /\ saved' = (saved \cup DOMAIN c.puts) \ c.drops
      /\ \A i \in saved' : data'[i] = IF i \in DOMAIN c.puts THEN c.puts[i] ELSE data[i]
      /\ \A i \in saved' : i \in Ids
  <2>1. saved \subseteq DOMAIN data /\ saved \subseteq Ids /\ DOMAIN c.puts \subseteq Ids
    BY DEF Layer1, Stored, IsPartial, ChangesOK
  <2>2. QED
    BY <2>1 DEF Apply, Without, Merge
<1>4. Includes(data, saved)'
  <2> SUFFICES ASSUME NEW i \in saved', NEW n \in Handlings(i)' PROVE n \in data'[i].applied
    BY DEF Includes
  <2>1. CASE i \in DOMAIN c.puts
    BY <1>1, <1>3, <2>1, SagasAssumption
  <2>2. CASE i \notin DOMAIN c.puts
    <3>1. i # e
      BY <1>2, <1>3, <2>2 DEF Dead
    <3>2. QED
      BY <1>1, <1>3, <2>2, <3>1 DEF Included, Includes
  <2>3. QED
    BY <2>1, <2>2
<1>5. ASSUME NEW u \in Threads
      PROVE  Includes(session[u].entities, DOMAIN session[u].entities \ session[u].stale)'
  <2>1. CASE DOMAIN session'[u].entities = {}
    BY <2>1 DEF Includes
  <2>2. CASE session'[u] = Outdate(session[u], c)
    <3>1. /\ session'[u].entities = session[u].entities
          /\ session'[u].stale = session[u].stale \cup
               (DOMAIN session[u].entities \cap (DOMAIN c.puts \cup c.drops))
      BY <2>2 DEF Outdate, Layer1, Sessions, Fields
    <3>2. SUFFICES ASSUME NEW i \in DOMAIN session'[u].entities \ session'[u].stale,
                          NEW n \in Handlings(i)'
                   PROVE  n \in session'[u].entities[i].applied
      BY DEF Includes
    <3>3. i \in Ids /\ Handlings(i) \subseteq session[u].entities[i].applied
      BY <3>1, <3>2 DEF Layer1, Sessions, SessionOK, IsPartial, Included, Includes
    <3>4. i # e
      BY <1>2, <3>1, <3>2, <3>3 DEF Dead
    <3>5. QED
      BY <1>1, <3>1, <3>2, <3>3, <3>4
  <2>3. QED
    BY <2>1, <2>2
<1>6. ASSUME NEW u \in Threads PROVE Includes(tx[u].puts, DOMAIN tx[u].puts)'
  <2>1. CASE u = t
    BY <2>1, NoChangesReady DEF Includes
  <2>2. CASE u # t
    <3>1. tx'[u] = tx[u]
      BY <2>2, OthersKeep
    <3>2. SUFFICES ASSUME NEW i \in DOMAIN tx[u].puts, NEW n \in Handlings(i)'
                   PROVE  n \in tx[u].puts[i].applied
      BY <3>1 DEF Includes
    <3>3. i \in Ids /\ Handlings(i) \subseteq tx[u].puts[i].applied
      BY <3>2 DEF Layer1, Transactions, ChangesOK, IsPartial, Included, Includes
    <3>4. i # e
      BY <1>2, <2>2, <3>2, <3>3 DEF Dead, Written
    <3>5. QED
      BY <1>1, <3>2, <3>3, <3>4
  <2>3. QED
    BY <2>1, <2>2
<1>7. ASSUME NEW u \in Threads PROVE Carried(u)'
  BY <1>7, OthersCarry DEF Included
<1>8. QED
  BY <1>4, <1>5, <1>6, <1>7 DEF Included

LEMMA CommittedIncluded ==
  ASSUME Layer1, Layer2, Raven, ambient, Included, NEW t \in Threads, Process(t), Commit(t)
  PROVE  Included'
<1>1. PICK c, e, m : c = tx[t] /\ e = entity[t] /\ m = message[t]
  OBVIOUS
<1>2. /\ step[t] = "commit" /\ Apply(c) /\ tx'[t] = NoChanges /\ entity'[t] = NoSaga
      /\ \A u \in Threads : session'[u] = Outdate(session[u], c)
      /\ ChangesOK(c)
  BY <1>1 DEF Commit, Release, Layer1, Transactions, Locals
<1>3. Carried(t)'
  BY <1>2 DEF Carried
<1>4. \A i \in DOMAIN c.puts : Handlings(i) \subseteq c.puts[i].applied
  BY <1>1 DEF Included, Includes
<1>5. \/ e = NoSaga \/ Dead(e) \/ e \in c.drops
      \/ e \in DOMAIN c.puts /\ m \in c.puts[e].applied
  BY <1>1, <1>2 DEF Included, Carried
<1>6. Dead(e) => e \notin DOMAIN c.puts
  BY <1>1 DEF Dead
<1>7. \A u \in Threads \ {t} : Written(u) \cap (DOMAIN c.puts \cup c.drops) = {}
  BY <1>1 DEF Layer2, Enlisted, OneWriter, Written
<1>8. QED
  BY <1>1, <1>2, <1>3, <1>4, <1>5, <1>6, <1>7, CountedIncluded

LEMMA SavedIncluded ==
  ASSUME Layer1, Documents, Raven, ~ ambient, Included, NEW t \in Threads, Process(t),
         EndUnitOfWork(t)
  PROVE  Included'
<1>1. PICK c, e, m, s : c = Batch(t) /\ e = entity[t] /\ m = message[t] /\ s = session[t]
  OBVIOUS
<1>2. /\ step[t] = "end" /\ step'[t] = "commit" /\ ~ Conflict(t) /\ Apply(c) /\ tx' = tx
      /\ session'[t] = NewSession /\ ambient' = ambient /\ DOMAIN session = Threads
      /\ \A u \in Threads \ {t} : session'[u] = Outdate(session[u], c)
      /\ \A u \in Threads : tx[u] = NoChanges
  BY <1>1 DEF EndUnitOfWork, Change, Goto, configVars, Layer1, Locals, Sessions, Documents
<1>3. /\ ChangesOK(c) /\ c.drops = s.removed /\ SessionOK(s)
      /\ DOMAIN c.puts = s.changed \ s.removed
      /\ c.puts = Without(s.entities, DOMAIN s.entities \ (s.changed \ s.removed))
      /\ (s.changed \cup s.removed) \cap s.stale = {}
  BY <1>1, <1>2, BatchTyped DEF Batch, NoChanges, Conflict, Layer1, Sessions
<1>4. \A i \in DOMAIN c.puts : i \in DOMAIN s.entities \ s.stale /\ c.puts[i] = s.entities[i]
  BY <1>3 DEF Without, SessionOK
<1>5. \A i \in DOMAIN c.puts : Handlings(i) \subseteq c.puts[i].applied
  BY <1>1, <1>4 DEF Included, Includes
<1>6. Carried(t)'
  BY <1>2 DEF Carried
<1>7. \/ e = NoSaga \/ Dead(e)
      \/ e \in s.changed \cup s.removed /\ m \in s.entities[e].applied
  BY <1>1, <1>2 DEF Included, Carried
<1>8. Dead(e) => e \notin DOMAIN c.puts
  BY <1>1, <1>4 DEF Dead
<1>9. \A u \in Threads : Written(u) = {}
  BY <1>2, NoChangesReady DEF Written
<1>10. DOMAIN session'[t].entities = {} /\ tx'[t] = NoChanges
  BY <1>2, NewSessionBased
<1>11. \/ e = NoSaga \/ (Dead(e) /\ e \notin DOMAIN c.puts) \/ e \in c.drops
       \/ e \in DOMAIN c.puts /\ m \in c.puts[e].applied
  BY <1>3, <1>4, <1>7, <1>8
<1>12. QED
  BY <1>1, <1>2, <1>3, <1>5, <1>6, <1>9, <1>10, <1>11, CountedIncluded

LEMMA RestartIncluded ==
  ASSUME Layer1, Raven, Included, Restart
  PROVE  Included'
<1>1. /\ saved' = saved /\ data' = data /\ handledBy' = handledBy
      /\ \A t \in Threads : /\ session'[t] = NewSession /\ tx'[t] = NoChanges
                            /\ step'[t] = "idle" /\ entity'[t] = NoSaga
  BY DEF Restart, Raven
<1>2. \A i \in saved : Handlings(i)' \subseteq Handlings(i)
  BY <1>1 DEF Handlings
<1>3. Includes(data, saved)'
  BY <1>1, <1>2 DEF Included, Includes
<1>4. \A t \in Threads : DOMAIN session'[t].entities = {} /\ DOMAIN tx'[t].puts = {}
  BY <1>1, NewSessionBased, NoChangesReady
<1>5. \A t \in Threads : Carried(t)'
  BY <1>1 DEF Carried
<1>6. QED
  BY <1>3, <1>4, <1>5 DEF Included, Includes

LEMMA Layer7Init == Init => Layer7
<1> SUFFICES ASSUME Init PROVE Included
  BY DEF Layer7
<1>1. /\ saved = {}
      /\ \A t \in Threads : /\ session[t] = NewSession /\ tx[t] = NoChanges
                            /\ entity[t] = NoSaga
  BY DEF Init
<1>2. \A t \in Threads : DOMAIN session[t].entities = {} /\ DOMAIN tx[t].puts = {}
  BY <1>1, NewSessionBased, NoChangesReady
<1>3. QED
  BY <1>1, <1>2 DEF Included, Includes, Carried

LEMMA Layer7Step == Layer1 /\ Layer2 /\ Layer3 /\ Layer5 /\ Layer7 /\ [Next]_vars => Layer7'
<1> SUFFICES ASSUME Layer1, Layer2, Documents, FreshAlone, Raven, Included, [Next]_vars
             PROVE  Included'
  BY SameConfiguration DEF Layer3, Layer5, Layer7, Raven, configVars
<1>1. CASE UNCHANGED vars
  BY <1>1 DEF vars, configVars, storeVars, threadVars, messageVars, Included, Includes, Carried,
     Handlings, Dead
<1>2. ASSUME NEW t \in Threads, Process(t) PROVE Included'
  <2>1. ~ GetFromMemory(t)
    BY DEF GetFromMemory, Raven
  <2>2. CASE EndUnitOfWork(t)
    BY <1>2, <2>2, EndedIncluded, SavedIncluded
  <2>3. CASE Commit(t)
    <3>1. CASE ambient
      BY <1>2, <2>3, <3>1, CommittedIncluded
    <3>2. CASE ~ ambient
      <4>1. tx[t] = NoChanges /\ ~ Counts(t)
        BY <2>3, <3>2 DEF Documents, Counts, Commit, EndUnitOfWork
      <4>2. QED
        BY <1>2, <2>3, <4>1, ReleasedIncluded
    <3>3. QED
      BY <3>1, <3>2
  <2>4. CASE HandlerThrows(t) \/ PersisterThrows(t) \/ SaveChangesThrows(t) \/ CommitThrows(t)
    <3>1. CASE Counts(t)
      BY <2>2, <2>3, <3>1 DEF Counts
    <3>2. CASE ~ Counts(t)
      BY <1>2, <2>4, <3>2, ReleasedIncluded
    <3>3. QED
      BY <3>1, <3>2
  <2>5. QED
    BY <1>2, <2>1, <2>2, <2>3, <2>4, FoundIncluded, InvokedIncluded DEF Process
<1>3. QED
  BY <1>1, <1>2, RestartIncluded DEF Next
-----------------------------------------------------------------------------
(* Layer 8: with Raven and the transaction of the message, what is in the  *)
(* data of a saga is there because the message was handled by the saga, or *)
(* is about to be, or because its SaveChanges has thrown.                  *)

Explained(d, M, S) ==
  /\ d.applied \subseteq M \cup S
  /\ d.repeated => d.applied \cap S # {}

Done(i) == {m \in Messages : handledBy[m] = i}

InWork(t, i, s) == IF step[t] = s /\ entity[t] = i THEN {message[t]} ELSE {}

Accounted ==
  /\ \A i \in saved : Explained(data[i], Done(i), spoiled)
  /\ \A t \in Threads :
       /\ \A i \in DOMAIN session[t].entities :
            Explained(session[t].entities[i], Done(i) \cup InWork(t, i, "end"), spoiled)
       /\ \A i \in DOMAIN tx[t].puts :
            Explained(tx[t].puts[i], Done(i) \cup InWork(t, i, "commit"), spoiled)
       /\ step[t] = "commit" => DOMAIN session[t].entities = {}

Layer8 == Enlisted => Accounted

LEMMA StaysExplained ==
  ASSUME NEW d, NEW M, NEW S, NEW N, NEW T, Explained(d, M, S), S \subseteq T, M \subseteq N \cup T
  PROVE  Explained(d, N, T)
  BY DEF Explained

(* What has explained something goes on doing so.                          *)
LEMMA StaysDone ==
  ASSUME Layer1, Holding, NEW t \in Threads, Process(t)
  PROVE  /\ spoiled \subseteq spoiled' /\ \A i \in Ids : Done(i) \subseteq Done(i)'
         /\ \A u \in Threads \ {t} : \A i, s : InWork(u, i, s)' = InWork(u, i, s)
<1>1. spoiled \subseteq spoiled'
  BY DEF Process, Receive, GetFromMemory, LoadLookup, LoadSaga, Invoke, HandlerThrows,
     PersisterThrows, EndUnitOfWork, SaveChangesThrows, Commit, CommitThrows, messageVars
<1>2. ASSUME NEW i \in Ids, NEW m \in Messages, handledBy[m] = i PROVE handledBy'[m] = i
  <2>1. CASE handledBy' = handledBy
    BY <1>2, <2>1
  <2>2. CASE /\ message[t] \in Messages
             /\ handledBy' = [handledBy EXCEPT ![message[t]] = entity[t]]
    <3>1. m # message[t]
      BY <1>2, <2>2, MessagesAssumption, SagasAssumption DEF Holding
    <3>2. QED
      BY <1>2, <2>2, <3>1 DEF Layer1, Tallies
  <2>3. QED
    BY <2>1, <2>2, HandledBy
<1>3. \A u \in Threads \ {t} :
        step'[u] = step[u] /\ message'[u] = message[u] /\ entity'[u] = entity[u]
  BY OthersKeep
<1>4. QED
  BY <1>1, <1>2, <1>3 DEF Done, InWork

LEMMA OthersAccount ==
  ASSUME Layer1, Holding, Accounted, NEW t \in Threads, Process(t),
         \A i \in saved' : Explained(data'[i], Done(i)', spoiled'),
         \A i \in DOMAIN session'[t].entities :
           Explained(session'[t].entities[i], Done(i)' \cup InWork(t, i, "end")', spoiled'),
         \A i \in DOMAIN tx'[t].puts :
           Explained(tx'[t].puts[i], Done(i)' \cup InWork(t, i, "commit")', spoiled'),
         step'[t] = "commit" => DOMAIN session'[t].entities = {}
  PROVE  Accounted'
<1>1. ASSUME NEW u \in Threads \ {t}
      PROVE  /\ \A i \in DOMAIN session'[u].entities :
                  Explained(session'[u].entities[i], Done(i)' \cup InWork(u, i, "end")', spoiled')
             /\ \A i \in DOMAIN tx'[u].puts :
                  Explained(tx'[u].puts[i], Done(i)' \cup InWork(u, i, "commit")', spoiled')
             /\ step'[u] = "commit" => DOMAIN session'[u].entities = {}
  <2>1. /\ step'[u] = step[u] /\ tx'[u] = tx[u]
        /\ session'[u].entities = session[u].entities
    BY OthersKeep
  <2>2. /\ \A i \in DOMAIN session[u].entities : i \in Ids
        /\ \A i \in DOMAIN tx[u].puts : i \in Ids
    BY DEF Layer1, Sessions, SessionOK, Transactions, ChangesOK, IsPartial
  <2>3. ASSUME NEW i \in DOMAIN session[u].entities
        PROVE  Explained(session[u].entities[i], Done(i)' \cup InWork(u, i, "end")', spoiled')
    <3>1. Explained(session[u].entities[i], Done(i) \cup InWork(u, i, "end"), spoiled)
      BY DEF Accounted
    <3>2. /\ Done(i) \cup InWork(u, i, "end") \subseteq Done(i)' \cup InWork(u, i, "end")'
          /\ spoiled \subseteq spoiled'
      BY <2>2, StaysDone
    <3>3. QED
      BY <3>1, <3>2, StaysExplained
  <2>4. ASSUME NEW i \in DOMAIN tx[u].puts
        PROVE  Explained(tx[u].puts[i], Done(i)' \cup InWork(u, i, "commit")', spoiled')
    <3>1. Explained(tx[u].puts[i], Done(i) \cup InWork(u, i, "commit"), spoiled)
      BY DEF Accounted
    <3>2. /\ Done(i) \cup InWork(u, i, "commit") \subseteq Done(i)' \cup InWork(u, i, "commit")'
          /\ spoiled \subseteq spoiled'
      BY <2>2, StaysDone
    <3>3. QED
      BY <3>1, <3>2, StaysExplained
  <2>5. step[u] = "commit" => DOMAIN session[u].entities = {}
    BY DEF Accounted
  <2>6. QED
    BY <2>1, <2>3, <2>4, <2>5
<1>2. QED
  BY <1>1 DEF Accounted

(* The sagas in the store, when no transaction commits.                    *)
LEMMA StoreAccounted ==
  ASSUME Layer1, Holding, Enlisted, Accounted, NEW t \in Threads, Process(t), ~ Commit(t)
  PROVE  \A i \in saved' : Explained(data'[i], Done(i)', spoiled')
<1>1. saved' = saved /\ \A i \in saved : data'[i] = data[i]
  <2>1. CASE Invoke(t)
    BY <2>1, InvokedInRaven DEF Enlisted
  <2>2. CASE ~ Invoke(t)
    <3>1. UNCHANGED storeVars \/ PersisterThrows(t)
      BY <2>2 DEF Process, Receive, GetFromMemory, LoadLookup, LoadSaga, HandlerThrows, LeaveObject,
         EndUnitOfWork, Change, SaveChangesThrows, CommitThrows, Enlisted, Raven, storeVars
    <3>2. PersisterThrows(t) => UNCHANGED storeVars
      BY DEF PersisterThrows, Enlisted, Raven, storeVars
    <3>3. QED
      BY <3>1, <3>2 DEF storeVars
  <2>3. QED
    BY <2>1, <2>2
<1>2. \A i \in saved : i \in Ids /\ Explained(data[i], Done(i), spoiled)
  BY DEF Layer1, Stored, IsPartial, Accounted
<1>3. QED
  BY <1>1, <1>2, StaysDone, StaysExplained

LEMMA FoundAccounted ==
  ASSUME Layer1, Holding, Enlisted, Accounted, NEW t \in Threads, Process(t),
         (\E m \in Messages : Receive(t, m)) \/ LoadLookup(t) \/ LoadSaga(t)
  PROVE  Accounted'
<1>1. /\ step[t] \notin {"end", "commit"} /\ step \in [Threads -> Steps] /\ tx' = tx
      /\ DOMAIN session = Threads /\ DOMAIN session[t] = Fields
  BY DEF Receive, LoadLookup, LoadSaga, Layer1, Locals, Sessions
<1>2. ~ Commit(t) /\ ~ EndUnitOfWork(t)
  BY <1>1 DEF Commit, EndUnitOfWork
<1>3. step'[t] # "commit"
  BY <1>2, ComesToEnd
<1>4. \A i : InWork(t, i, "end") = {} /\ InWork(t, i, "commit") = {}
  BY <1>1 DEF InWork
<1>5. /\ \A i \in DOMAIN session[t].entities :
           i \in Ids /\ Explained(session[t].entities[i], Done(i), spoiled)
      /\ \A i \in DOMAIN tx[t].puts : i \in Ids /\ Explained(tx[t].puts[i], Done(i), spoiled)
      /\ \A i \in saved : i \in Ids /\ Explained(data[i], Done(i), spoiled)
  <2>1. /\ DOMAIN session[t].entities \subseteq Ids /\ DOMAIN tx[t].puts \subseteq Ids
        /\ saved \subseteq Ids
    BY DEF Layer1, Stored, Sessions, SessionOK, Transactions, ChangesOK, IsPartial
  <2>2. /\ \A i \in DOMAIN session[t].entities :
             Explained(session[t].entities[i], Done(i) \cup {}, spoiled)
        /\ \A i \in DOMAIN tx[t].puts : Explained(tx[t].puts[i], Done(i) \cup {}, spoiled)
        /\ \A i \in saved : Explained(data[i], Done(i), spoiled)
    BY <1>4 DEF Accounted
  <2>3. \A i : Done(i) \cup {} = Done(i)
    OBVIOUS
  <2>4. QED
    BY <2>1, <2>2, <2>3
<1>6. \A i \in DOMAIN session'[t].entities :
        i \in Ids /\ Explained(session'[t].entities[i], Done(i), spoiled)
  <2>1. ASSUME NEW j \in saved, session' = [session EXCEPT ![t].entities = With(@, j, data[j])]
        PROVE  \A i \in DOMAIN session'[t].entities :
                 i \in Ids /\ Explained(session'[t].entities[i], Done(i), spoiled)
    <3>1. session'[t].entities = With(session[t].entities, j, data[j])
      BY <1>1, <2>1 DEF Fields
    <3>2. /\ DOMAIN session'[t].entities = DOMAIN session[t].entities \cup {j}
          /\ session'[t].entities[j] = data[j]
          /\ \A i \in DOMAIN session[t].entities \ {j} :
               session'[t].entities[i] = session[t].entities[i]
      BY <3>1 DEF With
    <3>3. QED
      BY <1>5, <3>2
  <2>2. ASSUME NEW v, NEW j, session' = [session EXCEPT ![t].lookups = With(@, v, j)]
        PROVE  session'[t].entities = session[t].entities
    BY <1>1, <2>2 DEF Fields
  <2>3. \/ session' = session
        \/ \E j \in saved : session' = [session EXCEPT ![t].entities = With(@, j, data[j])]
        \/ \E v, j : session' = [session EXCEPT ![t].lookups = With(@, v, j)]
    BY DEF Receive, LoadLookup, LoadSaga
  <2>4. QED
    BY <1>5, <2>1, <2>2, <2>3
<1>7. \A i \in DOMAIN session'[t].entities :
        Explained(session'[t].entities[i], Done(i)' \cup InWork(t, i, "end")', spoiled')
  BY <1>6, StaysDone, StaysExplained
<1>8. \A i \in DOMAIN tx'[t].puts :
        Explained(tx'[t].puts[i], Done(i)' \cup InWork(t, i, "commit")', spoiled')
  BY <1>1, <1>5, StaysDone, StaysExplained
<1>9. QED
  BY <1>2, <1>3, <1>7, <1>8, StoreAccounted, OthersAccount

LEMMA InvokedAccounted ==
  ASSUME Layer1, Layer2, Holding, Enlisted, Accounted, NEW t \in Threads, Process(t), Invoke(t)
  PROVE  Accounted'
<1>1. /\ step[t] = "invoke" /\ step'[t] = "end" /\ entity[t] \in Ids /\ message[t] \in Messages
      /\ UNCHANGED <<message, entity>> /\ ~ Commit(t)
      /\ persistent[t] => entity[t] \in DOMAIN session[t].entities
  <2>1. step[t] = "invoke"
    BY DEF Invoke
  <2>2. QED
    BY <2>1, InvokeIds, InHandInvoke DEF Enlisted, Raven, Layer1, Locals, Commit
<1>2. PICK i, m : i = entity[t] /\ m = message[t]
  OBVIOUS
<1>3. \A j : /\ InWork(t, j, "end") = {}
             /\ InWork(t, j, "end")' = IF i = j THEN {m} ELSE {}
  BY <1>1, <1>2 DEF InWork
<1>4. \A j \in DOMAIN session[t].entities :
        j \in Ids /\ Explained(session[t].entities[j], Done(j), spoiled)
  BY <1>3 DEF Layer1, Sessions, SessionOK, IsPartial, Accounted
<1>5. DOMAIN tx'[t].puts = {}
  BY <1>1, InvokedInRaven DEF Enlisted, Layer2, WrittenLate, Written
<1>6. m \notin Done(i)
  BY <1>1, <1>2, MessagesAssumption, SagasAssumption DEF Done, Holding
<1>7. /\ spoiled \subseteq spoiled' /\ \A j \in Ids : Done(j) \subseteq Done(j)'
  BY StaysDone
<1>8. \A j \in DOMAIN session'[t].entities :
        Explained(session'[t].entities[j], Done(j)' \cup InWork(t, j, "end")', spoiled')
  <2>1. CASE session' = session
    BY <1>4, <1>7, <2>1, StaysExplained
  <2>2. ASSUME NEW d,
               session'[t].entities = With(session[t].entities, i, d),
               IF persistent[t] THEN \E w \in Values : d = Effect(session[t].entities[i], m, w)
               ELSE d = Created(m)
        PROVE  \A j \in DOMAIN session'[t].entities :
                 Explained(session'[t].entities[j], Done(j)' \cup InWork(t, j, "end")', spoiled')
    <3>1. /\ DOMAIN session'[t].entities = DOMAIN session[t].entities \cup {i}
          /\ session'[t].entities[i] = d
          /\ \A j \in DOMAIN session[t].entities \ {i} :
               session'[t].entities[j] = session[t].entities[j]
      BY <2>2 DEF With
    <3>2. Explained(d, Done(i) \cup {m}, spoiled)
      <4>1. CASE persistent[t]
        <5>1. PICK e, w : e = session[t].entities[i] /\ d = Effect(e, m, w)
          BY <2>2, <4>1
        <5>2. /\ d.applied = e.applied \cup {m} /\ Explained(e, Done(i), spoiled)
              /\ d.repeated => e.repeated \/ m \in e.applied
          BY <1>1, <1>2, <1>4, <4>1, <5>1 DEF Effect
        <5>3. QED
          BY <1>6, <5>2 DEF Explained
      <4>2. CASE ~ persistent[t]
        BY <2>2, <4>2 DEF Explained, Created
      <4>3. QED
        BY <4>1, <4>2
    <3>3. Explained(d, Done(i)' \cup InWork(t, i, "end")', spoiled')
      BY <1>1, <1>2, <1>3, <1>7, <3>2, StaysExplained
    <3>4. ASSUME NEW j \in DOMAIN session[t].entities \ {i}
          PROVE  Explained(session'[t].entities[j], Done(j)' \cup InWork(t, j, "end")', spoiled')
      BY <1>4, <1>7, <3>1, StaysExplained
    <3>5. QED
      BY <3>1, <3>3, <3>4
  <2>3. QED
    BY <1>2, <2>1, <2>2, InvokedInRaven DEF Enlisted
<1>9. QED
  BY <1>1, <1>5, <1>8, StoreAccounted, OthersAccount

LEMMA EndedAccounted ==
  ASSUME Layer1, Layer2, Holding, Enlisted, Accounted, NEW t \in Threads, Process(t),
         EndUnitOfWork(t)
  PROVE  Accounted'
<1>1. PICK s, b : s = session[t] /\ b = Batch(t)
  OBVIOUS
<1>2. /\ step[t] = "end" /\ step'[t] = "commit" /\ session'[t] = NewSession
      /\ UNCHANGED <<message, entity>> /\ ~ Commit(t)
      /\ tx'[t].puts = Merge(b.puts, tx[t].puts)
      /\ DOMAIN tx[t].puts = {}
  BY <1>1 DEF EndUnitOfWork, Change, Goto, Enlisted, Layer1, Transactions, Locals, Commit, Layer2,
     WrittenLate, Written
<1>3. /\ SessionOK(s)
      /\ b.puts = Without(s.entities, DOMAIN s.entities \ (s.changed \ s.removed))
  BY <1>1 DEF Batch, NoChanges, Layer1, Sessions
<1>4. \A i \in DOMAIN tx'[t].puts : i \in DOMAIN s.entities /\ tx'[t].puts[i] = s.entities[i]
  BY <1>2, <1>3 DEF Merge, Without
<1>5. \A i : InWork(t, i, "commit")' = InWork(t, i, "end")
  BY <1>2 DEF InWork
<1>6. \A i \in DOMAIN s.entities :
        i \in Ids /\ Explained(s.entities[i], Done(i) \cup InWork(t, i, "end"), spoiled)
  BY <1>1 DEF Layer1, Sessions, SessionOK, IsPartial, Accounted
<1>7. ASSUME NEW i \in DOMAIN tx'[t].puts
      PROVE  Explained(tx'[t].puts[i], Done(i)' \cup InWork(t, i, "commit")', spoiled')
  <2>1. /\ tx'[t].puts[i] = s.entities[i] /\ i \in Ids
        /\ Explained(s.entities[i], Done(i) \cup InWork(t, i, "end"), spoiled)
    BY <1>4, <1>6
  <2>2. /\ Done(i) \cup InWork(t, i, "end") \subseteq Done(i)' \cup InWork(t, i, "commit")'
        /\ spoiled \subseteq spoiled'
    BY <1>5, <2>1, StaysDone
  <2>3. QED
    BY <2>1, <2>2, StaysExplained
<1>8. DOMAIN session'[t].entities = {}
  BY <1>2, NewSessionBased
<1>9. QED
  BY <1>2, <1>7, <1>8, StoreAccounted, OthersAccount

LEMMA ReleasedAccounted ==
  ASSUME Layer1, Holding, Enlisted, Accounted, NEW t \in Threads, Process(t),
         HandlerThrows(t) \/ PersisterThrows(t) \/ SaveChangesThrows(t) \/ CommitThrows(t)
  PROVE  Accounted'
<1>1. /\ tx'[t] = NoChanges /\ step'[t] = "idle" /\ ~ Commit(t)
      /\ DOMAIN session = Threads /\ DOMAIN session[t] = Fields
  <2>1. GiveBack(t)
    BY DEF HandlerThrows, PersisterThrows, SaveChangesThrows, CommitThrows
  <2>2. /\ tx'[t] = NoChanges /\ step'[t] = "idle"
        /\ status' = [status EXCEPT ![message[t]] =
                        IF failures[message[t]] + 1 = MaxRetries THEN "error" ELSE "queued"]
    BY <2>1 DEF GiveBack, Release, Goto, Layer1, Transactions, Locals
  <2>3. step[t] # "idle"
    BY DEF HandlerThrows, PersisterThrows, SaveChangesThrows, CommitThrows
  <2>4. message[t] \in Messages
    BY <2>3 DEF Layer1, Locals
  <2>5. ~ Commit(t)
    BY <2>2, <2>4 DEF Commit, Layer1, Tallies
  <2>6. QED
    BY <2>2, <2>5 DEF Layer1, Sessions
<1>2. DOMAIN tx'[t].puts = {}
  BY <1>1, NoChangesReady
<1>3. \A i \in DOMAIN session'[t].entities :
        Explained(session'[t].entities[i], Done(i)' \cup InWork(t, i, "end")', spoiled')
  <2>1. CASE HandlerThrows(t) \/ PersisterThrows(t)
    <3>1. session'[t] = NewSession
      BY <1>1, <2>1 DEF HandlerThrows, PersisterThrows
    <3>2. QED
      BY <3>1, NewSessionBased
  <2>2. CASE SaveChangesThrows(t)
    <3>1. /\ session'[t].entities = Without(session[t].entities, session[t].removed)
          /\ spoiled' = spoiled \cup {message[t]}
      BY <1>1, <2>2 DEF SaveChangesThrows, Fields
    <3>2. \A i \in DOMAIN session'[t].entities :
            i \in DOMAIN session[t].entities /\ session'[t].entities[i] = session[t].entities[i]
      BY <3>1 DEF Without
    <3>3. \A i \in DOMAIN session[t].entities :
            /\ i \in Ids
            /\ Explained(session[t].entities[i], Done(i) \cup InWork(t, i, "end"), spoiled)
      BY DEF Layer1, Sessions, SessionOK, IsPartial, Accounted
    <3>4. \A i : InWork(t, i, "end") \subseteq spoiled'
      BY <3>1 DEF InWork
    <3>5. ASSUME NEW i \in DOMAIN session'[t].entities
          PROVE  Explained(session'[t].entities[i], Done(i)' \cup InWork(t, i, "end")', spoiled')
      <4>1. /\ Done(i) \cup InWork(t, i, "end") \subseteq
                 (Done(i)' \cup InWork(t, i, "end")') \cup spoiled'
            /\ spoiled \subseteq spoiled'
        BY <3>2, <3>3, <3>4, StaysDone
      <4>2. Explained(session[t].entities[i], Done(i) \cup InWork(t, i, "end"), spoiled)
        BY <3>2, <3>3
      <4>3. QED
        BY <3>2, <4>1, <4>2, StaysExplained
    <3>6. QED
      BY <3>5
  <2>3. CASE CommitThrows(t)
    BY <2>3 DEF CommitThrows, Accounted
  <2>4. QED
    BY <2>1, <2>2, <2>3
<1>4. QED
  BY <1>1, <1>2, <1>3, StoreAccounted, OthersAccount

LEMMA CommittedAccounted ==
  ASSUME Layer1, Holding, Enlisted, Accounted, NEW t \in Threads, Process(t), Commit(t)
  PROVE  Accounted'
<1>1. PICK c : c = tx[t]
  OBVIOUS
<1>2. /\ step[t] = "commit" /\ step'[t] = "idle" /\ Apply(c) /\ tx'[t] = NoChanges
      /\ session'[t] = Outdate(session[t], c) /\ ChangesOK(c)
      /\ handledBy' = [handledBy EXCEPT ![message[t]] = entity[t]]
      /\ message[t] \in Messages
  BY <1>1 DEF Commit, Release, Goto, Layer1, Transactions, Locals
<1>3. /\ \A i \in DOMAIN c.puts :
           i \in Ids /\ Explained(c.puts[i], Done(i) \cup InWork(t, i, "commit"), spoiled)
      /\ \A i \in saved : i \in Ids /\ Explained(data[i], Done(i), spoiled)
      /\ DOMAIN session[t].entities = {}
  BY <1>1, <1>2 DEF Layer1, Stored, ChangesOK, IsPartial, Accounted
<1>4. \A i : InWork(t, i, "commit") \subseteq Done(i)'
  BY <1>2 DEF InWork, Done, Layer1, Tallies
<1>5. /\ saved' = (saved \cup DOMAIN c.puts) \ c.drops
      /\ \A i \in saved' : data'[i] = IF i \in DOMAIN c.puts THEN c.puts[i] ELSE data[i]
  BY <1>2 DEF Apply, Without, Merge, Layer1, Stored
<1>6. ASSUME NEW i \in saved' PROVE Explained(data'[i], Done(i)', spoiled')
  <2>1. CASE i \in DOMAIN c.puts
    <3>1. Done(i) \cup InWork(t, i, "commit") \subseteq Done(i)'
      BY <1>3, <1>4, <2>1, StaysDone
    <3>2. data'[i] = c.puts[i] /\ spoiled \subseteq spoiled'
      BY <1>5, <1>6, <2>1, StaysDone
    <3>3. Explained(c.puts[i], Done(i) \cup InWork(t, i, "commit"), spoiled)
      BY <1>3, <2>1
    <3>4. QED
      BY <3>1, <3>2, <3>3, StaysExplained
  <2>2. CASE i \notin DOMAIN c.puts
    BY <1>3, <1>5, <1>6, <2>2, StaysDone, StaysExplained
  <2>3. QED
    BY <2>1, <2>2
<1>7. DOMAIN session'[t].entities = {}
  BY <1>2, <1>3 DEF Outdate, Layer1, Sessions, Fields
<1>8. DOMAIN tx'[t].puts = {}
  BY <1>2, NoChangesReady
<1>9. QED
  BY <1>2, <1>6, <1>7, <1>8, OthersAccount

LEMMA Layer8Init == Init => Layer8
<1> SUFFICES ASSUME Init PROVE Accounted
  BY DEF Layer8
<1>1. saved = {} /\ \A t \in Threads : session[t] = NewSession /\ tx[t] = NoChanges
  BY DEF Init
<1>2. \A t \in Threads : DOMAIN session[t].entities = {} /\ DOMAIN tx[t].puts = {}
  BY <1>1, NewSessionBased, NoChangesReady
<1>3. QED
  BY <1>1, <1>2 DEF Accounted

LEMMA Layer8Step == Layer1 /\ Layer2 /\ Layer5 /\ Layer8 /\ [Next]_vars => Layer8'
<1> SUFFICES ASSUME Layer1, Layer2, Holding, Enlisted, Accounted, [Next]_vars
             PROVE  Accounted'
  BY SameConfiguration DEF Layer5, Layer8, Enlisted, Raven, configVars
<1>1. CASE UNCHANGED vars
  BY <1>1 DEF vars, storeVars, threadVars, messageVars, Accounted, Done, InWork
<1>2. CASE Restart
  <2>1. /\ UNCHANGED <<saved, data, handledBy, spoiled>>
        /\ \A t \in Threads : session'[t] = NewSession /\ tx'[t] = NoChanges
    BY <1>2 DEF Restart, Enlisted, Raven
  <2>2. \A t \in Threads : DOMAIN session'[t].entities = {} /\ DOMAIN tx'[t].puts = {}
    BY <2>1, NewSessionBased, NoChangesReady
  <2>3. QED
    BY <2>1, <2>2 DEF Accounted, Done
<1>3. ASSUME NEW t \in Threads, Process(t) PROVE Accounted'
  <2>1. ~ GetFromMemory(t)
    BY DEF GetFromMemory, Enlisted, Raven
  <2>2. QED
    BY <1>3, <2>1, FoundAccounted, InvokedAccounted, EndedAccounted, ReleasedAccounted,
       CommittedAccounted DEF Process
<1>4. QED
  BY <1>1, <1>2, <1>3 DEF Next

(* What a saga did when it handled a message is in its data as long as it  *)
(* is in the store, for either persister, with or without the transaction  *)
(* of the message; and with Raven and this transaction nothing else is     *)
(* there, and nothing twice, but what SaveChanges left in a session when   *)
(* it threw: for any number of threads, messages, failures and restarts.   *)
THEOREM EffectsMatchHandledCorrect == Spec => []EffectsMatchHandled
<1>1. Init => Layer6
  BY DEF Init, Layer6, ObjectsInclude, Nothing
<1>2. Layer1 /\ Layer6 /\ Layer7 /\ Layer8 => EffectsMatchHandled
  <2> SUFFICES ASSUME Layer1, Layer6, Layer7, Layer8, NEW i \in saved
               PROVE  /\ \A m \in Messages : handledBy[m] = i => m \in data[i].applied
                      /\ persister = "Raven" /\ ambient =>
                           /\ data[i].repeated => data[i].applied \cap spoiled # {}
                           /\ \A m \in data[i].applied : handledBy[m] = i \/ m \in spoiled
    BY DEF EffectsMatchHandled
  <2>1. ASSUME NEW m \in Messages, handledBy[m] = i PROVE m \in data[i].applied
    <3>1. CASE persister = "InMemory"
      BY <2>1, <3>1 DEF Layer1, Stored, Layer6, ObjectsInclude
    <3>2. CASE Raven
      BY <2>1, <3>2 DEF Layer7, Included, Includes, Handlings
    <3>3. QED
      BY <3>1, <3>2 DEF Layer1, Configured, Raven
  <2>2. ASSUME persister = "Raven", ambient
        PROVE  /\ data[i].repeated => data[i].applied \cap spoiled # {}
               /\ \A m \in data[i].applied : handledBy[m] = i \/ m \in spoiled
    BY <2>2 DEF Layer8, Enlisted, Raven, Accounted, Explained, Done
  <2>3. QED
    BY <2>1, <2>2
<1>3. QED
  BY Layer1Correct, Layer2Init, Layer2Step, Layer3Init, Layer3Step, Layer5Init, Layer5Step,
     <1>1, Layer6Step, Layer7Init, Layer7Step, Layer8Init, Layer8Step, <1>2, PTL DEF Spec
=============================================================================
