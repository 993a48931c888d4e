-------------------- MODULE TransactionalTransportProofs --------------------
(***************************************************************************)
(* Proofs about TransactionalTransport for every set of threads, messages  *)
(* and ids, every MaxRetries and any number of disturbances.  The          *)
(* invariants are stacked: each layer is inductive given those below it.   *)
(***************************************************************************)
EXTENDS TransactionalTransport, FiniteSetTheorems, TLAPS

USE DEF Labels, Results, AllModes

-----------------------------------------------------------------------------
(* Layer 1: types, with failed allowed to be negative.                     *)

Holding == {"maxRetries", "enterFault", "faultManager", "handle", "commit",
            "rollback", "increment", "clear", "clearWrite"}

Types ==
  /\ mode \in AllModes
  /\ idOf \in [Messages -> Ids] /\ idOf \in IdMaps
  /\ queue \subseteq Messages
  /\ handled \subseteq Messages
  /\ dropped \subseteq Messages
  /\ errorQueue \in [Messages -> Nat]
  /\ pc \in [Threads -> Labels]
  /\ msg \in [Threads -> Messages \cup {NoMessage}]
  /\ result \in [Threads -> Results]
  /\ stopRequested \in [Threads -> BOOLEAN]
  /\ failuresPerMessage \in [Ids -> Nat]
  /\ exceptionsForMessages \subseteq Ids
  /\ writer \in Threads \cup {NoThread}
  /\ failed \in [Ids -> Int]
  /\ disturbances \in Nat

(* A thread that is past Receive knows the message it received.            *)
HasMsg == \A t \in Threads : pc[t] \in Holding => msg[t] \in Messages

Layer1 == Types /\ HasMsg

LEMMA IdType ==
  ASSUME Layer1, NEW t \in Threads, pc[t] \in Holding
  PROVE  Id(t) \in Ids
  BY DEF Layer1, Types, HasMsg, Id

LEMMA Layer1Init == Init => Layer1
  BY BoundsAssumption, MessagesAssumption DEF Init, Layer1, Types, HasMsg, Holding

LEMMA Layer1Step == Layer1 /\ [Next]_vars => Layer1'
<1> SUFFICES ASSUME Layer1, [Next]_vars PROVE Layer1'
  OBVIOUS
<1> USE DEF Layer1, Types, HasMsg, Holding, Goto, threadVars, failureVars, fateVars
<1>1. CASE UNCHANGED vars
  BY <1>1 DEF vars
<1>2. CASE Crash
  <2>1. Unsettled \subseteq Messages
    BY DEF Unsettled, InFlight
  <2>2. QED
    BY <1>2, <2>1 DEF Crash, Disturb
<1>3. ASSUME NEW t \in Threads, Process(t) PROVE Layer1'
  <2>1. CASE Loop(t) \/ HasMessage(t) \/ HandledMaxRetries(t) \/ EnterWriteLock(t)
    BY <2>1 DEF Loop, HasMessage, HandledMaxRetries, EnterWriteLock
  <2>2. CASE Receive(t)
    BY <2>2 DEF Receive, ReceiveNothing, ReceiveUnreadable, ReceiveMessage
  <2>3. CASE ForwardToErrorQueue(t)
    BY <2>3, IdType DEF ForwardToErrorQueue, Forget
  <2>4. CASE ExceptionMissing(t) \/ \E r \in Results : HandleMessage(t, r)
    BY <2>4 DEF ExceptionMissing, HandleMessage
  <2>5. CASE Commit(t) \/ FindFailures(t) \/ IncrementSwallowed(t)
    BY <2>5 DEF Commit, FindFailures, IncrementSwallowed
  <2>6. CASE Rollback(t)
    BY <2>6, IdType DEF Rollback
  <2>7. CASE IncrementFailuresForMessage(t)
    <3>1. Id(t) \in Ids
      BY <2>7, IdType DEF IncrementFailuresForMessage
    <3>2. QED
      BY <2>7, <3>1 DEF IncrementFailuresForMessage
  <2>8. CASE ClearFailuresForMessage(t)
    BY <2>8, IdType DEF ClearFailuresForMessage, Forget
  <2>9. QED
    BY <1>3, <2>1, <2>2, <2>3, <2>4, <2>5, <2>6, <2>7, <2>8 DEF Process
<1>4. ASSUME NEW t \in Threads, Disturbance(t) PROVE Layer1'
  <2>1. CASE QueueUnavailable(t)
    BY <2>1 DEF QueueUnavailable, Disturb, OnCriticalError
  <2>5. CASE AbortHandlingCurrentMessage(t)
    BY <2>5 DEF AbortHandlingCurrentMessage, Disturb
  <2>2. CASE FaultManagerFails(t)
    BY <2>2, IdType DEF FaultManagerFails, Disturb, OnCriticalError, Forget
  <2>3. CASE CommitFails(t)
    BY <2>3, IdType DEF CommitFails, Disturb
  <2>4. QED
    BY <1>4, <2>1, <2>2, <2>3, <2>5 DEF Disturbance
<1>5. QED
  BY <1>1, <1>2, <1>3, <1>4 DEF Next

THEOREM Layer1Correct == Spec => []Layer1
  BY Layer1Init, Layer1Step, PTL DEF Spec

-----------------------------------------------------------------------------
(* Layer 2: the write lock and the count of failed attempts.               *)

(* The fault manager runs under the write lock, and a thread that holds    *)
(* the lock is in the fault manager or on its way to the finally block     *)
(* that releases it.                                                       *)
LockDiscipline ==
  \A t \in Threads :
    /\ pc[t] \in {"maxRetries", "enterFault", "faultManager"} => Transactional
    /\ pc[t] = "faultManager" => writer = t
    /\ writer = t => /\ Transactional
                     /\ \/ pc[t] \in {"faultManager", "increment"}
                        \/ pc[t] = "rollback" /\ result[t] = "failed"

Layer2 == LockDiscipline /\ FailuresAccounted

LEMMA UnrecordedFinite ==
  ASSUME NEW i
  PROVE  /\ IsFiniteSet(Unrecorded(i))
         /\ Cardinality(Unrecorded(i)) \in Nat
<1>1. Unrecorded(i) \in SUBSET Threads
  BY DEF Unrecorded
<1>2. QED
  BY <1>1, ThreadsAssumption, FS_Subset, FS_CardinalityType

(* A step of thread t that is neither at, nor on its way to, the increment *)
(* leaves the unrecorded failures alone.                                   *)
LEMMA UnrecordedSame ==
  ASSUME Layer1, NEW t \in Threads, NEW label,
         pc[t] # "increment" \/ writer = t,
         pc' = [pc EXCEPT ![t] = label], idOf' = idOf,
         label # "increment" \/ writer' = t,
         \A u \in Threads \ {t} : msg'[u] = msg[u] /\ (writer' = u <=> writer = u)
  PROVE  \A i : Unrecorded(i)' = Unrecorded(i)
  BY DEF Unrecorded, Layer1, Types, Id

LEMMA Layer2Init == Init => Layer2
<1> SUFFICES ASSUME Init PROVE Layer2
  OBVIOUS
<1>1. \A i : Unrecorded(i) = {}
  BY DEF Init, Unrecorded
<1>2. FailuresAccounted
  BY <1>1, FS_EmptySet DEF Init, FailuresAccounted
<1>3. LockDiscipline
  BY ThreadsAssumption DEF Init, LockDiscipline
<1>4. QED
  BY <1>2, <1>3 DEF Layer2

LEMMA Layer2Step == Layer1 /\ Layer2 /\ [Next]_vars => Layer2'
<1> SUFFICES ASSUME Layer1, Layer2, [Next]_vars PROVE Layer2'
  OBVIOUS
<1> USE ThreadsAssumption
<1> USE DEF Layer2, LockDiscipline, FailuresAccounted, Transactional, Goto, threadVars, failureVars, fateVars
<1>1. CASE UNCHANGED vars
  <2>1. \A i : Unrecorded(i)' = Unrecorded(i)
    BY <1>1 DEF vars, Unrecorded, Id
  <2>2. QED
    BY <1>1, <2>1 DEF vars
<1>2. CASE Crash
  <2>1. \A i : Unrecorded(i)' = {}
    BY <1>2 DEF Crash, Unrecorded
  <2>2. ASSUME NEW i \in Ids
        PROVE  failed'[i] = failuresPerMessage'[i] + Cardinality(Unrecorded(i)')
    <3>1. Cardinality(Unrecorded(i)') = 0
      BY <2>1, FS_EmptySet
    <3>2. QED
      BY <1>2, <3>1 DEF Crash
  <2>3. LockDiscipline'
    BY <1>2 DEF Crash
  <2>4. QED
    BY <2>2, <2>3
<1>3. ASSUME NEW t \in Threads, Process(t) PROVE Layer2'
  <2>1. CASE Loop(t)
    <3>1. \A i : Unrecorded(i)' = Unrecorded(i)
      BY <2>1, UnrecordedSame DEF Loop
    <3>2. QED
      BY <2>1, <3>1 DEF Loop, Layer1, Types
  <2>2. CASE HasMessage(t)
    <3>1. \A i : Unrecorded(i)' = Unrecorded(i)
      BY <2>2, UnrecordedSame DEF HasMessage, Layer1, Types
    <3>2. QED
      BY <2>2, <3>1 DEF HasMessage, Layer1, Types
  <2>3. CASE Receive(t)
    <3>1. \A i : Unrecorded(i)' = Unrecorded(i)
      BY <2>3, UnrecordedSame
      DEF Receive, ReceiveNothing, ReceiveUnreadable, ReceiveMessage, Layer1, Types
    <3>2. QED
      BY <2>3, <3>1
      DEF Receive, ReceiveNothing, ReceiveUnreadable, ReceiveMessage, Layer1, Types
  <2>4. CASE HandledMaxRetries(t)
    <3>1. \A i : Unrecorded(i)' = Unrecorded(i)
      BY <2>4, UnrecordedSame DEF HandledMaxRetries
    <3>2. QED
      BY <2>4, <3>1 DEF HandledMaxRetries, Layer1, Types
  <2>5. CASE EnterWriteLock(t)
    <3>1. \A i : Unrecorded(i)' = Unrecorded(i)
      BY <2>5, UnrecordedSame DEF EnterWriteLock
    <3>2. QED
      BY <2>5, <3>1 DEF EnterWriteLock, Layer1, Types
  <2>6. CASE ForwardToErrorQueue(t)
    <3>1. \A i : Unrecorded(i)' = Unrecorded(i)
      BY <2>6, UnrecordedSame DEF ForwardToErrorQueue
    <3>2. QED
      BY <2>6, <3>1, UnrecordedFinite DEF ForwardToErrorQueue, Forget, Layer1, Types
  <2>7. CASE ExceptionMissing(t)
    <3>1. \A i : Unrecorded(i)' = Unrecorded(i)
      BY <2>7, UnrecordedSame DEF ExceptionMissing
    <3>2. QED
      BY <2>7, <3>1 DEF ExceptionMissing, Layer1, Types
  <2>8. CASE \E r \in Results : HandleMessage(t, r)
    <3>1. PICK r \in Results : HandleMessage(t, r)
      BY <2>8
    <3>2. \A i : Unrecorded(i)' = Unrecorded(i)
      BY <3>1, UnrecordedSame DEF HandleMessage
    <3>3. QED
      BY <3>1, <3>2 DEF HandleMessage, Layer1, Types
  <2>9. CASE Commit(t)
    <3>1. \A i : Unrecorded(i)' = Unrecorded(i)
      BY <2>9, UnrecordedSame DEF Commit
    <3>2. QED
      BY <2>9, <3>1 DEF Commit, Layer1, Types
  <2>10. CASE Rollback(t)
    <3>1. CASE Transactional /\ result[t] = "failed" /\ writer # t
      <4>1. msg[t] \in Messages
        BY <2>10 DEF Rollback, Layer1, HasMsg, Holding
      <4>2. ASSUME NEW i \in Ids
            PROVE  failed'[i] = failuresPerMessage'[i] + Cardinality(Unrecorded(i)')
        <5>1. CASE i = Id(t)
          <6>1. Unrecorded(i)' = Unrecorded(i) \cup {t}
            BY <2>10, <3>1, <4>1, <5>1 DEF Rollback, Unrecorded, Id, Layer1, Types
          <6>2. t \notin Unrecorded(i)
            BY <2>10 DEF Rollback, Unrecorded
          <6>3. Cardinality(Unrecorded(i)') = Cardinality(Unrecorded(i)) + 1
            BY <6>1, <6>2, UnrecordedFinite, FS_AddElement
          <6>4. QED
            BY <2>10, <3>1, <5>1, <6>3, UnrecordedFinite DEF Rollback, Layer1, Types
        <5>2. CASE i # Id(t)
          <6>1. Unrecorded(i)' = Unrecorded(i)
            BY <2>10, <3>1, <5>2 DEF Rollback, Unrecorded, Id, Layer1, Types
          <6>2. QED
            BY <2>10, <3>1, <5>2, <6>1 DEF Rollback, Layer1, Types
        <5>3. QED
          BY <5>1, <5>2
      <4>3. LockDiscipline'
        BY <2>10, <3>1 DEF Rollback, Layer1, Types
      <4>4. QED
        BY <4>2, <4>3
    <3>2. CASE ~ (Transactional /\ result[t] = "failed" /\ writer # t)
      <4>1. \A i : Unrecorded(i)' = Unrecorded(i)
        BY <2>10, <3>2, UnrecordedSame DEF Rollback
      <4>2. QED
        BY <2>10, <3>2, <4>1 DEF Rollback, Layer1, Types
    <3>3. QED
      BY <3>1, <3>2
  <2>11. CASE IncrementFailuresForMessage(t)
    <3>1. msg[t] \in Messages
      BY <2>11 DEF IncrementFailuresForMessage, Layer1, HasMsg, Holding
    <3>2. ASSUME NEW i \in Ids
          PROVE  failed'[i] = failuresPerMessage'[i] + Cardinality(Unrecorded(i)')
      <4>1. CASE i = Id(t)
        <5>1. Unrecorded(i)' = Unrecorded(i) \ {t} /\ t \in Unrecorded(i)
          BY <2>11, <3>1, <4>1 DEF IncrementFailuresForMessage, Unrecorded, Id, Layer1, Types
        <5>2. Cardinality(Unrecorded(i)') = Cardinality(Unrecorded(i)) - 1
          BY <5>1, UnrecordedFinite, FS_RemoveElement
        <5>3. QED
          BY <2>11, <4>1, <5>2, UnrecordedFinite
          DEF IncrementFailuresForMessage, Layer1, Types
      <4>2. CASE i # Id(t)
        <5>1. Unrecorded(i)' = Unrecorded(i)
          BY <2>11, <4>2 DEF IncrementFailuresForMessage, Unrecorded, Id, Layer1, Types
        <5>2. QED
          BY <2>11, <4>2, <5>1 DEF IncrementFailuresForMessage, Layer1, Types
      <4>3. QED
        BY <4>1, <4>2
    <3>3. LockDiscipline'
      BY <2>11 DEF IncrementFailuresForMessage, Layer1, Types
    <3>4. QED
      BY <3>2, <3>3
  <2>12. CASE IncrementSwallowed(t)
    <3>1. \A i : Unrecorded(i)' = Unrecorded(i)
      BY <2>12, UnrecordedSame DEF IncrementSwallowed
    <3>2. QED
      BY <2>12, <3>1 DEF IncrementSwallowed, Layer1, Types
  <2>13. CASE FindFailures(t)
    <3>1. \A i : Unrecorded(i)' = Unrecorded(i)
      BY <2>13, UnrecordedSame DEF FindFailures
    <3>2. QED
      BY <2>13, <3>1 DEF FindFailures, Layer1, Types
  <2>14. CASE ClearFailuresForMessage(t)
    <3>1. \A i : Unrecorded(i)' = Unrecorded(i)
      BY <2>14, UnrecordedSame DEF ClearFailuresForMessage
    <3>2. QED
      BY <2>14, <3>1, UnrecordedFinite DEF ClearFailuresForMessage, Forget, Layer1, Types
  <2>15. QED
    BY <1>3, <2>1, <2>2, <2>3, <2>4, <2>5, <2>6, <2>7, <2>8, <2>9, <2>10, <2>11,
       <2>12, <2>13, <2>14 DEF Process
<1>4. ASSUME NEW t \in Threads, Disturbance(t) PROVE Layer2'
  <2>1. CASE QueueUnavailable(t)
    <3>1. \A i : Unrecorded(i)' = Unrecorded(i)
      BY <2>1, UnrecordedSame DEF QueueUnavailable
    <3>2. QED
      BY <2>1, <3>1 DEF QueueUnavailable, Layer1, Types
  <2>2. CASE FaultManagerFails(t)
    <3>1. \A i : Unrecorded(i)' = Unrecorded(i)
      BY <2>2, UnrecordedSame DEF FaultManagerFails
    <3>2. QED
      BY <2>2, <3>1, UnrecordedFinite DEF FaultManagerFails, Forget, Layer1, Types
  <2>3. CASE AbortHandlingCurrentMessage(t)
    <3>1. \A i : Unrecorded(i)' = Unrecorded(i)
      BY <2>3, UnrecordedSame DEF AbortHandlingCurrentMessage
    <3>2. QED
      BY <2>3, <3>1 DEF AbortHandlingCurrentMessage, Layer1, Types
  <2>4. CASE CommitFails(t)
    <3>1. msg[t] \in Messages
      BY <2>4 DEF CommitFails, Layer1, HasMsg, Holding
    <3>2. ASSUME NEW i \in Ids
          PROVE  failed'[i] = failuresPerMessage'[i] + Cardinality(Unrecorded(i)')
      <4>1. CASE i = Id(t)
        <5>1. Unrecorded(i)' = Unrecorded(i) \cup {t} /\ t \notin Unrecorded(i)
          BY <2>4, <3>1, <4>1 DEF CommitFails, Unrecorded, Id, Layer1, Types
        <5>2. Cardinality(Unrecorded(i)') = Cardinality(Unrecorded(i)) + 1
          BY <5>1, UnrecordedFinite, FS_AddElement
        <5>3. QED
          BY <2>4, <4>1, <5>2, UnrecordedFinite DEF CommitFails, Layer1, Types
      <4>2. CASE i # Id(t)
        <5>1. Unrecorded(i)' = Unrecorded(i)
          BY <2>4, <4>2 DEF CommitFails, Unrecorded, Id, Layer1, Types
        <5>2. QED
          BY <2>4, <4>2, <5>1 DEF CommitFails, Layer1, Types
      <4>3. QED
        BY <4>1, <4>2
    <3>3. LockDiscipline'
      BY <2>4 DEF CommitFails, Layer1, Types
    <3>4. QED
      BY <3>2, <3>3
  <2>5. QED
    BY <1>4, <2>1, <2>2, <2>3, <2>4 DEF Disturbance
<1>5. QED
  BY <1>1, <1>2, <1>3, <1>4 DEF Next

THEOREM Layer2Correct == Spec => []Layer2
  BY Layer1Correct, Layer2Init, Layer2Step, PTL DEF Spec

(* Every failed attempt is accounted for.                                  *)
THEOREM FailuresAccountedCorrect == Spec => []FailuresAccounted
<1>1. Layer2 => FailuresAccounted
  BY DEF Layer2
<1>2. QED
  BY Layer2Correct, <1>1, PTL

(* Every variable keeps its type; failed never goes below zero because it  *)
(* is the sum of two natural numbers.                                      *)
THEOREM TypeCorrect == Spec => []TypeOK
<1>1. Layer1 /\ Layer2 => TypeOK
  <2> SUFFICES ASSUME Layer1, Layer2 PROVE TypeOK
    OBVIOUS
  <2>1. \A i \in Ids : failed[i] \in Nat
    BY UnrecordedFinite DEF Layer1, Layer2, Types, FailuresAccounted
  <2>2. failed \in [Ids -> Nat]
    BY <2>1 DEF Layer1, Types
  <2>3. QED
    BY <2>2 DEF Layer1, Types, TypeOK
<1>2. QED
  BY Layer1Correct, Layer2Correct, <1>1, PTL

-----------------------------------------------------------------------------
(* Layer 3: the bound on the attempts.  Active(i) are the threads that may *)
(* yet add to the count of id i: they passed the check of HandledMaxRetries*)
(* or rolled back and have not recorded it.  A thread enters Active when   *)
(* the count is below MaxRetries, or has just been cleared, so count and   *)
(* active threads together never exceed MaxRetries - 1 + |Threads|.        *)

Active(i) ==
  {t \in Threads : /\ pc[t] \in {"handle", "commit", "rollback", "increment"}
                   /\ msg[t] \in Messages
                   /\ Id(t) = i}

AttemptsBounded ==
  \A i \in Ids : failuresPerMessage[i] + Cardinality(Active(i)) + 1
                   <= MaxRetries + Cardinality(Threads)

(* The two dictionaries are managed together.                              *)
DictionariesAgree ==
  \A i \in Ids : failuresPerMessage[i] > 0 <=> i \in exceptionsForMessages

(* Without transactions nothing is counted.                                *)
NothingCounted ==
  ~ Transactional =>
    /\ \A i \in Ids : failuresPerMessage[i] = 0
    /\ \A t \in Threads :
         pc[t] \notin {"maxRetries", "enterFault", "faultManager", "commit", "increment"}

Layer3 == AttemptsBounded /\ DictionariesAgree /\ NothingCounted

LEMMA ActiveFinite ==
  ASSUME NEW i
  PROVE  /\ IsFiniteSet(Active(i))
         /\ Cardinality(Active(i)) \in Nat
         /\ Cardinality(Threads) \in Nat
         /\ Cardinality(Active(i)) <= Cardinality(Threads)
<1>1. Active(i) \in SUBSET Threads
  BY DEF Active
<1>2. QED
  BY <1>1, ThreadsAssumption, FS_Subset, FS_CardinalityType

(* A step of thread t that does not make t active leaves no more active    *)
(* threads than there were.                                                *)
LEMMA ActiveShrinks ==
  ASSUME Layer1, NEW t \in Threads, NEW label, NEW i,
         pc' = [pc EXCEPT ![t] = label], idOf' = idOf,
         \/ label \notin {"handle", "commit", "rollback", "increment"}
         \/ pc[t] \in {"handle", "commit", "rollback", "increment"} /\ msg'[t] = msg[t],
         \A u \in Threads \ {t} : msg'[u] = msg[u]
  PROVE  Cardinality(Active(i)') <= Cardinality(Active(i))
<1>1. Active(i)' \in SUBSET Active(i)
  BY DEF Active, Layer1, Types, Id
<1>2. QED
  BY <1>1, ActiveFinite, FS_Subset

(* However many threads there are, they are at most |Threads|.             *)
LEMMA ActiveAtMostAll ==
  ASSUME NEW i
  PROVE  /\ Cardinality(Active(i)') \in Nat
         /\ Cardinality(Active(i)') <= Cardinality(Threads)
<1>1. Active(i)' \in SUBSET Threads
  BY DEF Active
<1>2. QED
  BY <1>1, ThreadsAssumption, FS_Subset, FS_CardinalityType

LEMMA Layer3Init == Init => Layer3
<1> SUFFICES ASSUME Init PROVE Layer3
  OBVIOUS
<1>1. ASSUME NEW i \in Ids
      PROVE  failuresPerMessage[i] + Cardinality(Active(i)) + 1
               <= MaxRetries + Cardinality(Threads)
  BY ActiveFinite, BoundsAssumption DEF Init
<1>2. QED
  BY <1>1 DEF Init, Layer3, AttemptsBounded, DictionariesAgree, NothingCounted

(* The steps that leave the dictionaries alone and make no thread active.  *)
LEMMA Layer3Quiet ==
  ASSUME Layer1, Layer3, mode' = mode, idOf' = idOf,
         failuresPerMessage' = failuresPerMessage,
         exceptionsForMessages' = exceptionsForMessages,
         \A i : Cardinality(Active(i)') <= Cardinality(Active(i)),
         Transactional \/ \A t \in Threads :
            pc'[t] \notin {"maxRetries", "enterFault", "faultManager", "commit", "increment"}
  PROVE  Layer3'
<1>1. ASSUME NEW i \in Ids
      PROVE  failuresPerMessage'[i] + Cardinality(Active(i)') + 1
               <= MaxRetries + Cardinality(Threads)
  BY ActiveFinite, ActiveAtMostAll, BoundsAssumption
  DEF Layer1, Types, Layer3, AttemptsBounded
<1>2. QED
  BY <1>1 DEF Layer3, AttemptsBounded, DictionariesAgree, NothingCounted, Transactional

(* The steps that clear the entries of the id of thread t.                 *)
LEMMA Layer3Forget ==
  ASSUME Layer1, Layer3, NEW t \in Threads, NEW label, pc[t] \in Holding,
         pc' = [pc EXCEPT ![t] = label], msg' = msg, mode' = mode, idOf' = idOf,
         Transactional \/ label = "loop",
         Forget(Id(t))
  PROVE  Layer3'
<1>1. Id(t) \in Ids
  BY IdType
<1>2. ASSUME NEW i \in Ids
      PROVE  failuresPerMessage'[i] + Cardinality(Active(i)') + 1
               <= MaxRetries + Cardinality(Threads)
  <2>1. CASE i = Id(t)
    BY <2>1, ActiveAtMostAll, ActiveFinite, BoundsAssumption DEF Forget, Layer1, Types
  <2>2. CASE i # Id(t)
    <3>1. Active(i)' \in SUBSET Active(i)
      BY <2>2 DEF Active, Id, Layer1, Types
    <3>2. Cardinality(Active(i)') <= Cardinality(Active(i))
      BY <3>1, ActiveFinite, FS_Subset
    <3>3. failuresPerMessage'[i] = failuresPerMessage[i]
      BY <2>2 DEF Forget, Layer1, Types
    <3>4. QED
      BY <3>2, <3>3, ActiveAtMostAll, ActiveFinite, BoundsAssumption
      DEF Layer1, Types, Layer3, AttemptsBounded
  <2>3. QED
    BY <2>1, <2>2
<1>3. DictionariesAgree'
  BY <1>1 DEF Forget, Layer1, Types, Layer3, DictionariesAgree
<1>4. NothingCounted'
  BY <1>1 DEF Forget, Layer1, Types, Layer3, NothingCounted, Transactional
<1>5. QED
  BY <1>2, <1>3, <1>4 DEF Layer3, AttemptsBounded

LEMMA Layer3Step == Layer1 /\ Layer2 /\ Layer3 /\ [Next]_vars => Layer3'
<1> SUFFICES ASSUME Layer1, Layer2, Layer3, [Next]_vars PROVE Layer3'
  OBVIOUS
<1> USE DEF Goto, threadVars, failureVars, fateVars
<1>1. CASE UNCHANGED vars
  <2>1. \A i : Active(i)' = Active(i)
    BY <1>1 DEF vars, Active, Id
  <2>2. QED
    BY <1>1, <2>1, ActiveFinite, Layer3Quiet
    DEF vars, Layer3, NothingCounted
<1>2. CASE Crash
  <2>1. ASSUME NEW i \in Ids
        PROVE  failuresPerMessage'[i] + Cardinality(Active(i)') + 1
                 <= MaxRetries + Cardinality(Threads)
    BY <1>2, ActiveAtMostAll, ActiveFinite, BoundsAssumption DEF Crash
  <2>2. QED
    BY <1>2, <2>1 DEF Crash, Layer3, AttemptsBounded, DictionariesAgree, NothingCounted
<1>3. ASSUME NEW t \in Threads, Process(t) PROVE Layer3'
  <2>1. CASE Loop(t)
    <3>1. \A i : Cardinality(Active(i)') <= Cardinality(Active(i))
      BY <2>1, ActiveShrinks DEF Loop
    <3>2. QED
      BY <2>1, <3>1, Layer3Quiet DEF Loop, Layer1, Types, Layer3, NothingCounted
  <2>2. CASE HasMessage(t)
    <3>1. \A i : Cardinality(Active(i)') <= Cardinality(Active(i))
      BY <2>2, ActiveShrinks DEF HasMessage, Layer1, Types
    <3>2. QED
      BY <2>2, <3>1, Layer3Quiet DEF HasMessage, Layer1, Types, Layer3, NothingCounted
  <2>3. CASE Receive(t)
    <3>1. CASE ReceiveNothing(t)
      <4>1. \A i : Cardinality(Active(i)') <= Cardinality(Active(i))
        BY <3>1, ActiveShrinks DEF ReceiveNothing
      <4>2. QED
        BY <3>1, <4>1, Layer3Quiet DEF ReceiveNothing, Layer1, Types, Layer3, NothingCounted
    <3>2. CASE \E m \in Messages : ReceiveUnreadable(t, m)
      <4>1. \A i : Cardinality(Active(i)') <= Cardinality(Active(i))
        BY <3>2, ActiveShrinks DEF ReceiveUnreadable
      <4>2. QED
        BY <3>2, <4>1, Layer3Quiet DEF ReceiveUnreadable, Layer1, Types, Layer3, NothingCounted
    <3>3. ASSUME NEW m \in Messages, NEW r \in {"none", "failed"}, ReceiveMessage(t, m, r)
          PROVE  Layer3'
      <4>1. CASE Transactional
        <5>1. \A i : Cardinality(Active(i)') <= Cardinality(Active(i))
          BY <3>3, <4>1, ActiveShrinks DEF ReceiveMessage, Layer1, Types
        <5>2. QED
          BY <3>3, <4>1, <5>1, Layer3Quiet DEF ReceiveMessage
      <4>2. CASE ~ Transactional
        <5>1. ASSUME NEW i \in Ids
              PROVE  failuresPerMessage'[i] + Cardinality(Active(i)') + 1
                       <= MaxRetries + Cardinality(Threads)
          BY <3>3, <4>2, ActiveAtMostAll, ActiveFinite, BoundsAssumption
          DEF ReceiveMessage, Layer3, NothingCounted
        <5>2. QED
          BY <3>3, <4>2, <5>1 DEF ReceiveMessage, Layer1, Types, Layer3,
             AttemptsBounded, DictionariesAgree, NothingCounted, Transactional
      <4>3. QED
        BY <4>1, <4>2
    <3>4. QED
      BY <2>3, <3>1, <3>2, <3>3 DEF Receive
  <2>4. CASE HandledMaxRetries(t)
    <3>1. CASE Exhausted(Id(t))
      <4>1. \A i : Cardinality(Active(i)') <= Cardinality(Active(i))
        BY <2>4, <3>1, ActiveShrinks DEF HandledMaxRetries
      <4>2. QED
        BY <2>4, <4>1, Layer3Quiet
        DEF HandledMaxRetries, Layer1, Types, Layer2, LockDiscipline, Layer3, NothingCounted
    <3>2. CASE ~ Exhausted(Id(t))
      <4>1. ASSUME NEW i \in Ids
            PROVE  failuresPerMessage'[i] + Cardinality(Active(i)') + 1
                     <= MaxRetries + Cardinality(Threads)
        <5>1. CASE i = Id(t)
          <6>1. failuresPerMessage[i] \in Nat /\ failuresPerMessage[i] + 1 <= MaxRetries
            BY <3>2, <5>1, BoundsAssumption DEF Exhausted, Layer1, Types
          <6>2. failuresPerMessage'[i] = failuresPerMessage[i]
            BY <2>4 DEF HandledMaxRetries
          <6>3. /\ Cardinality(Active(i)') \in Nat
                /\ Cardinality(Threads) \in Nat
                /\ Cardinality(Active(i)') <= Cardinality(Threads)
            BY ActiveAtMostAll, ActiveFinite
          <6>4. QED
            BY <6>1, <6>2, <6>3, BoundsAssumption
        <5>2. CASE i # Id(t)
          <6>1. Active(i)' = Active(i)
            BY <2>4, <5>2 DEF HandledMaxRetries, Active, Id, Layer1, Types
          <6>2. QED
            BY <2>4, <6>1 DEF HandledMaxRetries, Layer3, AttemptsBounded
        <5>3. QED
          BY <5>1, <5>2
      <4>2. QED
        BY <2>4, <4>1 DEF HandledMaxRetries, Layer1, Types, Layer2, LockDiscipline, Layer3,
           AttemptsBounded, DictionariesAgree, NothingCounted, Transactional
    <3>3. QED
      BY <3>1, <3>2
  <2>5. CASE EnterWriteLock(t)
    <3>1. \A i : Cardinality(Active(i)') <= Cardinality(Active(i))
      BY <2>5, ActiveShrinks DEF EnterWriteLock
    <3>2. QED
      BY <2>5, <3>1, Layer3Quiet DEF EnterWriteLock, Layer1, Types, Layer2, LockDiscipline
  <2>6. CASE ForwardToErrorQueue(t)
    BY <2>6, Layer3Forget
    DEF ForwardToErrorQueue, Holding, Layer2, LockDiscipline
  <2>7. CASE ExceptionMissing(t)
    <3>1. Id(t) \in Ids /\ failuresPerMessage[Id(t)] = 0
      BY <2>7, IdType DEF ExceptionMissing, Holding, Layer1, Types, Layer3, DictionariesAgree
    <3>2. ASSUME NEW i \in Ids
          PROVE  failuresPerMessage'[i] + Cardinality(Active(i)') + 1
                   <= MaxRetries + Cardinality(Threads)
      <4>1. CASE i = Id(t)
        <5>1. failuresPerMessage'[i] = 0
          BY <2>7, <3>1, <4>1 DEF ExceptionMissing
        <5>2. QED
          BY <5>1, ActiveAtMostAll, ActiveFinite, BoundsAssumption
      <4>2. CASE i # Id(t)
        <5>1. Active(i)' = Active(i)
          BY <2>7, <4>2 DEF ExceptionMissing, Active, Id, Layer1, Types
        <5>2. QED
          BY <2>7, <5>1 DEF ExceptionMissing, Layer3, AttemptsBounded
      <4>3. QED
        BY <4>1, <4>2
    <3>3. QED
      BY <2>7, <3>2 DEF ExceptionMissing, Layer1, Types, Layer3, AttemptsBounded,
         DictionariesAgree, NothingCounted, Transactional
  <2>8. CASE \E r \in Results : HandleMessage(t, r)
    <3>1. PICK r \in Results : HandleMessage(t, r)
      BY <2>8
    <3>2. \A i : Cardinality(Active(i)') <= Cardinality(Active(i))
      BY <3>1, ActiveShrinks DEF HandleMessage
    <3>3. QED
      BY <3>1, <3>2, Layer3Quiet DEF HandleMessage, Layer1, Types, Layer3, NothingCounted
  <2>9. CASE Commit(t)
    <3>1. \A i : Cardinality(Active(i)') <= Cardinality(Active(i))
      BY <2>9, ActiveShrinks DEF Commit
    <3>2. QED
      BY <2>9, <3>1, Layer3Quiet DEF Commit, Layer1, Types, Layer3, NothingCounted
  <2>10. CASE Rollback(t)
    <3>1. \A i : Cardinality(Active(i)') <= Cardinality(Active(i))
      BY <2>10, ActiveShrinks DEF Rollback
    <3>2. QED
      BY <2>10, <3>1, Layer3Quiet DEF Rollback, Layer1, Types, Layer3, NothingCounted
  <2>11. CASE IncrementFailuresForMessage(t)
    <3>1. msg[t] \in Messages /\ Id(t) \in Ids
      BY <2>11, IdType DEF IncrementFailuresForMessage, Layer1, HasMsg, Holding
    <3>2. ASSUME NEW i \in Ids
          PROVE  failuresPerMessage'[i] + Cardinality(Active(i)') + 1
                   <= MaxRetries + Cardinality(Threads)
      <4>1. CASE i = Id(t)
        <5>1. Active(i)' = Active(i) \ {t} /\ t \in Active(i)
          BY <2>11, <3>1, <4>1 DEF IncrementFailuresForMessage, Active, Id, Layer1, Types
        <5>2. Cardinality(Active(i)') = Cardinality(Active(i)) - 1
          BY <5>1, ActiveFinite, FS_RemoveElement
        <5>3. failuresPerMessage'[i] = failuresPerMessage[i] + 1
          BY <2>11, <4>1 DEF IncrementFailuresForMessage, Layer1, Types
        <5>4. QED
          BY <5>2, <5>3, ActiveFinite, BoundsAssumption
          DEF Layer1, Types, Layer3, AttemptsBounded
      <4>2. CASE i # Id(t)
        <5>1. Active(i)' = Active(i)
          BY <2>11, <4>2 DEF IncrementFailuresForMessage, Active, Id, Layer1, Types
        <5>2. QED
          BY <2>11, <4>2, <5>1
          DEF IncrementFailuresForMessage, Layer1, Types, Layer3, AttemptsBounded
      <4>3. QED
        BY <4>1, <4>2
    <3>3. DictionariesAgree'
      BY <2>11, <3>1
      DEF IncrementFailuresForMessage, Layer1, Types, Layer3, DictionariesAgree
    <3>4. NothingCounted'
      BY <2>11
      DEF IncrementFailuresForMessage, Layer1, Types, Layer3, NothingCounted, Transactional
    <3>5. QED
      BY <3>2, <3>3, <3>4 DEF Layer3, AttemptsBounded
  <2>12. CASE IncrementSwallowed(t)
    <3>1. \A i : Cardinality(Active(i)') <= Cardinality(Active(i))
      BY <2>12, ActiveShrinks DEF IncrementSwallowed
    <3>2. QED
      BY <2>12, <3>1, Layer3Quiet DEF IncrementSwallowed, Layer1, Types, Layer3, NothingCounted
  <2>13. CASE FindFailures(t)
    <3>1. \A i : Cardinality(Active(i)') <= Cardinality(Active(i))
      BY <2>13, ActiveShrinks DEF FindFailures
    <3>2. QED
      BY <2>13, <3>1, Layer3Quiet DEF FindFailures, Layer1, Types, Layer3, NothingCounted
  <2>14. CASE ClearFailuresForMessage(t)
    <3>1. pc[t] \in Holding /\ Forget(Id(t))
      BY <2>14 DEF ClearFailuresForMessage, Holding
    <3>2. /\ pc' = [pc EXCEPT ![t] = "loop"] /\ msg' = msg
          /\ mode' = mode /\ idOf' = idOf
      BY <2>14 DEF ClearFailuresForMessage
    <3>3. QED
      BY <3>1, <3>2, Layer3Forget
  <2>15. QED
    BY <1>3, <2>1, <2>2, <2>3, <2>4, <2>5, <2>6, <2>7, <2>8, <2>9, <2>10, <2>11,
       <2>12, <2>13, <2>14 DEF Process
<1>4. ASSUME NEW t \in Threads, Disturbance(t) PROVE Layer3'
  <2>1. CASE QueueUnavailable(t)
    <3>1. \A i : Cardinality(Active(i)') <= Cardinality(Active(i))
      BY <2>1, ActiveShrinks DEF QueueUnavailable
    <3>2. QED
      BY <2>1, <3>1, Layer3Quiet DEF QueueUnavailable, Layer1, Types, Layer3, NothingCounted
  <2>2. CASE FaultManagerFails(t)
    BY <2>2, Layer3Forget DEF FaultManagerFails, Holding, Layer2, LockDiscipline
  <2>3. CASE AbortHandlingCurrentMessage(t)
    <3>1. \A i : Cardinality(Active(i)') <= Cardinality(Active(i))
      BY <2>3, ActiveShrinks DEF AbortHandlingCurrentMessage
    <3>2. QED
      BY <2>3, <3>1, Layer3Quiet
      DEF AbortHandlingCurrentMessage, Layer1, Types, Layer3, NothingCounted
  <2>4. CASE CommitFails(t)
    <3>1. \A i : Cardinality(Active(i)') <= Cardinality(Active(i))
      BY <2>4, ActiveShrinks DEF CommitFails
    <3>2. QED
      BY <2>4, <3>1, Layer3Quiet DEF CommitFails, Layer1, Types, Layer3, NothingCounted
  <2>5. QED
    BY <1>4, <2>1, <2>2, <2>3, <2>4 DEF Disturbance
<1>5. QED
  BY <1>1, <1>2, <1>3, <1>4 DEF Next

THEOREM Layer3Correct == Spec => []Layer3
  BY Layer1Correct, Layer2Correct, Layer3Init, Layer3Step, PTL DEF Spec

(* The unrecorded failures belong to active threads, so the bound on count *)
(* and active threads is a bound on the failed attempts.                   *)
THEOREM RetriesBoundedCorrect == Spec => []RetriesBounded
<1>1. Layer1 /\ Layer2 /\ Layer3 => RetriesBounded
  <2> SUFFICES ASSUME Layer1, Layer2, Layer3, NEW i \in Ids
               PROVE  failed[i] + 1 <= MaxRetries + Cardinality(Threads)
    BY DEF RetriesBounded
  <2>1. Unrecorded(i) \in SUBSET Active(i)
    BY DEF Unrecorded, Active
  <2>2. Cardinality(Unrecorded(i)) <= Cardinality(Active(i))
    BY <2>1, ActiveFinite, FS_Subset
  <2>3. failed[i] = failuresPerMessage[i] + Cardinality(Unrecorded(i))
    BY DEF Layer2, FailuresAccounted
  <2>4. failuresPerMessage[i] + Cardinality(Active(i)) + 1 <= MaxRetries + Cardinality(Threads)
    BY DEF Layer3, AttemptsBounded
  <2>5. QED
    BY <2>2, <2>3, <2>4, UnrecordedFinite, ActiveFinite, BoundsAssumption DEF Layer1, Types
<1>2. QED
  BY Layer1Correct, Layer2Correct, Layer3Correct, <1>1, PTL

-----------------------------------------------------------------------------
(* Layer 4: where a message is.  A message in flight belongs to one thread *)
(* and is neither in the queue nor settled.                                *)

OwnedByOne ==
  \A t, u \in Threads : InFlight(t) /\ InFlight(u) /\ msg[t] = msg[u] => t = u

SettledIsGone ==
  /\ queue \cap (handled \cup dropped) = {}
  /\ \A t \in Threads : InFlight(t) => msg[t] \notin queue \cup handled \cup dropped

Layer4 == OwnedByOne /\ SettledIsGone

LEMMA Layer4Init == Init => Layer4
  BY DEF Init, Layer4, OwnedByOne, SettledIsGone, InFlight

(* A step of thread t that leaves the fates alone and does not take t in   *)
(* or out of flight.                                                       *)
LEMMA FlightSame ==
  ASSUME Layer1, Layer4, NEW t \in Threads, NEW label,
         pc' = [pc EXCEPT ![t] = label],
         label \in Labels,
         InFlight(t)' <=> InFlight(t),
         InFlight(t) => msg'[t] = msg[t],
         \A u \in Threads \ {t} : msg'[u] = msg[u],
         UNCHANGED <<queue, handled, dropped>>
  PROVE  /\ Layer4'
         /\ Unsettled' = Unsettled
<1>1. \A u \in Threads : InFlight(u)' <=> InFlight(u)
  BY DEF InFlight, Layer1, Types
<1>2. \A u \in Threads : InFlight(u) => msg'[u] = msg[u]
  OBVIOUS
<1>3. Layer4'
  BY <1>1, <1>2 DEF Layer4, OwnedByOne, SettledIsGone
<1>4. Unsettled' = Unsettled
  BY <1>1, <1>2 DEF Unsettled
<1>5. QED
  BY <1>3, <1>4

(* A step of thread t that gives its message back to the queue.            *)
LEMMA FlightReturned ==
  ASSUME Layer1, Layer4, NEW t \in Threads, InFlight(t),
         \A u \in Threads \ {t} : pc'[u] = pc[u],
         ~ InFlight(t)',
         msg' = msg,
         queue' = queue \cup {msg[t]},
         UNCHANGED <<handled, dropped>>
  PROVE  /\ Layer4'
         /\ Unsettled' = Unsettled
<1>1. \A u \in Threads : InFlight(u)' <=> InFlight(u) /\ u # t
  BY DEF InFlight
<1>2. Layer4'
  BY <1>1 DEF Layer4, OwnedByOne, SettledIsGone
<1>3. Unsettled' = Unsettled
  BY <1>1 DEF Unsettled
<1>4. QED
  BY <1>2, <1>3

(* A step of thread t that settles its message.                            *)
LEMMA FlightSettled ==
  ASSUME Layer1, Layer4, NEW t \in Threads, InFlight(t),
         \A u \in Threads \ {t} : pc'[u] = pc[u],
         ~ InFlight(t)',
         msg' = msg,
         queue' = queue,
         handled' \cup dropped' \subseteq handled \cup dropped \cup {msg[t]}
  PROVE  /\ Layer4'
         /\ Unsettled' = Unsettled \ {msg[t]}
         /\ msg[t] \in Unsettled
<1>1. \A u \in Threads : InFlight(u)' <=> InFlight(u) /\ u # t
  BY DEF InFlight
<1>2. \A u \in Threads \ {t} : InFlight(u) => msg[u] # msg[t]
  BY DEF Layer4, OwnedByOne
<1>3. msg[t] \notin queue
  BY DEF Layer4, SettledIsGone
<1>4. Layer4'
  BY <1>1, <1>2, <1>3 DEF Layer4, OwnedByOne, SettledIsGone
<1>5. Unsettled' = Unsettled \ {msg[t]}
  BY <1>1, <1>2, <1>3 DEF Unsettled
<1>6. QED
  BY <1>4, <1>5 DEF Unsettled

(* What a step does to the messages: nothing, one is settled, or several   *)
(* are dropped when a process without transactions dies.  Only a commit    *)
(* settles a message that is then neither handled nor dropped.             *)
NothingSettled == Unsettled' = Unsettled /\ UNCHANGED <<handled, dropped>>

OneSettled ==
  \E m \in Unsettled :
    /\ Unsettled' = Unsettled \ {m}
    /\ \A n \in Messages \ {m} : /\ n \in handled' <=> n \in handled
                                 /\ n \in dropped' <=> n \in dropped
    /\ m \in handled' \cup dropped' \/ \E t \in Threads : Commit(t) /\ m = msg[t]

InFlightDropped ==
  /\ Unsettled' = queue
  /\ handled' = handled
  /\ dropped' = dropped \cup (Unsettled \ queue)

LEMMA FateStep ==
  Layer1 /\ Layer3 /\ Layer4 /\ [Next]_vars =>
    Layer4' /\ (NothingSettled \/ OneSettled \/ InFlightDropped)
<1> SUFFICES ASSUME Layer1, Layer3, Layer4, [Next]_vars
             PROVE  Layer4' /\ (NothingSettled \/ OneSettled \/ InFlightDropped)
  OBVIOUS
<1> USE DEF Goto, threadVars, failureVars, fateVars
<1>1. CASE UNCHANGED vars
  BY <1>1 DEF vars, Layer4, OwnedByOne, SettledIsGone, InFlight, NothingSettled, Unsettled
<1>2. CASE Crash
  <2>1. \A t \in Threads : ~ InFlight(t)'
    BY <1>2 DEF Crash, InFlight
  <2>2. Unsettled' = queue'
    BY <2>1 DEF Unsettled
  <2>3. Unsettled \cap (handled \cup dropped) = {}
    BY DEF Layer4, SettledIsGone, Unsettled
  <2>4. CASE Transactional
    <3>1. queue' = Unsettled /\ handled' = handled /\ dropped' = dropped
      BY <1>2, <2>4 DEF Crash
    <3>2. QED
      BY <2>1, <2>2, <2>3, <3>1 DEF Layer4, OwnedByOne, SettledIsGone, NothingSettled
  <2>5. CASE ~ Transactional
    <3>1. queue' = queue /\ handled' = handled /\ dropped' = dropped \cup (Unsettled \ queue)
      BY <1>2, <2>5 DEF Crash
    <3>2. QED
      BY <2>1, <2>2, <2>3, <3>1 DEF Layer4, OwnedByOne, SettledIsGone, InFlightDropped, Unsettled
  <2>6. QED
    BY <2>4, <2>5
<1>3. ASSUME NEW t \in Threads, Process(t)
      PROVE  Layer4' /\ (NothingSettled \/ OneSettled)
  <2>1. CASE Loop(t)
    <3>1. Layer4' /\ Unsettled' = Unsettled
      BY <2>1, FlightSame DEF Loop, InFlight, Layer1, Types
    <3>2. QED
      BY <2>1, <3>1 DEF Loop, NothingSettled
  <2>2. CASE HasMessage(t)
    <3>1. Layer4' /\ Unsettled' = Unsettled
      BY <2>2, FlightSame DEF HasMessage, InFlight, Layer1, Types
    <3>2. QED
      BY <2>2, <3>1 DEF HasMessage, NothingSettled
  <2>3. CASE HandledMaxRetries(t)
    <3>1. Layer4' /\ Unsettled' = Unsettled
      BY <2>3, FlightSame DEF HandledMaxRetries, InFlight, Layer1, Types
    <3>2. QED
      BY <2>3, <3>1 DEF HandledMaxRetries, NothingSettled
  <2>4. CASE EnterWriteLock(t)
    <3>1. Layer4' /\ Unsettled' = Unsettled
      BY <2>4, FlightSame DEF EnterWriteLock, InFlight, Layer1, Types
    <3>2. QED
      BY <2>4, <3>1 DEF EnterWriteLock, NothingSettled
  <2>5. CASE ForwardToErrorQueue(t)
    <3>1. Layer4' /\ Unsettled' = Unsettled
      BY <2>5, FlightSame DEF ForwardToErrorQueue, InFlight, Layer1, Types
    <3>2. QED
      BY <2>5, <3>1 DEF ForwardToErrorQueue, NothingSettled
  <2>6. CASE ExceptionMissing(t)
    <3>1. Layer4' /\ Unsettled' = Unsettled
      BY <2>6, FlightSame DEF ExceptionMissing, InFlight, Layer1, Types
    <3>2. QED
      BY <2>6, <3>1 DEF ExceptionMissing, NothingSettled
  <2>7. CASE IncrementFailuresForMessage(t)
    <3>1. Layer4' /\ Unsettled' = Unsettled
      BY <2>7, FlightSame DEF IncrementFailuresForMessage, InFlight, Layer1, Types
    <3>2. QED
      BY <2>7, <3>1 DEF IncrementFailuresForMessage, NothingSettled
  <2>8. CASE IncrementSwallowed(t)
    <3>1. Layer4' /\ Unsettled' = Unsettled
      BY <2>8, FlightSame DEF IncrementSwallowed, InFlight, Layer1, Types
    <3>2. QED
      BY <2>8, <3>1 DEF IncrementSwallowed, NothingSettled
  <2>9. CASE FindFailures(t)
    <3>1. Layer4' /\ Unsettled' = Unsettled
      BY <2>9, FlightSame DEF FindFailures, InFlight, Layer1, Types
    <3>2. QED
      BY <2>9, <3>1 DEF FindFailures, NothingSettled
  <2>10. CASE ClearFailuresForMessage(t)
    <3>1. Layer4' /\ Unsettled' = Unsettled
      BY <2>10, FlightSame DEF ClearFailuresForMessage, InFlight, Layer1, Types
    <3>2. QED
      BY <2>10, <3>1 DEF ClearFailuresForMessage, NothingSettled
  <2>11. CASE Receive(t)
    <3>1. CASE ReceiveNothing(t)
      <4>1. Layer4' /\ Unsettled' = Unsettled
        BY <3>1, FlightSame DEF ReceiveNothing, InFlight, Layer1, Types
      <4>2. QED
        BY <3>1, <4>1 DEF ReceiveNothing, NothingSettled
    <3>2. ASSUME NEW m \in Messages, ReceiveUnreadable(t, m)
          PROVE  Layer4' /\ OneSettled
      <4>1. \A u \in Threads : (InFlight(u)' <=> InFlight(u)) /\ msg'[u] = msg[u]
        BY <3>2 DEF ReceiveUnreadable, InFlight, Layer1, Types
      <4>2. m \in queue /\ queue' = queue \ {m} /\ dropped' = dropped \cup {m}
            /\ handled' = handled
        BY <3>2 DEF ReceiveUnreadable
      <4>3. \A u \in Threads : InFlight(u) => msg[u] # m
        BY <4>2 DEF Layer4, SettledIsGone
      <4>4. Layer4'
        BY <4>1, <4>2, <4>3 DEF Layer4, OwnedByOne, SettledIsGone
      <4>5. Unsettled' = Unsettled \ {m}
        BY <4>1, <4>2, <4>3 DEF Unsettled
      <4>6. QED
        BY <4>2, <4>4, <4>5 DEF OneSettled, Unsettled
    <3>3. ASSUME NEW m \in Messages, NEW r \in {"none", "failed"}, ReceiveMessage(t, m, r)
          PROVE  Layer4' /\ NothingSettled
      <4>1. \A u \in Threads \ {t} : (InFlight(u)' <=> InFlight(u)) /\ msg'[u] = msg[u]
        BY <3>3 DEF ReceiveMessage, InFlight, Layer1, Types
      <4>2. InFlight(t)' /\ ~ InFlight(t) /\ msg'[t] = m
        BY <3>3 DEF ReceiveMessage, InFlight, Layer1, Types
      <4>3. m \in queue /\ queue' = queue \ {m} /\ dropped' = dropped /\ handled' = handled
        BY <3>3 DEF ReceiveMessage
      <4>4. \A u \in Threads : InFlight(u) => msg[u] # m
        BY <4>3 DEF Layer4, SettledIsGone
      <4>5. Layer4'
        BY <4>1, <4>2, <4>3, <4>4 DEF Layer4, OwnedByOne, SettledIsGone
      <4>6. Unsettled' = Unsettled
        BY <4>1, <4>2, <4>3, <4>4 DEF Unsettled
      <4>7. QED
        BY <4>3, <4>5, <4>6 DEF NothingSettled
    <3>4. QED
      BY <2>11, <3>1, <3>2, <3>3 DEF Receive
  <2>12. ASSUME NEW r \in Results, HandleMessage(t, r)
         PROVE  Layer4' /\ (NothingSettled \/ OneSettled)
    <3>1. CASE r = "failed" \/ Transactional
      <4>1. Layer4' /\ Unsettled' = Unsettled
        BY <2>12, <3>1, FlightSame DEF HandleMessage, InFlight, Layer1, Types
      <4>2. QED
        BY <2>12, <3>1, <4>1 DEF HandleMessage, NothingSettled
    <3>2. CASE r = "handled" /\ ~ Transactional
      <4>1. Layer4' /\ Unsettled' = Unsettled \ {msg[t]} /\ msg[t] \in Unsettled
        BY <2>12, <3>2, FlightSettled DEF HandleMessage, InFlight, Layer1, Types
      <4>2. QED
        BY <2>12, <3>2, <4>1 DEF HandleMessage, OneSettled
    <3>3. QED
      BY <2>12, <3>1, <3>2 DEF HandleMessage
  <2>13. CASE Commit(t)
    <3>1. Layer4' /\ Unsettled' = Unsettled \ {msg[t]} /\ msg[t] \in Unsettled
      BY <2>13, FlightSettled DEF Commit, InFlight, Layer1, Types
    <3>2. QED
      BY <2>13, <3>1 DEF Commit, OneSettled
  <2>14. CASE Rollback(t)
    <3>1. CASE Transactional
      <4>1. Layer4' /\ Unsettled' = Unsettled
        BY <2>14, <3>1, FlightReturned DEF Rollback, InFlight, Layer1, Types
      <4>2. QED
        BY <2>14, <3>1, <4>1 DEF Rollback, NothingSettled
    <3>2. CASE ~ Transactional
      <4>1. Layer4' /\ Unsettled' = Unsettled \ {msg[t]} /\ msg[t] \in Unsettled
        BY <2>14, <3>2, FlightSettled DEF Rollback, InFlight, Layer1, Types
      <4>2. QED
        BY <2>14, <3>2, <4>1 DEF Rollback, OneSettled
    <3>3. QED
      BY <3>1, <3>2
  <2>15. QED
    BY <1>3, <2>1, <2>2, <2>3, <2>4, <2>5, <2>6, <2>7, <2>8, <2>9, <2>10, <2>11,
       <2>12, <2>13, <2>14 DEF Process
<1>4. ASSUME NEW t \in Threads, Disturbance(t) PROVE Layer4' /\ NothingSettled
  <2>1. CASE QueueUnavailable(t)
    <3>1. Layer4' /\ Unsettled' = Unsettled
      BY <2>1, FlightSame DEF QueueUnavailable, InFlight, Layer1, Types
    <3>2. QED
      BY <2>1, <3>1 DEF QueueUnavailable, NothingSettled
  <2>2. CASE FaultManagerFails(t)
    <3>1. Layer4' /\ Unsettled' = Unsettled
      BY <2>2, FlightSame DEF FaultManagerFails, InFlight, Layer1, Types
    <3>2. QED
      BY <2>2, <3>1 DEF FaultManagerFails, NothingSettled
  <2>3. CASE AbortHandlingCurrentMessage(t)
    <3>1. Layer4' /\ Unsettled' = Unsettled
      BY <2>3, FlightSame DEF AbortHandlingCurrentMessage, InFlight, Layer1, Types
    <3>2. QED
      BY <2>3, <3>1 DEF AbortHandlingCurrentMessage, NothingSettled
  <2>4. CASE CommitFails(t)
    <3>1. Layer4' /\ Unsettled' = Unsettled
      BY <2>4, FlightReturned DEF CommitFails, InFlight, Layer1, Types
    <3>2. QED
      BY <2>4, <3>1 DEF CommitFails, NothingSettled
  <2>5. QED
    BY <1>4, <2>1, <2>2, <2>3, <2>4 DEF Disturbance
<1>5. QED
  BY <1>1, <1>2, <1>3, <1>4 DEF Next

THEOREM Layer4Correct == Spec => []Layer4
<1>1. Layer1 /\ Layer3 /\ Layer4 /\ [Next]_vars => Layer4'
  BY FateStep
<1>2. QED
  BY Layer1Correct, Layer3Correct, Layer4Init, <1>1, PTL DEF Spec

-----------------------------------------------------------------------------
(* Layer 5: what a thread that is about to commit has done, and the error  *)
(* queue.                                                                  *)

CommitNoted ==
  \A t \in Threads : pc[t] = "commit" =>
    /\ result[t] \in {"handled", "forwarded", "dropped"}
    /\ mode = "suppressed" /\ result[t] = "forwarded" => errorQueue[msg[t]] > 0

Layer5 == CommitNoted /\ DeadLettersKept

LEMMA Layer5Init == Init => Layer5
  BY DEF Init, Layer5, CommitNoted, DeadLettersKept, IsDead, Unsettled

(* A step that is not a commit makes no message a dead one.                *)
LEMMA DeadSame ==
  ASSUME Layer1, Layer4, NothingSettled \/ OneSettled \/ InFlightDropped,
         \A t \in Threads : ~ Commit(t)
  PROVE  \A m \in Messages : IsDead(m)' <=> IsDead(m)
<1>1. Unsettled \subseteq Messages
  BY DEF Layer1, Types, HasMsg, Holding, Unsettled, InFlight
<1>2. CASE NothingSettled
  BY <1>2 DEF NothingSettled, IsDead
<1>3. CASE OneSettled
  BY <1>3 DEF OneSettled, IsDead
<1>4. CASE InFlightDropped
  BY <1>4 DEF InFlightDropped, IsDead, Unsettled
<1>5. QED
  BY <1>2, <1>3, <1>4

(* Only a forward or a commit touches the error queue.                     *)
LEMMA CommitNotedStep ==
  Layer1 /\ Layer3 /\ CommitNoted /\ [Next]_vars =>
    /\ CommitNoted'
    /\ \/ errorQueue' = errorQueue
       \/ \E t \in Threads : ForwardToErrorQueue(t) \/ Commit(t)
<1> SUFFICES ASSUME Layer1, Layer3, CommitNoted, [Next]_vars
             PROVE  /\ CommitNoted'
                    /\ \/ errorQueue' = errorQueue
                       \/ \E t \in Threads : ForwardToErrorQueue(t) \/ Commit(t)
  OBVIOUS
<1> USE DEF CommitNoted, Layer1, Types, Goto, threadVars, failureVars, fateVars
<1>1. CASE UNCHANGED vars
  BY <1>1 DEF vars
<1>2. CASE Crash
  BY <1>2 DEF Crash
<1>3. ASSUME NEW t \in Threads, Process(t)
      PROVE  /\ CommitNoted'
             /\ errorQueue' = errorQueue \/ ForwardToErrorQueue(t) \/ Commit(t)
  <2>1. CASE Loop(t) \/ HasMessage(t) \/ HandledMaxRetries(t) \/ EnterWriteLock(t)
    BY <2>1 DEF Loop, HasMessage, HandledMaxRetries, EnterWriteLock
  <2>2. CASE Receive(t)
    BY <2>2 DEF Receive, ReceiveNothing, ReceiveUnreadable, ReceiveMessage
  <2>3. CASE ForwardToErrorQueue(t)
    <3>1. msg[t] \in Messages
      BY <2>3 DEF ForwardToErrorQueue, HasMsg, Holding
    <3>2. /\ \A m \in Messages : errorQueue'[m] >= errorQueue[m]
          /\ mode = "suppressed" => errorQueue'[msg[t]] > 0
      BY <2>3, <3>1 DEF ForwardToErrorQueue
    <3>3. /\ result' = [result EXCEPT ![t] = "forwarded"] /\ mode' = mode
          /\ msg' = msg /\ pc' = [pc EXCEPT ![t] = "commit"]
      BY <2>3 DEF ForwardToErrorQueue
    <3>4. CommitNoted'
      <4> SUFFICES ASSUME NEW u \in Threads, pc'[u] = "commit"
                   PROVE  /\ result'[u] \in {"handled", "forwarded", "dropped"}
                          /\ mode' = "suppressed" /\ result'[u] = "forwarded"
                               => errorQueue'[msg'[u]] > 0
        BY DEF CommitNoted
      <4>1. CASE u = t
        BY <3>2, <3>3, <4>1
      <4>2. CASE u # t
        <5>1. pc[u] = "commit" /\ result'[u] = result[u] /\ msg'[u] = msg[u]
          BY <3>3, <4>2
        <5>2. msg[u] \in Messages
          BY <5>1 DEF HasMsg, Holding
        <5>3. errorQueue[msg[u]] \in Nat /\ errorQueue'[msg[u]] >= errorQueue[msg[u]]
          BY <3>2, <5>2
        <5>4. errorQueue'[msg[u]] \in Nat
          BY <2>3, <3>1, <5>2 DEF ForwardToErrorQueue
        <5>5. QED
          BY <3>3, <5>1, <5>3, <5>4
      <4>3. QED
        BY <4>1, <4>2
    <3>5. QED
      BY <2>3, <3>4
  <2>4. CASE ExceptionMissing(t) \/ \E r \in Results : HandleMessage(t, r)
    BY <2>4 DEF ExceptionMissing, HandleMessage
  <2>5. CASE FindFailures(t) \/ IncrementSwallowed(t)
    BY <2>5 DEF FindFailures, IncrementSwallowed
  <2>6. CASE Rollback(t) \/ IncrementFailuresForMessage(t)
    BY <2>6 DEF Rollback, IncrementFailuresForMessage
  <2>7. CASE ClearFailuresForMessage(t)
    BY <2>7 DEF ClearFailuresForMessage
  <2>8. CASE Commit(t)
    <3>1. mode = "dtc" \/ errorQueue' = errorQueue
      BY <2>8 DEF Commit
    <3>2. /\ result' = result /\ mode' = mode
          /\ msg' = msg /\ pc' = [pc EXCEPT ![t] = "clear"]
      BY <2>8 DEF Commit
    <3>3. QED
      BY <2>8, <3>1, <3>2
  <2>9. QED
    BY <1>3, <2>1, <2>2, <2>3, <2>4, <2>5, <2>6, <2>7, <2>8 DEF Process
<1>4. ASSUME NEW t \in Threads, Disturbance(t)
      PROVE  CommitNoted' /\ errorQueue' = errorQueue
  BY <1>4 DEF Disturbance, QueueUnavailable, FaultManagerFails, OnCriticalError,
     AbortHandlingCurrentMessage, CommitFails
<1>5. QED
  BY <1>1, <1>2, <1>3, <1>4 DEF Next

LEMMA Layer5Step ==
  Layer1 /\ Layer2 /\ Layer3 /\ Layer4 /\ Layer5 /\ [Next]_vars => Layer5'
<1> SUFFICES ASSUME Layer1, Layer2, Layer3, Layer4, Layer5, [Next]_vars PROVE Layer5'
  OBVIOUS
<1>1. /\ CommitNoted'
      /\ \/ errorQueue' = errorQueue
         \/ \E t \in Threads : ForwardToErrorQueue(t) \/ Commit(t)
  BY CommitNotedStep DEF Layer5
<1>2. NothingSettled \/ OneSettled \/ InFlightDropped
  BY FateStep
<1>3. mode' = mode
  BY DEF Next, vars, Crash, Process, Disturbance, Loop, HasMessage, Receive,
     ReceiveNothing, ReceiveUnreadable, ReceiveMessage, HandledMaxRetries,
     EnterWriteLock, ForwardToErrorQueue, ExceptionMissing, HandleMessage, Commit,
     Rollback, IncrementFailuresForMessage, IncrementSwallowed, FindFailures,
     ClearFailuresForMessage, QueueUnavailable, FaultManagerFails,
     AbortHandlingCurrentMessage, CommitFails
<1>4. CASE \E t \in Threads : Commit(t)
  <2>1. PICK t \in Threads : Commit(t)
    BY <1>4
  <2>2. /\ msg[t] \in Messages
        /\ result[t] \in {"handled", "forwarded", "dropped"}
        /\ mode = "suppressed" /\ result[t] = "forwarded" => errorQueue[msg[t]] > 0
        /\ Transactional
    BY <2>1 DEF Commit, Layer1, HasMsg, Holding, Layer5, CommitNoted, Layer3, NothingCounted
  <2>3. Unsettled' = Unsettled \ {msg[t]} /\ msg[t] \in Unsettled
    BY <2>1, FlightSettled DEF Commit, InFlight, Layer1, Types, Goto
  <2>4. msg[t] \notin handled \cup dropped
    BY <2>1 DEF Layer4, SettledIsGone, Commit, InFlight
  <2>5. ~ IsDead(msg[t]) /\ (IsDead(msg[t])' <=> result[t] = "forwarded")
    BY <2>1, <2>2, <2>3, <2>4 DEF IsDead, Commit
  <2>6. \A m \in Messages \ {msg[t]} : (IsDead(m)' <=> IsDead(m)) /\ errorQueue'[m] = errorQueue[m]
    BY <2>1, <2>2, <2>3 DEF IsDead, Commit, Layer1, Types
  <2>7. errorQueue'[msg[t]] = IF result[t] = "forwarded" /\ mode = "dtc"
                              THEN errorQueue[msg[t]] + 1 ELSE errorQueue[msg[t]]
    BY <2>1, <2>2 DEF Commit, Layer1, Types
  <2>8. DeadLettersKept'
    <3>1. PICK d \in Messages : d = msg[t]
      BY <2>2
    <3>2. ~ IsDead(d) /\ (IsDead(d)' <=> result[t] = "forwarded")
      BY <2>1, <2>5, <3>1 DEF Commit
    <3>3. /\ IsDead(d)' => errorQueue'[d] > 0
          /\ mode = "dtc" => errorQueue'[d] = IF IsDead(d)' THEN 1 ELSE 0
      BY <2>2, <2>7, <3>1, <3>2
      DEF DeadLettersKept, Layer5, Layer1, Types, Transactional, AllModes
    <3>4. QED
      BY <1>3, <2>6, <3>1, <3>3 DEF DeadLettersKept, Layer5
  <2>9. QED
    BY <1>1, <2>8 DEF Layer5
<1>5. CASE \A t \in Threads : ~ Commit(t)
  <2>1. \A m \in Messages : IsDead(m)' <=> IsDead(m)
    BY <1>2, <1>5, DeadSame
  <2>2. \A m \in Messages : /\ errorQueue'[m] >= errorQueue[m]
                            /\ mode = "dtc" => errorQueue'[m] = errorQueue[m]
                            /\ errorQueue[m] \in Nat /\ errorQueue'[m] \in Nat
    <3>1. CASE errorQueue' = errorQueue
      BY <3>1 DEF Layer1, Types
    <3>2. ASSUME NEW t \in Threads, ForwardToErrorQueue(t)
          PROVE  \A m \in Messages : /\ errorQueue'[m] >= errorQueue[m]
                                     /\ mode = "dtc" => errorQueue'[m] = errorQueue[m]
                                     /\ errorQueue[m] \in Nat /\ errorQueue'[m] \in Nat
      BY <3>2 DEF ForwardToErrorQueue, Layer1, Types
    <3>3. QED
      BY <1>1, <1>5, <3>1, <3>2
  <2>3. DeadLettersKept'
    BY <1>3, <2>1, <2>2 DEF DeadLettersKept, Layer5
  <2>4. QED
    BY <1>1, <2>3 DEF Layer5
<1>6. QED
  BY <1>4, <1>5

(* A message that failed too often is in the error queue, once when the    *)
(* forward is part of the receive transaction, whatever the threads do.    *)
THEOREM DeadLettersKeptCorrect == Spec => []DeadLettersKept
<1>1. Layer1 /\ Layer2 /\ Layer3 /\ Layer4 /\ Layer5 /\ [Next]_vars => Layer5'
  BY Layer5Step
<1>2. Layer5 => DeadLettersKept
  BY DEF Layer5
<1>3. QED
  BY Layer1Correct, Layer2Correct, Layer3Correct, Layer4Correct, Layer5Init,
     <1>1, <1>2, PTL DEF Spec

-----------------------------------------------------------------------------
(* Layer 6: a message is given up for a reason.  A thread that gave one up *)
(* as the fault manager failed has told every thread to stop; one on its   *)
(* way to the fault manager with a message of an id of its own has seen    *)
(* MaxRetries failures of it, and nobody clears them meanwhile, because    *)
(* those who clear the failures of a message that was settled do not have  *)
(* that message in hand.                                                   *)

DroppedHalts ==
  \A t \in Threads : pc[t] = "commit" /\ result[t] = "dropped"
                       => \A u \in Threads : stopRequested[u]

ClearedIsSettled ==
  \A t \in Threads : pc[t] \in {"clear", "clearWrite"} => msg[t] \notin Unsettled

SeenToFail ==
  \A t \in Threads : pc[t] \in {"enterFault", "faultManager"} /\ HasOwnId(msg[t])
                       => failed[Id(t)] >= MaxRetries

Layer6 == DroppedHalts /\ ClearedIsSettled /\ SeenToFail

LEMMA Layer6Init == Init => Layer6
  BY DEF Init, Layer6, DroppedHalts, ClearedIsSettled, SeenToFail

LEMMA DroppedHaltsStep ==
  Layer1 /\ Layer3 /\ DroppedHalts /\ [Next]_vars => DroppedHalts'
<1> SUFFICES ASSUME Layer1, Layer3, DroppedHalts, [Next]_vars PROVE DroppedHalts'
  OBVIOUS
<1> USE DEF DroppedHalts, Layer1, Types, Goto, threadVars, failureVars, fateVars
<1>1. CASE UNCHANGED vars
  BY <1>1 DEF vars
<1>2. CASE Crash
  BY <1>2 DEF Crash
<1>3. ASSUME NEW t \in Threads, Process(t) PROVE DroppedHalts'
  <2>1. CASE Loop(t) \/ HasMessage(t) \/ HandledMaxRetries(t) \/ EnterWriteLock(t)
    BY <2>1 DEF Loop, HasMessage, HandledMaxRetries, EnterWriteLock
  <2>2. CASE Receive(t)
    BY <2>2 DEF Receive, ReceiveNothing, ReceiveUnreadable, ReceiveMessage
  <2>3. CASE ForwardToErrorQueue(t) \/ ExceptionMissing(t)
    BY <2>3 DEF ForwardToErrorQueue, ExceptionMissing
  <2>4. CASE \E r \in Results : HandleMessage(t, r)
    BY <2>4 DEF HandleMessage
  <2>5. CASE Commit(t) \/ Rollback(t) \/ FindFailures(t)
    BY <2>5 DEF Commit, Rollback, FindFailures
  <2>6. CASE IncrementFailuresForMessage(t) \/ IncrementSwallowed(t)
    BY <2>6 DEF IncrementFailuresForMessage, IncrementSwallowed
  <2>7. CASE ClearFailuresForMessage(t)
    BY <2>7 DEF ClearFailuresForMessage
  <2>8. QED
    BY <1>3, <2>1, <2>2, <2>3, <2>4, <2>5, <2>6, <2>7 DEF Process
<1>4. ASSUME NEW t \in Threads, Disturbance(t) PROVE DroppedHalts'
  BY <1>4 DEF Disturbance, QueueUnavailable, FaultManagerFails, OnCriticalError,
     AbortHandlingCurrentMessage, CommitFails
<1>5. QED
  BY <1>1, <1>2, <1>3, <1>4 DEF Next

LEMMA UnsettledShrinks ==
  ASSUME NothingSettled \/ OneSettled \/ InFlightDropped
  PROVE  Unsettled' \subseteq Unsettled
  BY DEF NothingSettled, OneSettled, InFlightDropped, Unsettled

(* A thread comes to the clearing of the failures only with a message it   *)
(* has just settled.                                                       *)
LEMMA ComesToClear ==
  ASSUME Layer1, [Next]_vars, NEW t \in Threads, pc'[t] \in {"clear", "clearWrite"}
  PROVE  \/ pc[t] \in {"clear", "clearWrite"} /\ msg'[t] = msg[t]
         \/ Commit(t)
         \/ \E r \in Results : HandleMessage(t, r) /\ ~ Transactional /\ r = "handled"
<1> DEFINE Goal == \/ pc[t] \in {"clear", "clearWrite"} /\ msg'[t] = msg[t]
                   \/ Commit(t)
                   \/ \E r \in Results : HandleMessage(t, r) /\ ~ Transactional /\ r = "handled"
<1> USE DEF Layer1, Types, Goto, threadVars, failureVars, fateVars
<1>1. CASE UNCHANGED vars
  BY <1>1 DEF vars
<1>2. CASE Crash
  BY <1>2 DEF Crash
<1>3. ASSUME NEW u \in Threads, Process(u) PROVE Goal
  <2>1. CASE Loop(u) \/ HasMessage(u) \/ HandledMaxRetries(u) \/ EnterWriteLock(u)
    BY <2>1 DEF Loop, HasMessage, HandledMaxRetries, EnterWriteLock
  <2>2. CASE Receive(u)
    BY <2>2 DEF Receive, ReceiveNothing, ReceiveUnreadable, ReceiveMessage
  <2>3. CASE ForwardToErrorQueue(u) \/ ExceptionMissing(u)
    BY <2>3 DEF ForwardToErrorQueue, ExceptionMissing
  <2>4. ASSUME NEW r \in Results, HandleMessage(u, r) PROVE Goal
    <3>1. r \in {"handled", "failed"} /\ msg' = msg
          /\ pc' = [pc EXCEPT ![u] = IF r = "failed" THEN "rollback"
                                     ELSE IF Transactional THEN "commit" ELSE "clear"]
      BY <2>4 DEF HandleMessage
    <3>2. CASE u # t
      BY <3>1, <3>2
    <3>3. CASE u = t
      BY <2>4, <3>1, <3>3
    <3>4. QED
      BY <3>2, <3>3
  <2>5. CASE Commit(u)
    <3>1. CASE u # t
      BY <2>5, <3>1 DEF Commit
    <3>2. QED
      BY <2>5, <3>1
  <2>6. CASE Rollback(u) \/ FindFailures(u)
    BY <2>6 DEF Rollback, FindFailures
  <2>7. CASE IncrementFailuresForMessage(u) \/ IncrementSwallowed(u)
    BY <2>7 DEF IncrementFailuresForMessage, IncrementSwallowed
  <2>8. CASE ClearFailuresForMessage(u)
    BY <2>8 DEF ClearFailuresForMessage
  <2>9. QED
    BY <1>3, <2>1, <2>2, <2>3, <2>4, <2>5, <2>6, <2>7, <2>8 DEF Process
<1>4. ASSUME NEW u \in Threads, Disturbance(u) PROVE Goal
  BY <1>4 DEF Disturbance, QueueUnavailable, FaultManagerFails, AbortHandlingCurrentMessage,
     CommitFails
<1>5. QED
  BY <1>1, <1>2, <1>3, <1>4 DEF Next

LEMMA ClearedIsSettledStep ==
  Layer1 /\ Layer3 /\ Layer4 /\ ClearedIsSettled /\ [Next]_vars => ClearedIsSettled'
<1> SUFFICES ASSUME Layer1, Layer3, Layer4, ClearedIsSettled, [Next]_vars,
                    NEW t \in Threads, pc'[t] \in {"clear", "clearWrite"}
             PROVE  msg'[t] \notin Unsettled'
  BY DEF ClearedIsSettled
<1>1. Unsettled' \subseteq Unsettled
  BY FateStep, UnsettledShrinks
<1>2. CASE pc[t] \in {"clear", "clearWrite"} /\ msg'[t] = msg[t]
  BY <1>1, <1>2 DEF ClearedIsSettled
<1>3. CASE Commit(t)
  <2>1. Unsettled' = Unsettled \ {msg[t]} /\ msg' = msg
    BY <1>3, FlightSettled DEF Commit, Goto, InFlight, Layer1, Types
  <2>2. QED
    BY <2>1
<1>4. ASSUME NEW r \in Results, HandleMessage(t, r), ~ Transactional, r = "handled"
      PROVE  msg'[t] \notin Unsettled'
  <2>1. Unsettled' = Unsettled \ {msg[t]} /\ msg' = msg
    BY <1>4, FlightSettled DEF HandleMessage, Goto, InFlight, Layer1, Types
  <2>2. QED
    BY <2>1
<1>5. QED
  BY <1>2, <1>3, <1>4, ComesToClear

(* Nobody but thread t takes back failures of a message it is about to     *)
(* hand to the fault manager.                                              *)
LEMMA NobodyForgets ==
  ASSUME Layer1, Layer4, ClearedIsSettled, NEW t \in Threads, NEW u \in Threads, u # t,
         InFlight(t), HasOwnId(msg[t]), pc[t] \in Holding,
         pc[u] \in {"faultManager", "clearWrite"}, Forget(Id(u))
  PROVE  failed'[Id(t)] = failed[Id(t)]
<1>1. msg[t] \in Messages /\ msg[u] \in Messages
  BY DEF Layer1, HasMsg, Holding
<1>2. CASE pc[u] = "faultManager"
  <2>1. msg[u] # msg[t]
    BY <1>2 DEF Layer4, OwnedByOne, InFlight
  <2>2. QED
    BY <1>1, <2>1 DEF HasOwnId, Id, Forget, Layer1, Types
<1>3. CASE pc[u] = "clearWrite"
  <2>1. msg[u] # msg[t]
    BY <1>3 DEF ClearedIsSettled, Unsettled
  <2>2. QED
    BY <1>1, <2>1 DEF HasOwnId, Id, Forget, Layer1, Types
<1>4. QED
  BY <1>2, <1>3

LEMMA SeenToFailStep ==
  Layer1 /\ Layer2 /\ Layer4 /\ ClearedIsSettled /\ SeenToFail /\ [Next]_vars => SeenToFail'
<1> SUFFICES ASSUME Layer1, Layer2, Layer4, ClearedIsSettled, SeenToFail, [Next]_vars,
                    NEW t \in Threads, pc'[t] \in {"enterFault", "faultManager"},
                    HasOwnId(msg[t])'
             PROVE  failed'[Id(t)'] >= MaxRetries
  BY DEF SeenToFail
<1> DEFINE Waiting == /\ pc[t] \in {"enterFault", "faultManager"} /\ msg'[t] = msg[t]
                      /\ failed'[Id(t)] >= failed[Id(t)]
           Checked == HandledMaxRetries(t) /\ Exhausted(Id(t))
<1> USE DEF Layer1, Types, Goto, threadVars, failureVars, fateVars
<1>0. idOf' = idOf
  BY DEF Next, Process, Disturbance, vars, Crash, Loop, HasMessage, Receive, ReceiveNothing,
     ReceiveUnreadable, ReceiveMessage, HandledMaxRetries, EnterWriteLock,
     ForwardToErrorQueue, ExceptionMissing, HandleMessage, Commit, Rollback,
     IncrementFailuresForMessage, IncrementSwallowed, FindFailures,
     ClearFailuresForMessage, QueueUnavailable, FaultManagerFails,
     AbortHandlingCurrentMessage, CommitFails
<1>1. Waiting \/ Checked
  <2>1. CASE UNCHANGED vars
    BY <2>1, IdType DEF vars, Holding
  <2>2. CASE Crash
    BY <2>2 DEF Crash
  <2>3. ASSUME NEW u \in Threads, Process(u) \/ Disturbance(u)
        PROVE  Waiting \/ Checked
    <3>1. CASE u = t
      <4>1. HandledMaxRetries(t) \/ EnterWriteLock(t)
        BY <2>3, <3>1 DEF Process, Disturbance, Loop, HasMessage, Receive, ReceiveNothing,
           ReceiveUnreadable, ReceiveMessage, ForwardToErrorQueue, ExceptionMissing,
           HandleMessage, Commit, Rollback, IncrementFailuresForMessage,
           IncrementSwallowed, FindFailures, ClearFailuresForMessage, QueueUnavailable,
           FaultManagerFails, AbortHandlingCurrentMessage, CommitFails
      <4>2. CASE HandledMaxRetries(t)
        BY <4>2 DEF HandledMaxRetries
      <4>3. CASE EnterWriteLock(t)
        BY <4>3, IdType DEF EnterWriteLock, Holding
      <4>4. QED
        BY <4>1, <4>2, <4>3
    <3>2. CASE u # t
      <4>1. pc'[t] = pc[t] /\ msg'[t] = msg[t]
        BY <2>3, <3>2 DEF Process, Disturbance, Loop, HasMessage, Receive, ReceiveNothing,
           ReceiveUnreadable, ReceiveMessage, HandledMaxRetries, EnterWriteLock,
           ForwardToErrorQueue, ExceptionMissing,
           HandleMessage, Commit, Rollback, IncrementFailuresForMessage,
           IncrementSwallowed, FindFailures, ClearFailuresForMessage, QueueUnavailable,
           FaultManagerFails, AbortHandlingCurrentMessage, CommitFails
      <4>2. pc[t] \in Holding /\ InFlight(t) /\ HasOwnId(msg[t])
        BY <1>0, <4>1 DEF Holding, InFlight, HasOwnId
      <4>3. Id(t) \in Ids /\ failed[Id(t)] \in Int
        BY <4>2, IdType
      <4>4. CASE ForwardToErrorQueue(u) \/ FaultManagerFails(u) \/ ClearFailuresForMessage(u)
        <5>1. failed'[Id(t)] = failed[Id(t)]
          BY <3>2, <4>2, <4>4, NobodyForgets
          DEF ForwardToErrorQueue, FaultManagerFails, ClearFailuresForMessage
        <5>2. QED
          BY <4>1, <4>3, <5>1
      <4>5. CASE CommitFails(u) \/ Rollback(u)
        <5>1. failed' = [failed EXCEPT ![Id(u)] = @ + 1] \/ failed' = failed
          BY <4>5 DEF CommitFails, Rollback
        <5>2. failed'[Id(t)] >= failed[Id(t)]
          BY <4>3, <5>1
        <5>3. QED
          BY <4>1, <5>2
      <4>6. CASE failed' = failed
        BY <4>1, <4>3, <4>6
      <4>7. QED
        BY <2>3, <4>4, <4>5, <4>6
        DEF Process, Disturbance, Loop, HasMessage, Receive, ReceiveNothing,
           ReceiveUnreadable, ReceiveMessage, HandledMaxRetries, EnterWriteLock,
           ExceptionMissing, HandleMessage, Commit, IncrementFailuresForMessage,
           IncrementSwallowed, FindFailures, QueueUnavailable, AbortHandlingCurrentMessage
    <3>3. QED
      BY <3>1, <3>2
  <2>4. QED
    BY <2>1, <2>2, <2>3 DEF Next
<1>2. CASE Waiting
  <2>1. HasOwnId(msg[t]) /\ Id(t)' = Id(t) /\ Id(t) \in Ids
    BY <1>0, <1>2, IdType DEF HasOwnId, Id, Holding
  <2>2. failed[Id(t)] >= MaxRetries /\ failed[Id(t)] \in Int
    BY <1>2, <2>1 DEF SeenToFail
  <2>3. failed'[Id(t)] \in Int
    BY <2>1, Layer1Step
  <2>4. QED
    BY <1>2, <2>1, <2>2, <2>3, BoundsAssumption
<1>3. CASE Checked
  <2>1. Id(t)' = Id(t) /\ failed' = failed
    BY <1>0, <1>3 DEF HandledMaxRetries, Id
  <2>2. Id(t) \in Ids
    BY <1>3, IdType DEF HandledMaxRetries, Holding
  <2>3. failed[Id(t)] = failuresPerMessage[Id(t)] + Cardinality(Unrecorded(Id(t)))
    BY <2>2 DEF Layer2, FailuresAccounted
  <2>4. failuresPerMessage[Id(t)] \in Nat /\ Cardinality(Unrecorded(Id(t))) \in Nat
    BY <2>2, UnrecordedFinite
  <2>5. QED
    BY <1>3, <2>1, <2>3, <2>4, BoundsAssumption DEF Exhausted
<1>4. QED
  BY <1>1, <1>2, <1>3

(* The reasons hold in every state. *)
THEOREM Layer6Correct == Spec => []Layer6
<1>1. Layer1 /\ Layer2 /\ Layer3 /\ Layer4 /\ Layer6 /\ [Next]_vars => Layer6'
  BY DroppedHaltsStep, ClearedIsSettledStep, SeenToFailStep DEF Layer6
<1>2. QED
  BY Layer1Correct, Layer2Correct, Layer3Correct, Layer4Correct, Layer6Init, <1>1, PTL
  DEF Spec

GivenUpStep ==
  /\ \A m \in dropped' \ dropped :
       Transactional => m \in Unreadable \/ \A t \in Threads : stopRequested'[t]
  /\ \A t \in Threads :
       pc[t] = "faultManager" /\ pc'[t] = "commit" /\ HasOwnId(msg[t])
         => failed[Id(t)] >= MaxRetries

LEMMA GivenUpNext ==
  Layer1 /\ Layer6 /\ [Next]_vars => [GivenUpStep]_vars
<1> SUFFICES ASSUME Layer1, Layer6, [Next]_vars PROVE GivenUpStep \/ UNCHANGED vars
  OBVIOUS
<1> USE DEF Layer1, Types, Goto, threadVars, failureVars, fateVars
<1>1. ASSUME Next, NEW m \in dropped' \ dropped, Transactional
      PROVE  m \in Unreadable \/ \A t \in Threads : stopRequested'[t]
  <2>1. CASE Crash
    BY <1>1, <2>1 DEF Crash
  <2>2. ASSUME NEW t \in Threads, Process(t) \/ Disturbance(t)
        PROVE  m \in Unreadable \/ \A u \in Threads : stopRequested'[u]
    <3>1. CASE Commit(t)
      BY <1>1, <3>1 DEF Commit, Layer6, DroppedHalts
    <3>2. ASSUME NEW n \in Messages, ReceiveUnreadable(t, n) PROVE m \in Unreadable
      BY <1>1, <3>2 DEF ReceiveUnreadable
    <3>3. CASE Rollback(t)
      BY <1>1, <3>3 DEF Rollback
    <3>4. CASE dropped' = dropped
      BY <1>1, <3>4
    <3>5. QED
      BY <2>2, <3>1, <3>2, <3>3, <3>4
      DEF Process, Disturbance, Loop, HasMessage, Receive, ReceiveNothing, ReceiveMessage,
         HandledMaxRetries, EnterWriteLock, ForwardToErrorQueue, ExceptionMissing,
         HandleMessage, IncrementFailuresForMessage, IncrementSwallowed, FindFailures,
         ClearFailuresForMessage, QueueUnavailable, FaultManagerFails,
         AbortHandlingCurrentMessage, CommitFails
  <2>3. QED
    BY <1>1, <2>1, <2>2 DEF Next
<1>2. \A t \in Threads :
        pc[t] = "faultManager" /\ pc'[t] = "commit" /\ HasOwnId(msg[t])
          => failed[Id(t)] >= MaxRetries
  BY DEF Layer6, SeenToFail
<1>3. QED
  BY <1>1, <1>2 DEF GivenUpStep

(* A message is given up for a reason only: forwarding it failed and every *)
(* thread is told to stop, or it has failed as often as configured.        *)
THEOREM GivenUpForAReasonCorrect == Spec => GivenUpForAReason
<1>1. Layer1 /\ Layer6 /\ [Next]_vars => [GivenUpStep]_vars
  BY GivenUpNext
<1>2. Spec => [][GivenUpStep]_vars
  BY Layer1Correct, Layer6Correct, <1>1, PTL DEF Spec
<1>3. QED
  BY <1>2 DEF GivenUpForAReason, GivenUpStep

-----------------------------------------------------------------------------
(* The initial states of the transport are initial states of Settlement.   *)
LEMMA SettlementInit == Init => Abstract!Init
  BY DEF Init, Abstract!Init, Fate, Unsettled

FateMap == [m \in Messages |-> Fate(m)]

LEMMA UnsettledMessages == Layer1 => Unsettled \subseteq Messages
  BY DEF Layer1, Types, HasMsg, Holding, Unsettled, InFlight

LEMMA UnsettledApart == Layer4 => Unsettled \cap (handled \cup dropped) = {}
  BY DEF Layer4, SettledIsGone, Unsettled

(* Every step of the transport settles a message, settles the messages in  *)
(* flight of a dying process, or leaves every fate as it is.               *)
LEMMA SettlementStep ==
  Layer1 /\ Layer3 /\ Layer4 /\ [Next]_vars => [Abstract!Next]_FateMap
<1> SUFFICES ASSUME Layer1, Layer3, Layer4, [Next]_vars
             PROVE  [Abstract!Next]_FateMap
  OBVIOUS
<1>1. Layer4' /\ (NothingSettled \/ OneSettled \/ InFlightDropped)
  BY FateStep
<1>2. Unsettled \subseteq Messages
  BY UnsettledMessages
<1>3. FateMap' = [m \in Messages |-> Fate(m)']
  BY DEF FateMap
<1>4. CASE NothingSettled
  <2>1. \A m \in Messages : Fate(m)' = Fate(m)
    BY <1>4 DEF NothingSettled, Fate
  <2>2. FateMap' = FateMap
    BY <2>1, <1>3 DEF FateMap
  <2>3. QED
    BY <2>2
<1>5. CASE OneSettled
  <2>1. PICK m \in Unsettled :
               /\ Unsettled' = Unsettled \ {m}
               /\ \A n \in Messages \ {m} : /\ n \in handled' <=> n \in handled
                                            /\ n \in dropped' <=> n \in dropped
    BY <1>5 DEF OneSettled
  <2>2. m \in Messages
    BY <1>2, <2>1
  <2>3. \A n \in Messages \ {m} : Fate(n)' = Fate(n)
    BY <2>1 DEF Fate
  <2>4. Fate(m) = "pending"
    BY <2>1 DEF Fate
  <2>5. Fate(m)' \in Abstract!Fates
    BY <2>1 DEF Fate, Abstract!Fates
  <2>6. FateMap' = [FateMap EXCEPT ![m] = Fate(m)']
    BY <1>3, <2>2, <2>3 DEF FateMap
  <2>7. Abstract!Settle(m)
    BY <2>2, <2>4, <2>5, <2>6 DEF Abstract!Settle, FateMap
  <2>8. QED
    BY <2>2, <2>7 DEF Abstract!Next
<1>6. CASE InFlightDropped
  <2> DEFINE D == Unsettled \ queue
  <2>1. Unsettled' = queue /\ handled' = handled /\ dropped' = dropped \cup D
    BY <1>6 DEF InFlightDropped
  <2>2. Unsettled \cap (handled \cup dropped) = {} /\ queue \subseteq Unsettled
    BY UnsettledApart DEF Unsettled
  <2>3. \A m \in D : Fate(m) = "pending" /\ Fate(m)' = "dropped"
    BY <2>1, <2>2 DEF Fate
  <2>4. \A m \in Messages \ D : Fate(m)' = Fate(m)
    BY <2>1, <2>2 DEF Fate
  <2>5. FateMap' = [m \in Messages |-> IF m \in D THEN "dropped" ELSE FateMap[m]]
    BY <1>3, <2>3, <2>4 DEF FateMap
  <2>6. D \in SUBSET {m \in Messages : FateMap[m] = "pending"}
    BY <1>2, <2>3 DEF FateMap
  <2>7. Abstract!DropAll
    BY <2>5, <2>6 DEF Abstract!DropAll, FateMap
  <2>8. QED
    BY <2>7 DEF Abstract!Next
<1>7. QED
  BY <1>1, <1>4, <1>5, <1>6

(* The transport implements Settlement: each message is settled once, by   *)
(* one of the three fates, and is never pending or otherwise settled       *)
(* afterwards, whatever the threads, the locks and the crashes do.         *)
THEOREM TransportImplementsSettlement == Spec => SettledOnce
<1>1. Init => Abstract!Init
  BY SettlementInit
<1>2. Layer1 /\ Layer3 /\ Layer4 /\ [Next]_vars
        => [Abstract!Next]_([m \in Messages |-> Fate(m)])
  BY SettlementStep DEF FateMap
<1>3. QED
  BY Layer1Correct, Layer3Correct, Layer4Correct, <1>1, <1>2, PTL
  DEF Spec, SettledOnce, Abstract!Spec
=============================================================================
