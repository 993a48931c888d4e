----------------------- MODULE TransactionalTransport -----------------------
(***************************************************************************)
(* The receiving side of an endpoint (TransactionalTransport.cs).  A fixed *)
(* set of worker threads repeats Process: peek, receive inside a           *)
(* transaction, run the handlers, commit or roll back, and keep in memory  *)
(* how often each message id has failed, so that a message that keeps      *)
(* failing is handed to the fault manager and consumed.                    *)
(*                                                                         *)
(* The interesting part is what the transaction does not cover: the        *)
(* failure count is written after the rollback, when another thread may    *)
(* already hold the message again; the count is read under the read lock   *)
(* and acted on under the write lock; it lives in memory and dies with the *)
(* process.  Ids may be shared: Id is the OriginalId header when there is  *)
(* one (MsmqUtilities.cs:387), so a message an operator returns from the   *)
(* error queue has the id of any copy still in the queue.                  *)
(***************************************************************************)
EXTENDS Naturals, FiniteSets

CONSTANTS
  Threads,          \* worker threads of the process
  Messages,         \* physical messages in the input queue at the start
  Ids,              \* message ids
  IdMaps,           \* ways in which the messages may share ids
  Unreadable,       \* messages MsmqUtilities.Convert cannot convert
  Modes,            \* configurations to consider, see AllModes
  MaxRetries,       \* failures recorded before the fault manager is called
  MaxDisturbances,  \* bound on aborts, crashes, failed commits, failed sends
  NoThread, NoMessage

AllModes == {"dtc", "suppressed", "nontransactional"}

ASSUME ThreadsAssumption == IsFiniteSet(Threads) /\ NoThread \notin Threads
ASSUME MessagesAssumption ==
  /\ NoMessage \notin Messages
  /\ IdMaps \subseteq [Messages -> Ids]
  /\ Unreadable \subseteq Messages
ASSUME BoundsAssumption ==
  /\ Modes \subseteq AllModes
  /\ MaxRetries \in Nat \ {0}
  /\ MaxDisturbances \in Nat

VARIABLES
  mode,                   \* IsTransactional and SupressDTC, fixed at start-up
  idOf,                   \* the id of each message, see Id above
  queue,                  \* messages visible in the input queue
  handled,                \* messages whose handling was committed
  dropped,                \* messages consumed with no handling committed
  errorQueue,             \* copies of each message in the error queue
  pc, msg, result,        \* per thread: next step, _messageId, outcome so far
  stopRequested,          \* per thread: WorkerThread.stopRequested
  failuresPerMessage,     \* failures recorded for each id, 0 is "no entry"
  exceptionsForMessages,  \* ids that have an entry with the last exception
  writer,                 \* holder of failuresPerMessageLocker's write lock
  failed,                 \* bookkeeping: failed attempts not yet cleared
  disturbances            \* bookkeeping: disturbances so far

threadVars == <<pc, msg, result, stopRequested>>
failureVars == <<failuresPerMessage, exceptionsForMessages, writer, failed>>
fateVars == <<queue, handled, dropped, errorQueue>>
vars == <<mode, idOf, fateVars, threadVars, failureVars, disturbances>>

Labels == {"loop", "peek", "receive", "maxRetries", "enterFault", "faultManager",
           "handle", "commit", "rollback", "increment", "clear", "clearWrite",
           "stopped"}
Results == {"none", "handled", "failed", "aborted", "forwarded", "dropped"}

Transactional == mode # "nontransactional"

(* The message of thread t has been received and its fate is still open.   *)
InFlight(t) == pc[t] \in {"maxRetries", "enterFault", "faultManager",
                          "handle", "commit", "rollback"}

Unsettled == queue \cup {msg[t] : t \in {u \in Threads : InFlight(u)}}

Id(t) == idOf[msg[t]]

(* Threads with a rolled back attempt of id i that IncrementFailures has   *)
(* yet to record.  A thread that comes here with the write lock still held *)
(* (see InvokeFaultManager) will record nothing.                           *)
Unrecorded(i) ==
  {t \in Threads : pc[t] = "increment" /\ msg[t] \in Messages
                   /\ Id(t) = i /\ writer # t}

Goto(t, label) == pc' = [pc EXCEPT ![t] = label]

Disturb == /\ disturbances < MaxDisturbances
           /\ disturbances' = disturbances + 1

(* Configure.OnCriticalError with the default action:                      *)
(* ChangeNumberOfWorkerThreads(0), which stops every thread of the pool.   *)
OnCriticalError == stopRequested' = [t \in Threads |-> TRUE]
-----------------------------------------------------------------------------
Init ==
  /\ mode \in Modes
  /\ idOf \in IdMaps
  /\ queue = Messages
  /\ handled = {}
  /\ dropped = {}
  /\ errorQueue = [m \in Messages |-> 0]
  /\ pc = [t \in Threads |-> "loop"]
  /\ msg = [t \in Threads |-> NoMessage]
  /\ result = [t \in Threads |-> "none"]
  /\ stopRequested = [t \in Threads |-> FALSE]
  /\ failuresPerMessage = [i \in Ids |-> 0]
  /\ exceptionsForMessages = {}
  /\ writer = NoThread
  /\ failed = [i \in Ids |-> 0]
  /\ disturbances = 0

(* WorkerThread.Loop reads stopRequested, once before each call of         *)
(* Process: a thread that is told to stop after that takes one more        *)
(* message.  Nothing restarts a thread that has stopped.                   *)
Loop(t) ==
  /\ pc[t] = "loop"
  /\ Goto(t, IF stopRequested[t] THEN "stopped" ELSE "peek")
  /\ UNCHANGED <<mode, idOf, fateVars, msg, result, stopRequested, failureVars,
                 disturbances>>

(* HasMessage peeks.  Without a message Process returns; otherwise the     *)
(* thread statics are reset, and the message is only seen: another thread  *)
(* may take it.                                                            *)
HasMessage(t) ==
  /\ pc[t] = "peek"
  /\ \/ /\ queue # {}
        /\ Goto(t, "receive")
        /\ msg' = [msg EXCEPT ![t] = NoMessage]
        /\ result' = [result EXCEPT ![t] = "none"]
     \/ /\ queue = {}
        /\ Goto(t, "loop")
        /\ UNCHANGED <<msg, result>>
  /\ UNCHANGED <<mode, idOf, fateVars, stopRequested, failureVars,
                 disturbances>>

(* The queue cannot be peeked or read: InvalidOperationException.          *)
QueueUnavailable(t) ==
  /\ pc[t] \in {"peek", "receive"}
  /\ Disturb
  /\ OnCriticalError
  /\ Goto(t, "loop")
  /\ UNCHANGED <<mode, idOf, fateVars, msg, result, failureVars>>

(* Receive found nothing: ReceiveMessage returns, the empty transaction    *)
(* commits and ClearFailuresForMessage("") finds no entry.                 *)
ReceiveNothing(t) ==
  /\ pc[t] = "receive"
  /\ queue = {}
  /\ Goto(t, "loop")
  /\ UNCHANGED <<mode, idOf, fateVars, msg, result, stopRequested, failureVars,
                 disturbances>>

(* The message was taken from the queue and could not be converted.        *)
(* Receive logs the exception and returns null, so the transaction that    *)
(* took the message commits.                                               *)
ReceiveUnreadable(t, m) ==
  /\ pc[t] = "receive"
  /\ m \in queue \cap Unreadable
  /\ queue' = queue \ {m}
  /\ dropped' = dropped \cup {m}
  /\ Goto(t, "loop")
  /\ UNCHANGED <<mode, idOf, handled, errorQueue, msg, result, stopRequested,
                 failureVars, disturbances>>

(* The message is taken inside the transaction and the subscribers of      *)
(* StartedMessageProcessing run; r = "failed" when one of them threw.      *)
ReceiveMessage(t, m, r) ==
  /\ pc[t] = "receive"
  /\ m \in queue \ Unreadable
  /\ queue' = queue \ {m}
  /\ msg' = [msg EXCEPT ![t] = m]
  /\ result' = [result EXCEPT ![t] = r]
  /\ Goto(t, IF Transactional THEN "maxRetries"
             ELSE IF r = "failed" THEN "rollback" ELSE "handle")
  /\ UNCHANGED <<mode, idOf, handled, dropped, errorQueue, stopRequested,
                 failureVars, disturbances>>

(* Mutants of Exhausted: one failure too many, one too few.                *)
ExhaustedLate(i) == failuresPerMessage[i] > MaxRetries
ExhaustedEarly(i) == failuresPerMessage[i] + 1 >= MaxRetries

(* HandledMaxRetries under the read lock: the count decides, and the lock  *)
(* is released before the write lock is asked for.                         *)
Exhausted(i) == failuresPerMessage[i] >= MaxRetries

HandledMaxRetries(t) ==
  /\ pc[t] = "maxRetries"
  /\ writer = NoThread
  /\ Goto(t, IF Exhausted(Id(t)) THEN "enterFault"
             ELSE IF result[t] = "failed" THEN "rollback" ELSE "handle")
  /\ UNCHANGED <<mode, idOf, fateVars, msg, result, stopRequested, failureVars,
                 disturbances>>

EnterWriteLock(t) ==
  /\ pc[t] = "enterFault"
  /\ writer = NoThread
  /\ writer' = t
  /\ Goto(t, "faultManager")
  /\ UNCHANGED <<mode, idOf, fateVars, msg, result, stopRequested,
                 failuresPerMessage, exceptionsForMessages, failed,
                 disturbances>>

(* Mutant of Forget: the entry with the count is left behind.              *)
ForgetException(i) ==
  /\ failuresPerMessage' = failuresPerMessage
  /\ exceptionsForMessages' = exceptionsForMessages \ {i}
  /\ failed' = [failed EXCEPT ![i] = @ - failuresPerMessage[i]]

(* Both dictionaries forget id i; what is forgotten is no longer owed.     *)
Forget(i) ==
  /\ failuresPerMessage' = [failuresPerMessage EXCEPT ![i] = 0]
  /\ exceptionsForMessages' = exceptionsForMessages \ {i}
  /\ failed' = [failed EXCEPT ![i] = @ - failuresPerMessage[i]]

(* Mutant of ForwardToErrorQueue: the send is not enlisted in the          *)
(* transaction.                                                            *)
ForwardNotEnlisted(t) ==
  /\ pc[t] = "faultManager"
  /\ Id(t) \in exceptionsForMessages
  /\ result' = [result EXCEPT ![t] = "forwarded"]
  /\ errorQueue' = [errorQueue EXCEPT ![msg[t]] = @ + 1]
  /\ Forget(Id(t))
  /\ writer' = NoThread
  /\ Goto(t, "commit")
  /\ UNCHANGED <<mode, idOf, queue, handled, dropped, msg, stopRequested,
                 disturbances>>

(* The fault manager forwards the message.  The send belongs to the        *)
(* transaction, unless SupressDTC runs ProcessMessage outside it.          *)
ForwardToErrorQueue(t) ==
  /\ pc[t] = "faultManager"
  /\ Id(t) \in exceptionsForMessages
  /\ result' = [result EXCEPT ![t] = "forwarded"]
  /\ errorQueue' = IF mode = "suppressed"
                   THEN [errorQueue EXCEPT ![msg[t]] = @ + 1] ELSE errorQueue
  /\ Forget(Id(t))
  /\ writer' = NoThread
  /\ Goto(t, "commit")
  /\ UNCHANGED <<mode, idOf, queue, handled, dropped, msg, stopRequested,
                 disturbances>>

(* Mutant of FaultManagerFails: the critical error is not raised.          *)
FaultManagerFailsQuietly(t) ==
  /\ pc[t] = "faultManager"
  /\ Id(t) \in exceptionsForMessages
  /\ Disturb
  /\ result' = [result EXCEPT ![t] = "dropped"]
  /\ Forget(Id(t))
  /\ writer' = NoThread
  /\ Goto(t, "commit")
  /\ UNCHANGED <<mode, idOf, fateVars, msg, stopRequested>>

(* The fault manager throws: a critical error, but HandledMaxRetries still *)
(* returns true and the message is consumed.                               *)
FaultManagerFails(t) ==
  /\ pc[t] = "faultManager"
  /\ Id(t) \in exceptionsForMessages
  /\ Disturb
  /\ OnCriticalError
  /\ result' = [result EXCEPT ![t] = "dropped"]
  /\ Forget(Id(t))
  /\ writer' = NoThread
  /\ Goto(t, "commit")
  /\ UNCHANGED <<mode, idOf, fateVars, msg>>

(* exceptionsForMessages[messageId] throws: a thread with the same id got  *)
(* here first.  The write lock stays held through the rollback, until the  *)
(* finally block of IncrementFailuresForMessage exits it.                  *)
ExceptionMissing(t) ==
  /\ pc[t] = "faultManager"
  /\ Id(t) \notin exceptionsForMessages
  /\ result' = [result EXCEPT ![t] = "failed"]
  /\ Goto(t, "rollback")
  /\ UNCHANGED <<mode, idOf, fateVars, msg, stopRequested, failureVars,
                 disturbances>>
-----------------------------------------------------------------------------
(* The handlers and the message modules run.  Abort takes precedence over  *)
(* an exception.  Without a transaction there is nothing to commit.        *)
HandleMessage(t, r) ==
  /\ pc[t] = "handle"
  /\ r \in {"handled", "failed"}
  /\ result' = [result EXCEPT ![t] = r]
  /\ handled' = IF r = "handled" /\ ~ Transactional THEN handled \cup {msg[t]}
                ELSE handled
  /\ Goto(t, IF r = "failed" THEN "rollback"
             ELSE IF Transactional THEN "commit" ELSE "clear")
  /\ UNCHANGED <<mode, idOf, queue, dropped, errorQueue, msg, stopRequested,
                 failureVars, disturbances>>

AbortHandlingCurrentMessage(t) ==
  /\ pc[t] = "handle"
  /\ Disturb
  /\ result' = [result EXCEPT ![t] = "aborted"]
  /\ Goto(t, "rollback")
  /\ UNCHANGED <<mode, idOf, fateVars, msg, stopRequested, failureVars>>

Commit(t) ==
  /\ pc[t] = "commit"
  /\ handled' = IF result[t] = "handled" THEN handled \cup {msg[t]} ELSE handled
  /\ dropped' = IF result[t] = "dropped" THEN dropped \cup {msg[t]} ELSE dropped
  /\ errorQueue' = IF result[t] = "forwarded" /\ mode = "dtc"
                   THEN [errorQueue EXCEPT ![msg[t]] = @ + 1] ELSE errorQueue
  /\ Goto(t, "clear")
  /\ UNCHANGED <<mode, idOf, queue, msg, result, stopRequested, failureVars,
                 disturbances>>

(* Disposing the scope throws, as when the transaction timed out: the      *)
(* message is back in the queue and the exception counts as a failure.     *)
CommitFails(t) ==
  /\ pc[t] = "commit"
  /\ Disturb
  /\ queue' = queue \cup {msg[t]}
  /\ result' = [result EXCEPT ![t] = "failed"]
  /\ failed' = [failed EXCEPT ![Id(t)] = @ + 1]
  /\ Goto(t, "increment")
  /\ UNCHANGED <<mode, idOf, handled, dropped, errorQueue, msg, stopRequested,
                 failuresPerMessage, exceptionsForMessages, writer>>

(* The exception leaves the transaction scope.  Only now is the failure    *)
(* about to be counted, and the message is visible to the other threads.   *)
Rollback(t) ==
  /\ pc[t] = "rollback"
  /\ queue' = IF Transactional THEN queue \cup {msg[t]} ELSE queue
  /\ dropped' = IF Transactional THEN dropped ELSE dropped \cup {msg[t]}
  /\ failed' = IF Transactional /\ result[t] = "failed" /\ writer # t
               THEN [failed EXCEPT ![Id(t)] = @ + 1] ELSE failed
  /\ Goto(t, IF Transactional /\ result[t] = "failed" THEN "increment" ELSE "loop")
  /\ UNCHANGED <<mode, idOf, handled, errorQueue, msg, result, stopRequested,
                 failuresPerMessage, exceptionsForMessages, writer,
                 disturbances>>

(* Mutant of IncrementFailuresForMessage: every failure is a first one.    *)
IncrementFromZero(t) ==
  /\ pc[t] = "increment"
  /\ writer = NoThread
  /\ failuresPerMessage' = [failuresPerMessage EXCEPT ![Id(t)] = 1]
  /\ exceptionsForMessages' = exceptionsForMessages \cup {Id(t)}
  /\ Goto(t, "loop")
  /\ UNCHANGED <<mode, idOf, fateVars, msg, result, stopRequested, writer,
                 failed, disturbances>>

IncrementFailuresForMessage(t) ==
  /\ pc[t] = "increment"
  /\ writer = NoThread
  /\ failuresPerMessage' = [failuresPerMessage EXCEPT ![Id(t)] = @ + 1]
  /\ exceptionsForMessages' = exceptionsForMessages \cup {Id(t)}
  /\ Goto(t, "loop")
  /\ UNCHANGED <<mode, idOf, fateVars, msg, result, stopRequested, writer,
                 failed, disturbances>>

(* Mutant of IncrementSwallowed: the finally block does not exit the lock. *)
IncrementKeepsLock(t) ==
  /\ pc[t] = "increment"
  /\ writer = t
  /\ Goto(t, "loop")
  /\ UNCHANGED <<mode, idOf, fateVars, msg, result, stopRequested, failureVars,
                 disturbances>>

(* EnterWriteLock throws LockRecursionException, which is swallowed, and   *)
(* the finally block exits the lock taken in HandledMaxRetries.            *)
IncrementSwallowed(t) ==
  /\ pc[t] = "increment"
  /\ writer = t
  /\ writer' = NoThread
  /\ Goto(t, "loop")
  /\ UNCHANGED <<mode, idOf, fateVars, msg, result, stopRequested,
                 failuresPerMessage, exceptionsForMessages, failed,
                 disturbances>>

(* ClearFailuresForMessage: looks under the read lock ...                  *)
FindFailures(t) ==
  /\ pc[t] = "clear"
  /\ writer = NoThread
  /\ Goto(t, IF failuresPerMessage[Id(t)] > 0 THEN "clearWrite" ELSE "loop")
  /\ UNCHANGED <<mode, idOf, fateVars, msg, result, stopRequested, failureVars,
                 disturbances>>

(* ... and removes under the write lock.                                   *)
ClearFailuresForMessage(t) ==
  /\ pc[t] = "clearWrite"
  /\ writer = NoThread
  /\ Forget(Id(t))
  /\ Goto(t, "loop")
  /\ UNCHANGED <<mode, idOf, fateVars, msg, result, stopRequested, writer,
                 disturbances>>

(* Mutant of Crash: every message a thread last received is queued again,  *)
(* settled or not.                                                         *)
CrashRequeuesAll ==
  /\ Disturb
  /\ queue' = queue \cup {msg[t] : t \in {u \in Threads : msg[u] # NoMessage}}
  /\ pc' = [t \in Threads |-> "loop"]
  /\ msg' = [t \in Threads |-> NoMessage]
  /\ result' = [t \in Threads |-> "none"]
  /\ stopRequested' = [t \in Threads |-> FALSE]
  /\ failuresPerMessage' = [i \in Ids |-> 0]
  /\ exceptionsForMessages' = {}
  /\ writer' = NoThread
  /\ failed' = [i \in Ids |-> 0]
  /\ UNCHANGED <<mode, idOf, handled, dropped, errorQueue>>

(* The process dies and is started again: the transactions in flight roll  *)
(* back, what was in memory is gone, Start creates the threads anew.       *)
Crash ==
  /\ Disturb
  /\ queue' = IF Transactional THEN Unsettled ELSE queue
  /\ dropped' = IF Transactional THEN dropped ELSE dropped \cup (Unsettled \ queue)
  /\ pc' = [t \in Threads |-> "loop"]
  /\ msg' = [t \in Threads |-> NoMessage]
  /\ result' = [t \in Threads |-> "none"]
  /\ stopRequested' = [t \in Threads |-> FALSE]
  /\ failuresPerMessage' = [i \in Ids |-> 0]
  /\ exceptionsForMessages' = {}
  /\ writer' = NoThread
  /\ failed' = [i \in Ids |-> 0]
  /\ UNCHANGED <<mode, idOf, handled, errorQueue>>
-----------------------------------------------------------------------------
Receive(t) ==
  \/ ReceiveNothing(t)
  \/ \E m \in Messages : ReceiveUnreadable(t, m)
  \/ \E m \in Messages, r \in {"none", "failed"} : ReceiveMessage(t, m, r)

(* What a thread does when nothing but the handlers goes wrong.            *)
Process(t) ==
  \/ Loop(t) \/ HasMessage(t) \/ Receive(t) \/ HandledMaxRetries(t)
  \/ EnterWriteLock(t) \/ ForwardToErrorQueue(t) \/ ExceptionMissing(t)
  \/ \E r \in Results : HandleMessage(t, r)
  \/ Commit(t) \/ Rollback(t) \/ IncrementFailuresForMessage(t)
  \/ IncrementSwallowed(t) \/ FindFailures(t) \/ ClearFailuresForMessage(t)

Disturbance(t) ==
  \/ QueueUnavailable(t) \/ FaultManagerFails(t)
  \/ AbortHandlingCurrentMessage(t) \/ CommitFails(t)

Next == Crash \/ \E t \in Threads : Process(t) \/ Disturbance(t)

(* Every worker thread is an operating system thread in a loop: it keeps   *)
(* taking steps.  Locks are released, so weak fairness is enough.          *)
Spec == Init /\ [][Next]_vars /\ \A t \in Threads : WF_vars(Process(t))
-----------------------------------------------------------------------------
TypeOK ==
  /\ mode \in AllModes
  /\ idOf \in IdMaps
  /\ queue \subseteq Messages
  /\ handled \subseteq Messages
  /\ dropped \subseteq Messages
  /\ errorQueue \in [Messages -> Nat]
  /\ pc \in [Threads -> Labels]
  /\ msg \in [Threads -> Messages \cup {NoMessage}]
  /\ result \in [Threads -> Results]
  /\ stopRequested \in [Threads -> BOOLEAN]
  /\ failuresPerMessage \in [Ids -> Nat]
  /\ exceptionsForMessages \subseteq Ids
  /\ writer \in Threads \cup {NoThread}
  /\ failed \in [Ids -> Nat]
  /\ disturbances \in Nat

(* No failed attempt is counted twice and none is forgotten: each one is   *)
(* in the dictionary or is about to be written there by the one thread     *)
(* that made it, whatever the threads with the same id do meanwhile.       *)
FailuresAccounted ==
  \A i \in Ids : failed[i] = failuresPerMessage[i] + Cardinality(Unrecorded(i))

(* A message that keeps failing reaches the handlers at most MaxRetries    *)
(* times, plus once for each other thread: the count is written after the  *)
(* rollback, so up to that many attempts may be running on an old count.   *)
RetriesBounded ==
  \A i \in Ids : failed[i] + 1 <= MaxRetries + Cardinality(Threads)

IsDead(m) == m \notin Unsettled \cup handled \cup dropped

(* A message consumed because it failed too often is in the error queue,   *)
(* and exactly once when forwarding is part of the receive transaction; no *)
(* other message is there then.  With SupressDTC a copy may be left behind *)
(* by a forward whose receive did not commit.                              *)
DeadLettersKept ==
  \A m \in Messages :
    /\ IsDead(m) => errorQueue[m] > 0
    /\ mode = "dtc" => errorQueue[m] = IF IsDead(m) THEN 1 ELSE 0

(* When a message shares its id with no other the count cannot be taken    *)
(* away between the check and the write lock.                              *)
HasOwnId(m) == \A other \in Messages : idOf[other] = idOf[m] => other = m

(* A message is given up for a reason only.  With a transaction, a         *)
(* readable one is consumed without a trace only when forwarding it        *)
(* failed, and then every thread has been told to stop; and one that       *)
(* shares its id with no other is handed to the fault manager only if it   *)
(* has failed MaxRetries times since the process began.                    *)
GivenUpForAReason ==
  [][/\ \A m \in dropped' \ dropped :
          Transactional => m \in Unreadable \/ \A t \in Threads : stopRequested'[t]
     /\ \A t \in Threads :
          pc[t] = "faultManager" /\ pc'[t] = "commit" /\ HasOwnId(msg[t])
            => failed[Id(t)] >= MaxRetries]_vars

(* The transport settles each message once and for good.                   *)
Fate(m) == IF m \in Unsettled THEN "pending"
           ELSE IF m \in handled THEN "handled"
           ELSE IF m \in dropped THEN "dropped" ELSE "dead"
Abstract == INSTANCE Settlement WITH fate <- [m \in Messages |-> Fate(m)]
SettledOnce == Abstract!Spec

(* No message stays in the queue for ever: again and again there is a time *)
(* at which all are settled, or the process has met a critical error and   *)
(* its threads are stopping.  HandledMaxRetries may throw while it holds   *)
(* the write lock: only if IncrementFailuresForMessage gives it back does  *)
(* anything go on.                                                         *)
EverySettled ==
  []<>(\A m \in Messages : m \notin Unsettled \/ \A t \in Threads : stopRequested[t])
=============================================================================
