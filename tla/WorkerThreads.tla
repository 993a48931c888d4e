--------------------------- MODULE WorkerThreads ---------------------------
(***************************************************************************)
(* The worker threads of one transport: the list TransactionalTransport    *)
(* keeps under its lock, and the stop flag of each thread.  A thread that  *)
(* is told to stop finishes the call it is in, and stays in the list until *)
(* its Stopped event removes it: the count the list gives is not the count *)
(* of the threads that will go on working.  Threads are added at the end   *)
(* and have increasing numbers, so the list is the set of its threads.     *)
(***************************************************************************)
EXTENDS Naturals, FiniteSets

VARIABLES
  workerThreads,      \* the list, threads numbered as they are created
  stopRequested,      \* the threads of the list that were told to stop
  created             \* bookkeeping: number of threads created so far

poolVars == <<workerThreads, stopRequested, created>>

InitThreads ==
  /\ workerThreads = {}
  /\ stopRequested = {}
  /\ created = 0

(* AddWorkerThread().Start(), n times under one lock.                      *)
AddWorkerThreads(n) ==
  /\ workerThreads' = workerThreads \cup (created + 1 .. created + n)
  /\ created' = created + n
  /\ UNCHANGED stopRequested

(* Stop on every thread of the list but the first n.                       *)
Before(t) == {u \in workerThreads : u < t}

StopAllBut(n) ==
  /\ stopRequested' = stopRequested \cup
                         {t \in workerThreads : Cardinality(Before(t)) >= n}
  /\ UNCHANGED <<workerThreads, created>>

Count == Cardinality(workerThreads)

(* Mutant of ChangeNumberOfWorkerThreads: shrinking leaves one too many.   *)
ChangeLeavesOne(n) ==
  \/ n = Count /\ UNCHANGED poolVars
  \/ n < Count /\ StopAllBut(n + 1)
  \/ n > Count /\ AddWorkerThreads(n - Count)

ChangeNumberOfWorkerThreads(n) ==
  \/ n = Count /\ UNCHANGED poolVars
  \/ n < Count /\ StopAllBut(n)
  \/ n > Count /\ AddWorkerThreads(n - Count)

(* Mutant of Stopped: the last thread is removed, not the one that ended.   *)
StoppedRemovesLast(t) ==
  /\ t \in stopRequested
  /\ workerThreads' = {u \in workerThreads : \E v \in workerThreads : u < v}
  /\ stopRequested' = stopRequested \ {t}
  /\ UNCHANGED created

(* The loop of thread t sees the flag: Stopped removes t from the list.    *)
Stopped(t) ==
  /\ t \in stopRequested
  /\ workerThreads' = workerThreads \ {t}
  /\ stopRequested' = stopRequested \ {t}
  /\ UNCHANGED created

(* The threads that will go on working.                                    *)
Active == workerThreads \ stopRequested
=============================================================================
