-------------------------- MODULE TransportThreads --------------------------
(***************************************************************************)
(* The callers of a transport that change the number of its worker         *)
(* threads.  They wait for Start to return, but not for the threads that   *)
(* an earlier call told to stop, which may be busy with a message.         *)
(***************************************************************************)
EXTENDS WorkerThreads

CONSTANTS
  NumberOfWorkerThreads,  \* configured number
  Targets,                \* numbers callers ask for
  MaxCalls                \* bound on the calls

VARIABLES
  toStart,            \* threads the loop in Start has yet to add
  target,             \* bookkeeping: the number last asked for
  calls               \* bookkeeping: calls so far

vars == <<poolVars, toStart, target, calls>>

Init ==
  /\ InitThreads
  /\ toStart = NumberOfWorkerThreads
  /\ target = NumberOfWorkerThreads
  /\ calls = 0

(* One turn of the loop in Start, which holds the lock for one thread.     *)
StartNext ==
  /\ toStart > 0
  /\ AddWorkerThreads(1)
  /\ toStart' = toStart - 1
  /\ UNCHANGED <<target, calls>>

Call(n) ==
  /\ toStart = 0
  /\ calls < MaxCalls
  /\ target' = n
  /\ UNCHANGED toStart

Change(n) ==
  /\ Call(n)
  /\ calls' = calls + 1
  /\ ChangeNumberOfWorkerThreads(n)

(* Dispose stops every thread; nobody calls the transport afterwards.      *)
Dispose ==
  /\ Call(0)
  /\ calls' = MaxCalls
  /\ StopAllBut(0)

ThreadStopped(t) == Stopped(t) /\ UNCHANGED <<toStart, target, calls>>

Next ==
  \/ StartNext
  \/ Dispose
  \/ \E n \in Targets : Change(n)
  \/ \E t \in stopRequested : ThreadStopped(t)

(* Start runs to its end, and a thread finishes the message it is in.      *)
Spec ==
  /\ Init /\ [][Next]_vars
  /\ WF_vars(StartNext)
  /\ WF_vars(\E t \in stopRequested : ThreadStopped(t))
-----------------------------------------------------------------------------
(* ITransport.cs:35-38: the number asked for is the number of active       *)
(* worker threads after the necessary ones have been stopped or started.   *)
(* Calls come to an end in every behaviour, so this is about the last one. *)
TargetReached == <>[](Cardinality(Active) = target)
=============================================================================
