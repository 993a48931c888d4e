------------------------- MODULE SatelliteLauncher -------------------------
(***************************************************************************)
(* One satellite (timeout manager, retries, distributor, gateway run as    *)
(* such): the launcher starts it on a thread of its own, and a timer       *)
(* starts it again when that failed, up to a number of failures.  The      *)
(* catch block marks the satellite as not started first, stops the worker  *)
(* threads of its transport next and counts the failure last, so the timer *)
(* may start it again in between: Execute can run twice at a time.         *)
(***************************************************************************)
EXTENDS WorkerThreads

CONSTANTS
  MaxFailures,        \* failed starts after which the timer gives up, 3
  MaxLaunches         \* bound on the threads the launcher creates

ASSUME SatelliteAssumption == MaxFailures \in Nat \ {0} /\ MaxLaunches \in Nat

VARIABLES
  hasTransport,       \* the satellite has an input queue, so a transport
  started,            \* SatelliteContext.Started
  failedAttempts,     \* SatelliteContext.FailedAttempts
  handlers,           \* handlers attached to TransportMessageReceived
  launches,           \* bookkeeping: threads created by StartSatellite
  execute,            \* next step of each of these threads
  read,               \* what FailedAttempts++ has read, per thread
  prompt              \* the timer (1 s) never finds a catch block running

contextVars == <<started, failedAttempts, handlers>>
launchVars == <<launches, execute, read>>
vars == <<poolVars, hasTransport, contextVars, launchVars, prompt>>

Launches == 1..MaxLaunches
InCatch == {"markStopped", "stopThreads", "readFailed", "writeFailed"}
Ended == {"idle", "running", "failed"}
Steps == {"startTransport", "startInstance"} \cup InCatch \cup Ended

(* No thread is inside Execute.                                            *)
Quiescent == \A e \in Launches : execute[e] \in Ended

Goto(e, step) == execute' = [execute EXCEPT ![e] = step]

Init ==
  /\ InitThreads
  /\ hasTransport \in BOOLEAN
  /\ started = FALSE
  /\ failedAttempts = 0
  /\ handlers = 0
  /\ launches = 0
  /\ execute = [e \in Launches |-> "idle"]
  /\ read = [e \in Launches |-> 0]
  /\ prompt \in BOOLEAN

(* The timer elapses, or Run starts the satellites: the one that is not    *)
(* started and has not failed too often gets a thread.                     *)
Start ==
  /\ ~ started
  /\ failedAttempts < MaxFailures
  /\ launches < MaxLaunches
  /\ prompt => \A e \in Launches : execute[e] \notin InCatch
  /\ started' = TRUE
  /\ launches' = launches + 1
  /\ Goto(launches + 1, "startTransport")
  /\ UNCHANGED <<poolVars, hasTransport, failedAttempts, handlers, read, prompt>>

(* Mutant of StartTransport: one thread is asked for, not added.           *)
StartTransportWithOne(e) ==
  /\ execute[e] = "startTransport"
  /\ IF hasTransport
     THEN handlers' = handlers + 1 /\ ChangeNumberOfWorkerThreads(1)
     ELSE UNCHANGED <<handlers, poolVars>>
  /\ Goto(e, "startInstance")
  /\ UNCHANGED <<hasTransport, started, failedAttempts, launches, read, prompt>>

(* Execute attaches the handler, once more at every attempt, and starts    *)
(* the transport, which has one worker thread.                             *)
StartTransport(e) ==
  /\ execute[e] = "startTransport"
  /\ IF hasTransport
     THEN handlers' = handlers + 1 /\ AddWorkerThreads(1)
     ELSE UNCHANGED <<handlers, poolVars>>
  /\ Goto(e, "startInstance")
  /\ UNCHANGED <<hasTransport, started, failedAttempts, launches, read, prompt>>

(* Init of the receiver or of the failure manager throws before a worker   *)
(* thread is added.                                                        *)
TransportFails(e) ==
  /\ execute[e] = "startTransport"
  /\ hasTransport
  /\ handlers' = handlers + 1
  /\ Goto(e, "markStopped")
  /\ UNCHANGED <<poolVars, hasTransport, started, failedAttempts, launches, read, prompt>>

StartInstance(e, step) ==
  /\ execute[e] = "startInstance"
  /\ step \in {"running", "markStopped"}
  /\ Goto(e, step)
  /\ UNCHANGED <<poolVars, hasTransport, contextVars, launches, read, prompt>>
-----------------------------------------------------------------------------
(* The catch block.                                                        *)
MarkStopped(e) ==
  /\ execute[e] = "markStopped"
  /\ started' = FALSE
  /\ Goto(e, "stopThreads")
  /\ UNCHANGED <<poolVars, hasTransport, failedAttempts, handlers, launches, read, prompt>>

(* Mutant of StopThreads: left out when the timer was faster.              *)
StopThreadsUnlessStarted(e) ==
  /\ execute[e] = "stopThreads"
  /\ IF hasTransport /\ ~ started
     THEN ChangeNumberOfWorkerThreads(0) ELSE UNCHANGED poolVars
  /\ Goto(e, "readFailed")
  /\ UNCHANGED <<hasTransport, contextVars, launches, read, prompt>>

StopThreads(e) ==
  /\ execute[e] = "stopThreads"
  /\ IF hasTransport THEN ChangeNumberOfWorkerThreads(0) ELSE UNCHANGED poolVars
  /\ Goto(e, "readFailed")
  /\ UNCHANGED <<hasTransport, contextVars, launches, read, prompt>>

(* FailedAttempts++ of a shared object, without a lock.                    *)
ReadFailedAttempts(e) ==
  /\ execute[e] = "readFailed"
  /\ read' = [read EXCEPT ![e] = failedAttempts]
  /\ Goto(e, "writeFailed")
  /\ UNCHANGED <<poolVars, hasTransport, contextVars, launches, prompt>>

(* Mutant of WriteFailedAttempts: the failure is not counted.              *)
FailureNotCounted(e) ==
  /\ execute[e] = "writeFailed"
  /\ Goto(e, "failed")
  /\ UNCHANGED <<poolVars, hasTransport, contextVars, launches, read, prompt>>

WriteFailedAttempts(e) ==
  /\ execute[e] = "writeFailed"
  /\ failedAttempts' = read[e] + 1
  /\ Goto(e, "failed")
  /\ UNCHANGED <<poolVars, hasTransport, started, handlers, launches, read, prompt>>

ThreadStopped(t) ==
  /\ Stopped(t)
  /\ UNCHANGED <<hasTransport, contextVars, launchVars, prompt>>

Execute(e) ==
  \/ StartTransport(e) \/ TransportFails(e)
  \/ \E step \in Steps : StartInstance(e, step)
  \/ MarkStopped(e) \/ StopThreads(e)
  \/ ReadFailedAttempts(e) \/ WriteFailedAttempts(e)

Next ==
  \/ Start
  \/ \E e \in Launches : Execute(e)
  \/ \E t \in stopRequested : ThreadStopped(t)

(* The timer elapses again and again, and the launcher's threads run.      *)
Spec ==
  /\ Init /\ [][Next]_vars
  /\ WF_vars(Start)
  /\ \A e \in Launches : WF_vars(Execute(e))
  /\ WF_vars(\E t \in stopRequested : ThreadStopped(t))
-----------------------------------------------------------------------------
TypeOK ==
  /\ created \in Nat
  /\ workerThreads \subseteq 1..created
  /\ stopRequested \subseteq workerThreads
  /\ hasTransport \in BOOLEAN /\ started \in BOOLEAN /\ prompt \in BOOLEAN
  /\ failedAttempts \in 0..MaxLaunches
  /\ handlers \in 0..launches
  /\ launches \in 0..MaxLaunches
  /\ execute \in [Launches -> Steps]
  /\ read \in [Launches -> 0..MaxLaunches]

(* Between attempts, whatever attempts overlapped, the worker threads are  *)
(* those of the state the launcher believes in: never two on one queue,    *)
(* none that feeds messages to a satellite that is not running, and, when  *)
(* the timer never elapses during a catch block, one for a satellite that  *)
(* is.  When it does, the catch block may stop the thread of the attempt   *)
(* that succeeded.                                                         *)
ThreadsMatchLaunch ==
  Quiescent =>
    /\ Cardinality(Active) <= 1
    /\ ~ started => Active = {}
    /\ prompt /\ started /\ hasTransport => Active # {}

(* The launcher comes to a decision: the satellite runs or it has failed   *)
(* the allowed number of times.                                            *)
Decided ==
  prompt ~> [](Quiescent /\ (started \/ failedAttempts = MaxFailures))
=============================================================================
