----------------------------- MODULE Distributor -----------------------------
(***************************************************************************)
(* The distributor: messages that arrive in its data queue are sent on to  *)
(* workers.  A worker reports the messages it can take to the control      *)
(* queue, all its threads when it starts and one for each message that it  *)
(* has finished; the distributor keeps one entry in a storage queue for    *)
(* each of them and pops one for each message it sends.                    *)
(*                                                                         *)
(* All queues are transactional; the threads of the data transport, of the *)
(* control transport and of the workers run concurrently, and workers and  *)
(* distributor crash and restart on their own.                             *)
(***************************************************************************)
EXTENDS Naturals, FiniteSets

CONSTANTS
  Messages,
  Workers,
  NumberOfWorkerThreads,  \* of each worker
  DataThreads,            \* number of threads that distribute
  ControlThreads,         \* threads that handle ready messages
  AllowedWorkerNodes,     \* how many workers the license allows
  NumberOfRetries,        \* second level retries of a message
  MaxDisturbances,        \* bound on crashes, stops and failed sends
  NoWorker

ASSUME DistributorAssumption ==
  /\ IsFiniteSet(Messages) /\ IsFiniteSet(ControlThreads)
  /\ NumberOfWorkerThreads \in Nat \ {0}
  /\ DataThreads \in Nat \ {0}
  /\ AllowedWorkerNodes \in Nat /\ NumberOfRetries \in Nat /\ MaxDisturbances \in Nat
  /\ NoWorker \notin Workers

Ready(w) == [type |-> "ready", worker |-> w]
Starting(w) == [type |-> "starting", worker |-> w]
ControlMessages == {Ready(w) : w \in Workers} \cup {Starting(w) : w \in Workers}
NoControl == [type |-> "none"]

(* The header WorkerCapacityAvailable.                                     *)
Capacity(c) == IF c.type = "starting" THEN NumberOfWorkerThreads ELSE 1

VARIABLES
  input,        \* data queue: messages not consumed
  popped,       \* the worker an open transaction has popped for a message
  credits,      \* storage queue: entries of each worker, popped ones included
  control,      \* control queue: messages not consumed, those in hand included
  cpc, cjob,    \* per control thread: next step and message in hand
  known,        \* WorkersList: each entry with the thread that added it
  managerStarted, receiving,
  phase,        \* of each worker's startup
  inbox, hand,  \* of each worker: its input queue, the part in its threads' hands
  deferred,     \* of each worker: messages its second level retries hold back
  retries,      \* the Retries header of a message
  done, errors, \* messages handled, and moved to an error queue
  dropped,      \* messages consumed that nobody handled
  reports,      \* how often a worker has reported its start
  lost,         \* capacity of a worker that was not reported, since its start
  disturbances

dataVars == <<input, popped>>
controlVars == <<control, cpc, cjob, known>>
workerVars == <<phase, inbox, hand, deferred, retries>>
outcomeVars == <<done, errors, dropped>>
historyVars == <<reports, lost>>
vars == <<dataVars, credits, controlVars, managerStarted, receiving, workerVars,
          outcomeVars, historyVars, disturbances>>

Disturb == /\ disturbances < MaxDisturbances
           /\ disturbances' = disturbances + 1

Popped(w) == {m \in Messages : popped[m] = w}
InFlight == {m \in Messages : popped[m] # NoWorker}
InHand(c) == {t \in ControlThreads : cjob[t] = c}

(* Messages a worker got for one of its credits.                           *)
Slots(w) == {m \in inbox[w] : retries[m] = 0}

Init ==
  /\ input = Messages
  /\ popped = [m \in Messages |-> NoWorker]
  /\ credits = [w \in Workers |-> 0]
  /\ control = [c \in ControlMessages |-> 0]
  /\ cpc = [t \in ControlThreads |-> "idle"]
  /\ cjob = [t \in ControlThreads |-> NoControl]
  /\ known = {}
  /\ managerStarted = FALSE
  /\ receiving = TRUE
  /\ phase = [w \in Workers |-> "down"]
  /\ inbox = [w \in Workers |-> {}]
  /\ hand = [w \in Workers |-> {}]
  /\ deferred = [w \in Workers |-> {}]
  /\ retries = [m \in Messages |-> 0]
  /\ done = {}
  /\ errors = {}
  /\ dropped = {}
  /\ reports = [w \in Workers |-> 0]
  /\ lost = [w \in Workers |-> 0]
  /\ disturbances = 0
-----------------------------------------------------------------------------
(* The manager opens its storage after the data transport has started.    *)
StartManager ==
  /\ ~ managerStarted
  /\ managerStarted' = TRUE
  /\ UNCHANGED <<dataVars, credits, controlVars, receiving, workerVars, outcomeVars,
                 historyVars, disturbances>>

(* Until the manager has started no worker is found, as when none is       *)
(* available: the message stays where it is.                               *)
PopAvailableWorker(m, w) ==
  /\ managerStarted /\ receiving
  /\ m \in input /\ popped[m] = NoWorker
  /\ Cardinality(InFlight) < DataThreads
  /\ Cardinality(Popped(w)) < credits[w]
  /\ popped' = [popped EXCEPT ![m] = w]
  /\ UNCHANGED <<input, credits, controlVars, managerStarted, receiving, workerVars,
                 outcomeVars, historyVars, disturbances>>

(* The message is sent to the worker and the transaction commits.          *)
Dispatch(m) ==
  /\ popped[m] # NoWorker
  /\ input' = input \ {m}
  /\ popped' = [popped EXCEPT ![m] = NoWorker]
  /\ credits' = [credits EXCEPT ![popped[m]] = @ - 1]
  /\ inbox' = [inbox EXCEPT ![popped[m]] = @ \cup {m}]
  /\ UNCHANGED <<controlVars, managerStarted, receiving, phase, hand, deferred, retries,
                 outcomeVars, historyVars, disturbances>>

(* It cannot be sent: all is rolled back, and after the maximum number of  *)
(* failures the message goes to the error queue.                           *)
SendFails(m) ==
  /\ popped[m] # NoWorker
  /\ Disturb
  /\ popped' = [popped EXCEPT ![m] = NoWorker]
  /\ \/ UNCHANGED <<input, errors>>
     \/ input' = input \ {m} /\ errors' = errors \cup {m}
  /\ UNCHANGED <<credits, controlVars, managerStarted, receiving, workerVars, done,
                 dropped, historyVars>>

(* Stop takes the handler from a transport that goes on receiving.         *)
Stop ==
  /\ receiving
  /\ Disturb
  /\ receiving' = FALSE
  /\ UNCHANGED <<dataVars, credits, controlVars, managerStarted, workerVars, outcomeVars,
                 historyVars>>

ReceiveUnhandled(m) ==
  /\ ~ receiving
  /\ m \in input /\ popped[m] = NoWorker
  /\ input' = input \ {m}
  /\ dropped' = dropped \cup {m}
  /\ UNCHANGED <<popped, credits, controlVars, managerStarted, receiving, workerVars, done,
                 errors, historyVars, disturbances>>
-----------------------------------------------------------------------------
(* Mutant of TakeControl: a message in another thread's hand is seen.      *)
TakeAnyControl(t, c) ==
  /\ cpc[t] = "idle"
  /\ control[c] > 0
  /\ cjob' = [cjob EXCEPT ![t] = c]
  /\ cpc' = [cpc EXCEPT ![t] = "count"]
  /\ UNCHANGED <<dataVars, credits, control, known, managerStarted, receiving, workerVars,
                 outcomeVars, historyVars, disturbances>>

(* The control transport.  LimitAddingAWorker looks the worker up, then    *)
(* counts the list, then adds to it, in a list that all threads share.     *)
TakeControl(t, c) ==
  /\ cpc[t] = "idle"
  /\ Cardinality(InHand(c)) < control[c]
  /\ cjob' = [cjob EXCEPT ![t] = c]
  /\ cpc' = [cpc EXCEPT ![t] =
               IF \E k \in known : k[1] = c.worker THEN "handle" ELSE "count"]
  /\ UNCHANGED <<dataVars, credits, control, known, managerStarted, receiving, workerVars,
                 outcomeVars, historyVars, disturbances>>

(* Mutant of LimitReached: one more than the license allows.               *)
LimitExceeded == Cardinality(known) > AllowedWorkerNodes

LimitReached == Cardinality(known) >= AllowedWorkerNodes

BelowLimit(t) ==
  /\ cpc[t] = "count"
  /\ ~ LimitReached
  /\ cpc' = [cpc EXCEPT ![t] = "add"]
  /\ UNCHANGED <<dataVars, credits, control, cjob, known, managerStarted, receiving,
                 workerVars, outcomeVars, historyVars, disturbances>>

AddWorker(t) ==
  /\ cpc[t] = "add"
  /\ known' = known \cup {<<cjob[t].worker, t>>}
  /\ cpc' = [cpc EXCEPT ![t] = "handle"]
  /\ UNCHANGED <<dataVars, credits, control, cjob, managerStarted, receiving, workerVars,
                 outcomeVars, historyVars, disturbances>>

EndControl(t) ==
  /\ cpc' = [cpc EXCEPT ![t] = "idle"]
  /\ cjob' = [cjob EXCEPT ![t] = NoControl]

(* The message of the thread is consumed and its capacity is not counted.  *)
LoseControl(t) ==
  /\ control' = [control EXCEPT ![cjob[t]] = @ - 1]
  /\ lost' = [lost EXCEPT ![cjob[t].worker] = @ + Capacity(cjob[t])]
  /\ EndControl(t)
  /\ UNCHANGED <<dataVars, credits, known, managerStarted, receiving, workerVars,
                 outcomeVars, reports, disturbances>>

Refuse(t) == cpc[t] = "count" /\ LimitReached /\ LoseControl(t)

(* What is left after ClearAvailabilityForWorker: what an open transaction *)
(* has popped is not seen.                                                 *)
ClearAvailabilityForWorker(w) == Cardinality(Popped(w))

(* Mutant of HandleControlMessage: the capacity of a worker that starts is *)
(* recorded first and cleared then.                                        *)
ClearAfterRecording(t) ==
  /\ cpc[t] = "handle"
  /\ managerStarted
  /\ LET w == cjob[t].worker
     IN credits' = [credits EXCEPT ![w] = IF cjob[t].type = "starting"
                                          THEN ClearAvailabilityForWorker(w)
                                          ELSE @ + Capacity(cjob[t])]
  /\ control' = [control EXCEPT ![cjob[t]] = @ - 1]
  /\ EndControl(t)
  /\ UNCHANGED <<dataVars, known, managerStarted, receiving, workerVars, outcomeVars,
                 historyVars, disturbances>>

HandleControlMessage(t) ==
  /\ cpc[t] = "handle"
  /\ managerStarted
  /\ LET w == cjob[t].worker
         left == IF cjob[t].type = "starting" THEN ClearAvailabilityForWorker(w) ELSE credits[w]
     IN credits' = [credits EXCEPT ![w] = left + Capacity(cjob[t])]
  /\ control' = [control EXCEPT ![cjob[t]] = @ - 1]
  /\ EndControl(t)
  /\ UNCHANGED <<dataVars, known, managerStarted, receiving, workerVars, outcomeVars,
                 historyVars, disturbances>>

(* There is no storage yet: the handler fails, and fails again until the   *)
(* message is moved to the error queue.                                    *)
ControlFails(t) ==
  /\ cpc[t] = "handle"
  /\ ~ managerStarted
  /\ EndControl(t)
  /\ UNCHANGED <<dataVars, credits, control, known, managerStarted, receiving, workerVars,
                 outcomeVars, historyVars, disturbances>>

ControlAlwaysFails(t) == cpc[t] = "handle" /\ ~ managerStarted /\ LoseControl(t)

(* The distributor's process dies and starts again.                        *)
Crash ==
  /\ Disturb
  /\ popped' = [m \in Messages |-> NoWorker]
  /\ cpc' = [t \in ControlThreads |-> "idle"]
  /\ cjob' = [t \in ControlThreads |-> NoControl]
  /\ known' = {}
  /\ managerStarted' = FALSE
  /\ receiving' = TRUE
  /\ UNCHANGED <<input, credits, control, workerVars, outcomeVars, historyVars>>
-----------------------------------------------------------------------------
(* A worker: its transport starts first, then ReadyMessageSender reports   *)
(* the threads, then it subscribes to FinishedMessageProcessing.           *)
StartTransport(w) ==
  /\ phase[w] = "down"
  /\ phase' = [phase EXCEPT ![w] = "started"]
  /\ UNCHANGED <<dataVars, credits, controlVars, managerStarted, receiving, inbox, hand,
                 deferred, retries, outcomeVars, historyVars, disturbances>>

ReportStart(w) ==
  /\ phase[w] = "started"
  /\ phase' = [phase EXCEPT ![w] = "reported"]
  /\ control' = [control EXCEPT ![Starting(w)] = @ + 1]
  /\ reports' = [reports EXCEPT ![w] = @ + 1]
  /\ lost' = [lost EXCEPT ![w] = 0]
  /\ UNCHANGED <<dataVars, credits, cpc, cjob, known, managerStarted, receiving, inbox, hand,
                 deferred, retries, outcomeVars, disturbances>>

Subscribe(w) ==
  /\ phase[w] = "reported"
  /\ phase' = [phase EXCEPT ![w] = "subscribed"]
  /\ UNCHANGED <<dataVars, credits, controlVars, managerStarted, receiving, inbox, hand,
                 deferred, retries, outcomeVars, historyVars, disturbances>>

Receive(w, m) ==
  /\ phase[w] # "down"
  /\ m \in inbox[w] \ hand[w]
  /\ Cardinality(hand[w]) < NumberOfWorkerThreads
  /\ hand' = [hand EXCEPT ![w] = @ \cup {m}]
  /\ UNCHANGED <<dataVars, credits, controlVars, managerStarted, receiving, phase, inbox,
                 deferred, retries, outcomeVars, historyVars, disturbances>>

(* Mutant of FinishedMessageProcessing: retried messages are reported too. *)
FinishedReportsRetries(w, m) ==
  IF phase[w] = "subscribed"
  THEN control' = [control EXCEPT ![Ready(w)] = @ + 1] /\ UNCHANGED lost
  ELSE lost' = [lost EXCEPT ![w] = @ + 1] /\ UNCHANGED control

(* A message that comes from a retry has taken no credit.                  *)
FinishedMessageProcessing(w, m) ==
  IF retries[m] > 0
  THEN UNCHANGED <<control, lost>>
  ELSE IF phase[w] = "subscribed"
  THEN control' = [control EXCEPT ![Ready(w)] = @ + 1] /\ UNCHANGED lost
  ELSE lost' = [lost EXCEPT ![w] = @ + 1] /\ UNCHANGED control

Consume(w, m) ==
  /\ m \in hand[w]
  /\ hand' = [hand EXCEPT ![w] = @ \ {m}]
  /\ inbox' = [inbox EXCEPT ![w] = @ \ {m}]
  /\ UNCHANGED <<dataVars, credits, cpc, cjob, known, managerStarted, receiving, phase,
                 dropped, reports, disturbances>>

Complete(w, m) ==
  /\ Consume(w, m)
  /\ FinishedMessageProcessing(w, m)
  /\ done' = done \cup {m}
  /\ UNCHANGED <<deferred, retries, errors>>

(* The message has failed too often: the fault manager hands it to the     *)
(* second level retries, which hold it back or give up.                    *)
HandledMaxRetries(w, m) ==
  /\ Consume(w, m)
  /\ FinishedMessageProcessing(w, m)
  /\ IF retries[m] < NumberOfRetries
     THEN /\ deferred' = [deferred EXCEPT ![w] = @ \cup {m}]
          /\ retries' = [retries EXCEPT ![m] = @ + 1]
          /\ UNCHANGED errors
     ELSE errors' = errors \cup {m} /\ UNCHANGED <<deferred, retries>>
  /\ UNCHANGED done

(* A retry comes back to the worker that failed, not to the distributor.   *)
Retry(w, m) ==
  /\ m \in deferred[w]
  /\ deferred' = [deferred EXCEPT ![w] = @ \ {m}]
  /\ inbox' = [inbox EXCEPT ![w] = @ \cup {m}]
  /\ UNCHANGED <<dataVars, credits, controlVars, managerStarted, receiving, phase, hand,
                 retries, outcomeVars, historyVars, disturbances>>

(* Mutant of CrashWorker: what was in the input queue is gone with it.     *)
CrashWorkerForgets(w) ==
  /\ phase[w] # "down"
  /\ Disturb
  /\ phase' = [phase EXCEPT ![w] = "down"]
  /\ hand' = [hand EXCEPT ![w] = {}]
  /\ inbox' = [inbox EXCEPT ![w] = @ \ hand[w]]
  /\ UNCHANGED <<dataVars, credits, controlVars, managerStarted, receiving, deferred,
                 retries, outcomeVars, historyVars>>

CrashWorker(w) ==
  /\ phase[w] # "down"
  /\ Disturb
  /\ phase' = [phase EXCEPT ![w] = "down"]
  /\ hand' = [hand EXCEPT ![w] = {}]
  /\ UNCHANGED <<dataVars, credits, controlVars, managerStarted, receiving, inbox, deferred,
                 retries, outcomeVars, historyVars>>

Distribute(m) ==
  \/ \E w \in Workers : PopAvailableWorker(m, w)
  \/ Dispatch(m)
  \/ ReceiveUnhandled(m)

HandleControl(t) ==
  \/ \E c \in ControlMessages : TakeControl(t, c)
  \/ BelowLimit(t) \/ AddWorker(t) \/ Refuse(t)
  \/ HandleControlMessage(t) \/ ControlAlwaysFails(t)

Start(w) == StartTransport(w) \/ ReportStart(w) \/ Subscribe(w)

Work(w, m) == Receive(w, m) \/ Complete(w, m) \/ HandledMaxRetries(w, m) \/ Retry(w, m)

Next ==
  \/ StartManager \/ Stop \/ Crash
  \/ \E m \in Messages : Distribute(m) \/ SendFails(m)
  \/ \E t \in ControlThreads : HandleControl(t) \/ ControlFails(t)
  \/ \E w \in Workers : Start(w) \/ CrashWorker(w)
  \/ \E w \in Workers, m \in Messages : Work(w, m)

(* Threads go on, and a process that has died is started again.            *)
Spec ==
  /\ Init /\ [][Next]_vars
  /\ WF_vars(StartManager)
  /\ WF_vars(\E m \in Messages : Distribute(m))
  /\ \A t \in ControlThreads : WF_vars(HandleControl(t))
  /\ \A w \in Workers : WF_vars(Start(w)) /\ WF_vars(\E m \in Messages : Work(w, m))
-----------------------------------------------------------------------------
TypeOK ==
  /\ input \subseteq Messages
  /\ popped \in [Messages -> Workers \cup {NoWorker}]
  /\ InFlight \subseteq input
  /\ credits \in [Workers -> Nat]
  /\ control \in [ControlMessages -> Nat]
  /\ cpc \in [ControlThreads -> {"idle", "count", "add", "handle"}]
  /\ cjob \in [ControlThreads -> ControlMessages \cup {NoControl}]
  /\ known \subseteq Workers \X ControlThreads
  /\ managerStarted \in BOOLEAN /\ receiving \in BOOLEAN
  /\ phase \in [Workers -> {"down", "started", "reported", "subscribed"}]
  /\ inbox \in [Workers -> SUBSET Messages]
  /\ hand \in [Workers -> SUBSET Messages]
  /\ deferred \in [Workers -> SUBSET Messages]
  /\ retries \in [Messages -> 0..NumberOfRetries]
  /\ done \subseteq Messages /\ errors \subseteq Messages /\ dropped \subseteq Messages
  /\ reports \in [Workers -> Nat]
  /\ lost \in [Workers -> Nat]
  /\ disturbances \in 0..MaxDisturbances

(* The capacity of a worker, wherever it is: in the storage queue, on its  *)
(* way there, or used up by a message in the worker's queue.               *)
TotalCapacity(w) ==
  credits[w] + control[Ready(w)] + NumberOfWorkerThreads * control[Starting(w)]
    + Cardinality(Slots(w))

(* No capacity is invented: a worker is never given more messages than its *)
(* threads for each time it has reported its start.                        *)
CapacityBounded ==
  \A w \in Workers : TotalCapacity(w) <= NumberOfWorkerThreads * reports[w]

(* No capacity gets lost, but what was finished before the worker reported *)
(* and what the license or a start of the distributor made it lose.        *)
CapacityKept ==
  \A w \in Workers :
    reports[w] > 0 => TotalCapacity(w) + lost[w] >= NumberOfWorkerThreads

(* Whatever crashes, rolls back and is retried, the capacity of a worker   *)
(* is neither invented nor lost.                                           *)
CapacityAccounted == CapacityBounded /\ CapacityKept

(* Nothing keeps control threads apart between the count and the addition, *)
(* so the list of workers may outgrow the license: by one entry less than  *)
(* there are threads, however often they look, and never if there is one.  *)
LicenseExceededByThreads ==
  known = {} \/ Cardinality(known) < AllowedWorkerNodes + Cardinality(ControlThreads)

(* What is known of a message: it waits for the distributor or a worker,   *)
(* in a queue or held back, or has come to an end.                         *)
Held(m) == m \in input \/ \E w \in Workers : m \in inbox[w] \cup deferred[w]
Fate(m) ==
  CASE ~ Held(m) /\ m \in done \ (errors \cup dropped) -> "handled"
    [] ~ Held(m) /\ m \in errors \ (done \cup dropped) -> "dead"
    [] ~ Held(m) /\ m \in dropped \ (done \cup errors) -> "dropped"
    [] Held(m) /\ m \notin done \cup errors \cup dropped -> "pending"
    [] OTHER -> "lost or there twice"
Abstract == INSTANCE Settlement WITH fate <- [m \in Messages |-> Fate(m)]

(* Distributor and workers together settle each message as a single        *)
(* transport does, once and for good: on the way through the queues of     *)
(* both, and back from the retries, no crash loses or repeats it.          *)
SettledOnce == Abstract!Spec

(* Every message is handled by a worker or ends in an error queue, unless  *)
(* Stop was called or all capacity of all workers is lost for good.        *)
EveryMessageHandled ==
  (\A m \in Messages : <>(m \in done \cup errors \cup dropped))
    \/ <>[](\A w \in Workers : lost[w] >= NumberOfWorkerThreads)

(* The capacity that is on record for a worker is "the number of messages  *)
(* that this worker is ready to process".                                  *)
OnlyWhatIsReady == \A w \in Workers : credits[w] <= NumberOfWorkerThreads
=============================================================================
