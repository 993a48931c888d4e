-------------------------- MODULE DistributorProofs --------------------------
(***************************************************************************)
(* Proofs about Distributor for every set of messages, workers and control *)
(* threads, any number of threads, and any number of disturbances.         *)
(***************************************************************************)
EXTENDS Distributor, FiniteSetTheorems, TLAPS

LEMMA ControlFacts ==
  /\ \A w \in Workers : Ready(w) \in ControlMessages /\ Starting(w) \in ControlMessages
  /\ \A w : Ready(w).type = "ready" /\ Ready(w).worker = w
  /\ \A w : Starting(w).type = "starting" /\ Starting(w).worker = w
  /\ \A w, v : Ready(w) # Starting(v)
  /\ \A c \in ControlMessages :
       /\ c.worker \in Workers
       /\ c = Ready(c.worker) \/ c = Starting(c.worker)
  /\ NoControl \notin ControlMessages
<1> USE DEF ControlMessages, Ready, Starting
<1>1. \A w \in Workers : Ready(w) \in ControlMessages /\ Starting(w) \in ControlMessages
  OBVIOUS
<1>2. /\ \A w : Ready(w).type = "ready" /\ Ready(w).worker = w
      /\ \A w : Starting(w).type = "starting" /\ Starting(w).worker = w
  OBVIOUS
<1>3. \A w, v : Ready(w) # Starting(v)
  BY <1>2
<1>4. \A c \in ControlMessages :
        c.worker \in Workers /\ (c = Ready(c.worker) \/ c = Starting(c.worker))
  OBVIOUS
<1>5. \A c \in ControlMessages : c.type # "none"
  BY <1>2
<1>6. NoControl \notin ControlMessages
  BY <1>5 DEF NoControl
<1>7. QED
  BY <1>1, <1>2, <1>3, <1>4, <1>6

-----------------------------------------------------------------------------
(* Layer 1: types, with the counts of the queues allowed to be negative,   *)
(* where a message can be, and what the threads have in hand.              *)

Types ==
  /\ input \subseteq Messages
  /\ popped \in [Messages -> Workers \cup {NoWorker}]
  /\ InFlight \subseteq input
  /\ credits \in [Workers -> Int]
  /\ control \in [ControlMessages -> Int]
  /\ cpc \in [ControlThreads -> {"idle", "count", "add", "handle"}]
  /\ cjob \in [ControlThreads -> ControlMessages \cup {NoControl}]
  /\ known \subseteq Workers \X ControlThreads
  /\ managerStarted \in BOOLEAN
  /\ receiving \in BOOLEAN
  /\ phase \in [Workers -> {"down", "started", "reported", "subscribed"}]
  /\ inbox \in [Workers -> SUBSET Messages]
  /\ hand \in [Workers -> SUBSET Messages]
  /\ deferred \in [Workers -> SUBSET Messages]
  /\ retries \in [Messages -> 0..NumberOfRetries]
  /\ done \subseteq Messages
  /\ errors \subseteq Messages
  /\ dropped \subseteq Messages
  /\ reports \in [Workers -> Nat]
  /\ lost \in [Workers -> Nat]
  /\ disturbances \in 0..MaxDisturbances

(* Where a message can be: at one place, retried once it has been held.    *)
Whereabouts ==
  /\ \A m \in input :
       /\ retries[m] = 0
       /\ \A w \in Workers : m \notin inbox[w] /\ m \notin deferred[w]
  /\ \A w, v \in Workers : \A m \in inbox[w] :
       (m \in inbox[v] => v = w) /\ m \notin deferred[v]
  /\ \A w, v \in Workers : \A m \in deferred[w] :
       (m \in deferred[v] => v = w) /\ retries[m] > 0
  /\ \A w \in Workers : hand[w] \subseteq inbox[w]

Jobs == \A t \in ControlThreads : cpc[t] = "idle" <=> cjob[t] = NoControl

Layer1 == Types /\ Whereabouts /\ Jobs

LEMMA Layer1Init == Init => Layer1
<1> SUFFICES ASSUME Init PROVE Layer1
  OBVIOUS
<1>a. 0 \in 0..NumberOfRetries /\ 0 \in 0..MaxDisturbances
  BY DistributorAssumption
<1>b. InFlight = {}
  BY DEF Init, InFlight
<1>c. retries \in [Messages -> 0..NumberOfRetries]
  BY <1>a DEF Init
<1>d. credits \in [Workers -> Int] /\ control \in [ControlMessages -> Int]
  BY DEF Init
<1>1. Types
  BY <1>a, <1>b, <1>c, <1>d DEF Init, Types
<1>2. Whereabouts /\ Jobs
  BY DEF Init, Whereabouts, Jobs
<1>3. QED
  BY <1>1, <1>2 DEF Layer1

LEMMA Layer1Data ==
  ASSUME Layer1, NEW m \in Messages, Distribute(m) \/ SendFails(m)
  PROVE  Layer1'
<1> USE DEF Layer1
<1>1. ASSUME NEW w \in Workers, PopAvailableWorker(m, w) PROVE Layer1'
  <2>1. Types'
    BY <1>1 DEF PopAvailableWorker, Types, InFlight, controlVars, workerVars, outcomeVars,
       historyVars
  <2>2. Whereabouts' /\ Jobs'
    BY <1>1 DEF PopAvailableWorker, Whereabouts, Jobs, controlVars, workerVars
  <2>3. QED
    BY <2>1, <2>2
<1>2. CASE Dispatch(m)
  <2>1. popped[m] \in Workers /\ m \in input
    BY <1>2 DEF Dispatch, Types, InFlight
  <2>2. InFlight' \subseteq input'
    BY <1>2 DEF Dispatch, Types, InFlight
  <2>3. Types'
    BY <1>2, <2>1, <2>2 DEF Dispatch, Types, controlVars, outcomeVars, historyVars
  <2>4. Whereabouts'
    BY <1>2, <2>1 DEF Dispatch, Whereabouts, Types
  <2>5. Jobs'
    BY <1>2 DEF Dispatch, Jobs, controlVars
  <2>6. QED
    BY <2>3, <2>4, <2>5
<1>3. CASE ReceiveUnhandled(m)
  <2>1. Types'
    BY <1>3 DEF ReceiveUnhandled, Types, InFlight, controlVars, workerVars, historyVars
  <2>2. Whereabouts' /\ Jobs'
    BY <1>3 DEF ReceiveUnhandled, Whereabouts, Jobs, controlVars, workerVars
  <2>3. QED
    BY <2>1, <2>2
<1>4. CASE SendFails(m)
  <2>1. input' \subseteq input /\ (input' = input \/ input' = input \ {m})
    BY <1>4 DEF SendFails
  <2>2. Types'
    BY <1>4, <2>1, DistributorAssumption DEF SendFails, Disturb, Types, InFlight, controlVars,
       workerVars, historyVars
  <2>3. Whereabouts' /\ Jobs'
    BY <1>4, <2>1 DEF SendFails, Whereabouts, Jobs, controlVars, workerVars
  <2>4. QED
    BY <2>2, <2>3
<1>5. QED
  BY <1>1, <1>2, <1>3, <1>4 DEF Distribute

LEMMA Layer1Control ==
  ASSUME Layer1, NEW t \in ControlThreads, HandleControl(t) \/ ControlFails(t)
  PROVE  Layer1'
<1> USE DEF Layer1
<1>w. ASSUME UNCHANGED <<dataVars, workerVars>> PROVE Whereabouts'
  BY <1>w DEF Whereabouts, dataVars, workerVars
<1>i. ASSUME UNCHANGED <<dataVars>> PROVE InFlight' \subseteq input'
  BY <1>i DEF Types, InFlight, dataVars
<1>1. ASSUME NEW c \in ControlMessages, TakeControl(t, c) PROVE Layer1'
  <2>1. Types'
    BY <1>1, <1>i DEF TakeControl, Types, dataVars, workerVars, outcomeVars, historyVars
  <2>2. Jobs'
    BY <1>1, ControlFacts DEF TakeControl, Jobs, Types
  <2>3. QED
    BY <1>1, <1>w, <2>1, <2>2 DEF TakeControl
<1>2. CASE BelowLimit(t)
  <2>1. Types' /\ Jobs'
    BY <1>2, <1>i DEF BelowLimit, Types, Jobs, dataVars, workerVars, outcomeVars, historyVars
  <2>2. QED
    BY <1>2, <1>w, <2>1 DEF BelowLimit
<1>3. CASE AddWorker(t)
  <2>1. cjob[t].worker \in Workers
    BY <1>3, ControlFacts DEF AddWorker, Types, Jobs
  <2>2. Types' /\ Jobs'
    BY <1>3, <1>i, <2>1 DEF AddWorker, Types, Jobs, dataVars, workerVars, outcomeVars, historyVars
  <2>3. QED
    BY <1>3, <1>w, <2>2 DEF AddWorker
<1>4. ASSUME cpc[t] # "idle", LoseControl(t) PROVE Layer1'
  <2>1. cjob[t] \in ControlMessages /\ cjob[t].worker \in Workers
    BY <1>4, ControlFacts DEF Types, Jobs
  <2>2. Capacity(cjob[t]) \in Nat
    BY DistributorAssumption DEF Capacity
  <2>3. Types'
    BY <1>4, <1>i, <2>1, <2>2 DEF LoseControl, EndControl, Types, dataVars, workerVars, outcomeVars
  <2>4. Jobs'
    BY <1>4 DEF LoseControl, EndControl, Jobs, Types
  <2>5. QED
    BY <1>4, <1>w, <2>3, <2>4 DEF LoseControl
<1>5. CASE HandleControlMessage(t)
  <2>1. cjob[t] \in ControlMessages /\ cjob[t].worker \in Workers
    BY <1>5, ControlFacts DEF HandleControlMessage, Types, Jobs
  <2>2. Capacity(cjob[t]) \in Nat
    BY DistributorAssumption DEF Capacity
  <2>3. IsFiniteSet(Popped(cjob[t].worker))
    BY DistributorAssumption, FS_Subset DEF Popped
  <2>4. ClearAvailabilityForWorker(cjob[t].worker) \in Nat
    BY <2>3, FS_CardinalityType DEF ClearAvailabilityForWorker
  <2>5. credits' \in [Workers -> Int]
    BY <1>5, <2>1, <2>2, <2>4 DEF HandleControlMessage, Types
  <2>6. Types'
    BY <1>5, <1>i, <2>1, <2>5 DEF HandleControlMessage, EndControl, Types, dataVars, workerVars,
       outcomeVars, historyVars
  <2>7. Jobs'
    BY <1>5 DEF HandleControlMessage, EndControl, Jobs, Types
  <2>8. QED
    BY <1>5, <1>w, <2>6, <2>7 DEF HandleControlMessage
<1>6. CASE ControlFails(t)
  <2>1. Types'
    BY <1>6, <1>i DEF ControlFails, EndControl, Types, dataVars, workerVars, outcomeVars, historyVars
  <2>2. Jobs'
    BY <1>6 DEF ControlFails, EndControl, Jobs, Types
  <2>3. QED
    BY <1>6, <1>w, <2>1, <2>2 DEF ControlFails
<1>7. QED
  BY <1>1, <1>2, <1>3, <1>4, <1>5, <1>6 DEF HandleControl, Refuse, ControlAlwaysFails

LEMMA Layer1Start ==
  ASSUME Layer1, NEW w \in Workers, Start(w) \/ CrashWorker(w)
  PROVE  Layer1'
<1> USE DEF Layer1
<1>1. UNCHANGED <<dataVars, credits, cpc, cjob, known, managerStarted, receiving, inbox,
                  deferred, retries, outcomeVars>>
  BY DEF Start, StartTransport, ReportStart, Subscribe, CrashWorker, controlVars
<1>2. phase' \in [Workers -> {"down", "started", "reported", "subscribed"}]
  BY DEF Types, Start, StartTransport, ReportStart, Subscribe, CrashWorker
<1>3. hand' \in [Workers -> SUBSET Messages] /\ \A v \in Workers : hand'[v] \subseteq hand[v]
  BY DEF Types, Start, StartTransport, ReportStart, Subscribe, CrashWorker
<1>4. /\ control' \in [ControlMessages -> Int]
      /\ reports' \in [Workers -> Nat] /\ lost' \in [Workers -> Nat]
      /\ disturbances' \in 0..MaxDisturbances
  <2>1. CASE ReportStart(w)
    BY <2>1, ControlFacts DEF ReportStart, Types
  <2>2. CASE StartTransport(w) \/ Subscribe(w)
    BY <2>2 DEF StartTransport, Subscribe, Types, controlVars, historyVars
  <2>3. CASE CrashWorker(w)
    BY <2>3, DistributorAssumption DEF CrashWorker, Disturb, Types, controlVars, historyVars
  <2>4. QED
    BY <2>1, <2>2, <2>3 DEF Start
<1>5. Types'
  BY <1>1, <1>2, <1>3, <1>4 DEF Types, InFlight, dataVars, outcomeVars
<1>6. Whereabouts' /\ Jobs'
  BY <1>1, <1>3 DEF Whereabouts, Jobs, dataVars
<1>7. QED
  BY <1>5, <1>6

(* The event at the end of a message reports one message or loses one.     *)
LEMMA FinishedFacts ==
  ASSUME Types, NEW w \in Workers, NEW m \in Messages, FinishedMessageProcessing(w, m)
  PROVE  /\ control' \in [ControlMessages -> Int]
         /\ lost' \in [Workers -> Nat]
  BY ControlFacts DEF FinishedMessageProcessing, Types

LEMMA Layer1Work ==
  ASSUME Layer1, NEW w \in Workers, NEW m \in Messages, Work(w, m)
  PROVE  Layer1'
<1> USE DEF Layer1
<1>1. CASE Receive(w, m)
  <2>1. Types'
    BY <1>1 DEF Receive, Types, InFlight, dataVars, controlVars, outcomeVars, historyVars
  <2>2. Whereabouts' /\ Jobs'
    BY <1>1 DEF Receive, Whereabouts, Jobs, Types, dataVars, controlVars
  <2>3. QED
    BY <2>1, <2>2
<1>2. CASE Complete(w, m)
  <2>1. Types'
    BY <1>2, FinishedFacts DEF Complete, Consume, Types, InFlight, dataVars
  <2>2. Whereabouts' /\ Jobs'
    BY <1>2 DEF Complete, Consume, Whereabouts, Jobs, Types, dataVars
  <2>3. QED
    BY <2>1, <2>2
<1>3. CASE HandledMaxRetries(w, m)
  <2>1. /\ deferred' \in [Workers -> SUBSET Messages] /\ retries' \in [Messages -> 0..NumberOfRetries]
        /\ errors' \subseteq Messages
    BY <1>3, DistributorAssumption DEF HandledMaxRetries, Types
  <2>2. Types'
    BY <1>3, <2>1, FinishedFacts DEF HandledMaxRetries, Consume, Types, InFlight, dataVars
  <2>3. m \in inbox[w] /\ m \notin input
    BY <1>3 DEF HandledMaxRetries, Consume, Whereabouts
  <2>4. \A v \in Workers, n \in Messages :
          /\ n \in inbox'[v] <=> n \in inbox[v] /\ ~ (v = w /\ n = m)
          /\ n \in hand'[v] <=> n \in hand[v] /\ ~ (v = w /\ n = m)
    BY <1>3 DEF HandledMaxRetries, Consume, Types
  <2>t. /\ \A v \in Workers : /\ inbox'[v] \subseteq Messages /\ hand'[v] \subseteq Messages
                              /\ deferred'[v] \subseteq Messages
        /\ input' = input /\ input \subseteq Messages
    BY <1>3, <2>2 DEF HandledMaxRetries, Consume, Types, dataVars
  <2>h. \A v \in Workers : hand'[v] \subseteq inbox'[v]
    BY <2>4, <2>t DEF Whereabouts
  <2>j. Jobs'
    BY <1>3 DEF HandledMaxRetries, Consume, Jobs
  <2>5. CASE UNCHANGED <<deferred, retries>>
    <3>1. Whereabouts'
      BY <2>4, <2>5, <2>h, <2>t DEF Whereabouts
    <3>2. QED
      BY <2>2, <2>j, <3>1
  <2>6. CASE /\ deferred' = [deferred EXCEPT ![w] = @ \cup {m}]
             /\ retries' = [retries EXCEPT ![m] = @ + 1]
    <3>1. \A v \in Workers, n \in Messages :
            n \in deferred'[v] <=> n \in deferred[v] \/ (v = w /\ n = m)
      BY <2>6 DEF Types
    <3>2. /\ \A n \in Messages : n # m => retries'[n] = retries[n]
          /\ retries'[m] > 0
      BY <2>6, DistributorAssumption DEF Types
    <3>m. \A x \in Workers : m \notin deferred[x] /\ (m \in inbox[x] => x = w)
      BY <2>3 DEF Whereabouts
    <3>4. \A n \in input' :
            /\ retries'[n] = 0
            /\ \A v \in Workers : n \notin inbox'[v] /\ n \notin deferred'[v]
      BY <2>3, <2>4, <2>t, <3>1, <3>2 DEF Whereabouts
    <3>5. ASSUME NEW v \in Workers, NEW u \in Workers, NEW n \in inbox'[v]
          PROVE  (n \in inbox'[u] => u = v) /\ n \notin deferred'[u]
      <4>1. n \in Messages /\ n \in inbox[v] /\ ~ (v = w /\ n = m)
        BY <2>4, <2>t, <3>5
      <4>2. n # m
        BY <3>m, <4>1
      <4>3. QED
        BY <2>4, <3>1, <4>1, <4>2 DEF Whereabouts
    <3>6. ASSUME NEW v \in Workers, NEW u \in Workers, NEW n \in deferred'[v]
          PROVE  (n \in deferred'[u] => u = v) /\ retries'[n] > 0
      <4>0. n \in Messages
        BY <2>t, <3>6
      <4>1. CASE n = m
        BY <3>1, <3>2, <3>6, <3>m, <4>1
      <4>2. CASE n # m
        BY <3>1, <3>2, <3>6, <4>0, <4>2 DEF Whereabouts
      <4>3. QED
        BY <4>1, <4>2
    <3>7. Whereabouts'
      BY <2>h, <3>4, <3>5, <3>6 DEF Whereabouts
    <3>8. QED
      BY <2>2, <2>j, <3>7
  <2>7. QED
    BY <1>3, <2>5, <2>6 DEF HandledMaxRetries
<1>4. CASE Retry(w, m)
  <2>1. Types'
    BY <1>4 DEF Retry, Types, InFlight, dataVars, controlVars, outcomeVars, historyVars
  <2>2. m \in deferred[w] /\ \A v \in Workers : m \notin inbox[v]
    BY <1>4 DEF Retry, Whereabouts
  <2>3. Whereabouts'
    BY <1>4, <2>2 DEF Retry, Whereabouts, Types, dataVars
  <2>4. Jobs'
    BY <1>4 DEF Retry, Jobs, controlVars
  <2>5. QED
    BY <2>1, <2>3, <2>4
<1>5. QED
  BY <1>1, <1>2, <1>3, <1>4 DEF Work

LEMMA Layer1Rest ==
  ASSUME Layer1, StartManager \/ Stop \/ Crash
  PROVE  Layer1'
<1> USE DEF Layer1
<1>d. disturbances' \in 0..MaxDisturbances
  BY DistributorAssumption DEF StartManager, Stop, Crash, Disturb, Types
<1>a. ASSUME StartManager \/ Stop PROVE Types'
  BY <1>a, <1>d DEF StartManager, Stop, Types, InFlight, dataVars, controlVars, workerVars,
     outcomeVars, historyVars
<1>b. ASSUME Crash PROVE Types'
  <2>1. InFlight' = {}
    BY <1>b DEF Crash, InFlight
  <2>2. QED
    BY <1>b, <1>d, <2>1 DEF Crash, Types, workerVars, outcomeVars, historyVars
<1>1. Types'
  BY <1>a, <1>b
<1>2. Whereabouts' /\ Jobs'
  BY DEF StartManager, Stop, Crash, Whereabouts, Jobs, dataVars, controlVars, workerVars
<1>3. QED
  BY <1>1, <1>2

LEMMA Layer1Step == Layer1 /\ [Next]_vars => Layer1'
<1> SUFFICES ASSUME Layer1, [Next]_vars PROVE Layer1'
  OBVIOUS
<1>1. CASE UNCHANGED vars
  BY <1>1 DEF vars, Layer1, Types, Whereabouts, Jobs, InFlight, dataVars, controlVars,
     workerVars, outcomeVars, historyVars
<1>2. QED
  BY <1>1, Layer1Data, Layer1Control, Layer1Start, Layer1Work, Layer1Rest DEF Next

LEMMA Layer1Correct == Spec => []Layer1
  BY Layer1Init, Layer1Step, PTL DEF Spec
-----------------------------------------------------------------------------
(* Layer 2: what is popped is in storage and what the control threads have *)
(* in hand is in the control queue, so that no commit finds nothing.       *)

PoppedInStorage == \A w \in Workers : Cardinality(Popped(w)) <= credits[w]
HandsInQueue == \A c \in ControlMessages : Cardinality(InHand(c)) <= control[c]

Layer2 == PoppedInStorage /\ HandsInQueue

LEMMA Finite ==
  /\ \A w : IsFiniteSet(Popped(w)) /\ Cardinality(Popped(w)) \in Nat
  /\ \A w : IsFiniteSet(Popped(w)') /\ Cardinality(Popped(w)') \in Nat
  /\ \A c : IsFiniteSet(InHand(c)) /\ Cardinality(InHand(c)) \in Nat
  /\ \A c : IsFiniteSet(InHand(c)') /\ Cardinality(InHand(c)') \in Nat
<1>1. \A w : IsFiniteSet(Popped(w)) /\ IsFiniteSet(Popped(w)')
  BY DistributorAssumption, FS_Subset DEF Popped
<1>2. \A c : IsFiniteSet(InHand(c)) /\ IsFiniteSet(InHand(c)')
  BY DistributorAssumption, FS_Subset DEF InHand
<1>3. QED
  BY <1>1, <1>2, FS_CardinalityType

LEMMA Layer2Init == Init => Layer2
<1> SUFFICES ASSUME Init PROVE Layer2
  OBVIOUS
<1>1. \A w \in Workers : Popped(w) = {}
  BY DistributorAssumption DEF Init, Popped
<1>2. \A c \in ControlMessages : InHand(c) = {}
  BY ControlFacts DEF Init, InHand
<1>3. Cardinality({}) = 0
  BY FS_EmptySet
<1>4. \A w \in Workers : credits[w] = 0
  BY DEF Init
<1>5. \A c \in ControlMessages : control[c] = 0
  BY DEF Init
<1>6. PoppedInStorage
  BY <1>1, <1>3, <1>4 DEF PoppedInStorage
<1>7. HandsInQueue
  BY <1>2, <1>3, <1>5 DEF HandsInQueue
<1>8. QED
  BY <1>6, <1>7 DEF Layer2

(* Fewer popped, no fewer entries; fewer hands, no fewer messages.         *)
LEMMA PoppedKept ==
  ASSUME Types, Types', PoppedInStorage,
         \A w \in Workers : Popped(w)' \subseteq Popped(w) /\ credits'[w] >= credits[w]
  PROVE  PoppedInStorage'
<1> SUFFICES ASSUME NEW w \in Workers PROVE Cardinality(Popped(w)') <= credits'[w]
  BY DEF PoppedInStorage
<1>1. Cardinality(Popped(w)') <= Cardinality(Popped(w))
  BY Finite, FS_Subset
<1>2. QED
  BY <1>1, Finite DEF PoppedInStorage, Types

LEMMA HandsKept ==
  ASSUME Types, Types', HandsInQueue,
         \A c \in ControlMessages : InHand(c)' \subseteq InHand(c) /\ control'[c] >= control[c]
  PROVE  HandsInQueue'
<1> SUFFICES ASSUME NEW c \in ControlMessages PROVE Cardinality(InHand(c)') <= control'[c]
  BY DEF HandsInQueue
<1>1. Cardinality(InHand(c)') <= Cardinality(InHand(c))
  BY Finite, FS_Subset
<1>2. QED
  BY <1>1, Finite DEF HandsInQueue, Types

LEMMA PoppedByPop ==
  ASSUME Layer1, PoppedInStorage, NEW m \in Messages, NEW w \in Workers, PopAvailableWorker(m, w)
  PROVE  PoppedInStorage'
<1> SUFFICES ASSUME NEW v \in Workers PROVE Cardinality(Popped(v)') <= credits'[v]
  BY DEF PoppedInStorage
<1>1. CASE v = w
  <2>1. Popped(v)' = Popped(v) \cup {m} /\ m \notin Popped(v)
    BY <1>1, DistributorAssumption DEF PopAvailableWorker, Popped, Layer1, Types
  <2>2. Cardinality(Popped(v)') = Cardinality(Popped(v)) + 1
    BY <2>1, Finite, FS_AddElement
  <2>3. QED
    BY <1>1, <2>2, Finite DEF PopAvailableWorker, Layer1, Types
<1>2. CASE v # w
  <2>1. Popped(v)' = Popped(v)
    BY <1>2, DistributorAssumption DEF PopAvailableWorker, Popped, Layer1, Types
  <2>2. QED
    BY <2>1 DEF PopAvailableWorker, PoppedInStorage
<1>3. QED
  BY <1>1, <1>2

LEMMA PoppedByDispatch ==
  ASSUME Layer1, PoppedInStorage, NEW m \in Messages, Dispatch(m)
  PROVE  PoppedInStorage'
<1> SUFFICES ASSUME NEW v \in Workers PROVE Cardinality(Popped(v)') <= credits'[v]
  BY DEF PoppedInStorage
<1>1. CASE v = popped[m]
  <2>1. Popped(v)' = Popped(v) \ {m} /\ m \in Popped(v)
    BY <1>1, DistributorAssumption DEF Dispatch, Popped, Layer1, Types
  <2>2. Cardinality(Popped(v)') = Cardinality(Popped(v)) - 1
    BY <2>1, Finite, FS_RemoveElement
  <2>3. credits'[v] = credits[v] - 1 /\ credits[v] \in Int
    BY <1>1 DEF Dispatch, Layer1, Types
  <2>4. QED
    BY <2>2, <2>3, Finite DEF PoppedInStorage
<1>2. CASE v # popped[m]
  <2>1. Popped(v)' = Popped(v)
    BY <1>2, DistributorAssumption DEF Dispatch, Popped, Layer1, Types
  <2>2. credits'[v] = credits[v]
    BY <1>2 DEF Dispatch, Layer1, Types
  <2>3. QED
    BY <2>1, <2>2 DEF PoppedInStorage
<1>3. QED
  BY <1>1, <1>2

LEMMA PoppedByControl ==
  ASSUME Layer1, PoppedInStorage, NEW t \in ControlThreads, HandleControlMessage(t)
  PROVE  PoppedInStorage'
<1> DEFINE w == cjob[t].worker
<1> SUFFICES ASSUME NEW v \in Workers PROVE Cardinality(Popped(v)') <= credits'[v]
  BY DEF PoppedInStorage
<1>1. w \in Workers
  BY ControlFacts DEF HandleControlMessage, Layer1, Types, Jobs
<1>2. Popped(v)' = Popped(v)
  BY DEF HandleControlMessage, Popped, dataVars
<1>3. Capacity(cjob[t]) \in Nat
  BY DistributorAssumption DEF Capacity
<1>4. CASE v = w
  <2>1. credits'[v] \in {Cardinality(Popped(v)) + Capacity(cjob[t]), credits[v] + Capacity(cjob[t])}
    BY <1>1, <1>4 DEF HandleControlMessage, ClearAvailabilityForWorker, Layer1, Types
  <2>2. QED
    BY <1>2, <1>3, <2>1, Finite DEF PoppedInStorage, Layer1, Types
<1>5. CASE v # w
  <2>1. credits'[v] = credits[v]
    BY <1>1, <1>5 DEF HandleControlMessage, Layer1, Types
  <2>2. QED
    BY <1>2, <2>1 DEF PoppedInStorage
<1>6. QED
  BY <1>4, <1>5

LEMMA PoppedStep == Layer1 /\ PoppedInStorage /\ [Next]_vars => PoppedInStorage'
<1> SUFFICES ASSUME Layer1, PoppedInStorage, [Next]_vars PROVE PoppedInStorage'
  OBVIOUS
<1>t. Types /\ Types'
  BY Layer1Step DEF Layer1
<1>u. ASSUME UNCHANGED <<popped, credits>> PROVE PoppedInStorage'
  BY <1>u DEF PoppedInStorage, Popped
<1>1. CASE UNCHANGED vars
  BY <1>1, <1>u DEF vars, dataVars
<1>2. ASSUME NEW m \in Messages, Distribute(m) PROVE PoppedInStorage'
  BY <1>2, <1>u, PoppedByPop, PoppedByDispatch DEF Distribute, ReceiveUnhandled
<1>f. ASSUME UNCHANGED credits, \A w \in Workers : Popped(w)' \subseteq Popped(w)
      PROVE  PoppedInStorage'
  BY <1>f, <1>t, PoppedKept DEF Types
<1>3. ASSUME NEW m \in Messages, SendFails(m) PROVE PoppedInStorage'
  <2>1. \A w \in Workers : Popped(w)' \subseteq Popped(w)
    BY <1>3, <1>t, DistributorAssumption DEF SendFails, Popped, Types
  <2>2. QED
    BY <1>3, <1>f, <2>1 DEF SendFails
<1>4. CASE Crash
  <2>1. \A w \in Workers : Popped(w)' \subseteq Popped(w)
    BY <1>4, DistributorAssumption DEF Crash, Popped
  <2>2. QED
    BY <1>4, <1>f, <2>1 DEF Crash
<1>5. CASE StartManager \/ Stop
  BY <1>5, <1>u DEF StartManager, Stop, dataVars
<1>6. ASSUME NEW t \in ControlThreads, HandleControl(t) \/ ControlFails(t)
      PROVE  PoppedInStorage'
  BY <1>6, <1>u, PoppedByControl DEF HandleControl, ControlFails, TakeControl, BelowLimit,
     AddWorker, Refuse, ControlAlwaysFails, LoseControl, dataVars
<1>7. ASSUME NEW w \in Workers, Start(w) \/ CrashWorker(w) PROVE PoppedInStorage'
  BY <1>7, <1>u DEF Start, StartTransport, ReportStart, Subscribe, CrashWorker, dataVars
<1>8. ASSUME NEW w \in Workers, NEW m \in Messages, Work(w, m) PROVE PoppedInStorage'
  BY <1>8, <1>u DEF Work, Receive, Complete, HandledMaxRetries, Consume, Retry, dataVars
<1>9. QED
  BY <1>1, <1>2, <1>3, <1>4, <1>5, <1>6, <1>7, <1>8 DEF Next

LEMMA HandsByTake ==
  ASSUME Layer1, HandsInQueue, NEW t \in ControlThreads, NEW c \in ControlMessages,
         TakeControl(t, c)
  PROVE  HandsInQueue'
<1> SUFFICES ASSUME NEW d \in ControlMessages PROVE Cardinality(InHand(d)') <= control'[d]
  BY DEF HandsInQueue
<1>1. cjob[t] = NoControl /\ cjob'[t] = c
  BY DEF TakeControl, Layer1, Types, Jobs
<1>2. CASE d = c
  <2>1. InHand(d)' = InHand(d) \cup {t} /\ t \notin InHand(d)
    BY <1>1, <1>2, ControlFacts DEF TakeControl, InHand, Layer1, Types
  <2>2. Cardinality(InHand(d)') = Cardinality(InHand(d)) + 1
    BY <2>1, Finite, FS_AddElement
  <2>3. QED
    BY <1>2, <2>2, Finite DEF TakeControl, Layer1, Types
<1>3. CASE d # c
  <2>1. InHand(d)' = InHand(d)
    BY <1>1, <1>3, ControlFacts DEF TakeControl, InHand, Layer1, Types
  <2>2. QED
    BY <2>1 DEF TakeControl, HandsInQueue
<1>4. QED
  BY <1>2, <1>3

(* A control thread that ends its job consumes the message it has in hand. *)
LEMMA HandsByEnd ==
  ASSUME Layer1, HandsInQueue, NEW t \in ControlThreads, cpc[t] # "idle", EndControl(t),
         control' = [control EXCEPT ![cjob[t]] = @ - 1]
  PROVE  HandsInQueue'
<1> SUFFICES ASSUME NEW d \in ControlMessages PROVE Cardinality(InHand(d)') <= control'[d]
  BY DEF HandsInQueue
<1>1. cjob[t] \in ControlMessages /\ cjob'[t] = NoControl
  BY DEF EndControl, Layer1, Types, Jobs
<1>2. CASE d = cjob[t]
  <2>1. InHand(d)' = InHand(d) \ {t} /\ t \in InHand(d)
    BY <1>1, <1>2, ControlFacts DEF EndControl, InHand, Layer1, Types
  <2>2. Cardinality(InHand(d)') = Cardinality(InHand(d)) - 1
    BY <2>1, Finite, FS_RemoveElement
  <2>3. control'[d] = control[d] - 1 /\ control[d] \in Int
    BY <1>1, <1>2 DEF Layer1, Types
  <2>4. QED
    BY <2>2, <2>3, Finite DEF HandsInQueue
<1>3. CASE d # cjob[t]
  <2>1. InHand(d)' = InHand(d)
    BY <1>1, <1>3, ControlFacts DEF EndControl, InHand, Layer1, Types
  <2>2. control'[d] = control[d]
    BY <1>3 DEF Layer1, Types
  <2>3. QED
    BY <2>1, <2>2 DEF HandsInQueue
<1>4. QED
  BY <1>2, <1>3

(* What workers send is only ever added to the control queue.              *)
LEMMA ControlGrows ==
  ASSUME Types, control' = control \/ \E d \in ControlMessages : control' = [control EXCEPT ![d] = @ + 1]
  PROVE  \A c \in ControlMessages : control'[c] >= control[c]
<1>1. \A c \in ControlMessages : control[c] \in Int
  BY DEF Types
<1>2. CASE control' = control
  BY <1>1, <1>2
<1>3. ASSUME NEW d \in ControlMessages, control' = [control EXCEPT ![d] = @ + 1],
             NEW c \in ControlMessages
      PROVE  control'[c] >= control[c]
  BY <1>1, <1>3 DEF Types
<1>4. QED
  BY <1>2, <1>3

LEMMA WorkersAddControl ==
  ASSUME Types, NEW w \in Workers,
         Start(w) \/ CrashWorker(w) \/ \E m \in Messages : Work(w, m)
  PROVE  control' = control \/ \E d \in ControlMessages : control' = [control EXCEPT ![d] = @ + 1]
  BY ControlFacts DEF Start, StartTransport, ReportStart, Subscribe, CrashWorker, Work, Receive,
     Complete, HandledMaxRetries, FinishedMessageProcessing, Retry, controlVars

LEMMA HandsStep == Layer1 /\ HandsInQueue /\ [Next]_vars => HandsInQueue'
<1> SUFFICES ASSUME Layer1, HandsInQueue, [Next]_vars PROVE HandsInQueue'
  OBVIOUS
<1>t. Types /\ Types'
  BY Layer1Step DEF Layer1
<1>u. ASSUME UNCHANGED <<control, cjob>> PROVE HandsInQueue'
  BY <1>u DEF HandsInQueue, InHand
<1>f. ASSUME \A c \in ControlMessages : InHand(c)' \subseteq InHand(c) /\ control'[c] >= control[c]
      PROVE  HandsInQueue'
  BY <1>f, <1>t, HandsKept
<1>1. CASE UNCHANGED vars
  BY <1>1, <1>u DEF vars, controlVars
<1>2. ASSUME NEW m \in Messages, Distribute(m) \/ SendFails(m) PROVE HandsInQueue'
  BY <1>2, <1>u DEF Distribute, PopAvailableWorker, Dispatch, ReceiveUnhandled, SendFails,
     controlVars
<1>3. CASE Crash
  <2>1. \A c \in ControlMessages : InHand(c)' = {}
    BY <1>3, ControlFacts DEF Crash, InHand
  <2>2. QED
    BY <1>3, <1>f, <1>t, <2>1 DEF Crash, Types
<1>4. CASE StartManager \/ Stop
  BY <1>4, <1>u DEF StartManager, Stop, controlVars
<1>5. ASSUME NEW t \in ControlThreads, HandleControl(t) PROVE HandsInQueue'
  BY <1>5, <1>u, HandsByTake, HandsByEnd DEF HandleControl, BelowLimit, AddWorker, Refuse,
     HandleControlMessage, ControlAlwaysFails, LoseControl
<1>6. ASSUME NEW t \in ControlThreads, ControlFails(t) PROVE HandsInQueue'
  <2>1. \A c \in ControlMessages : InHand(c)' \subseteq InHand(c)
    BY <1>6, <1>t, ControlFacts DEF ControlFails, EndControl, InHand, Types
  <2>2. QED
    BY <1>6, <1>f, <1>t, <2>1 DEF ControlFails, Types
<1>g. ASSUME UNCHANGED cjob, \A c \in ControlMessages : control'[c] >= control[c]
      PROVE  HandsInQueue'
  BY <1>g, <1>f DEF InHand
<1>7. ASSUME NEW w \in Workers, Start(w) \/ CrashWorker(w) PROVE HandsInQueue'
  <2>1. \A c \in ControlMessages : control'[c] >= control[c]
    BY <1>7, <1>t, WorkersAddControl, ControlGrows
  <2>2. QED
    BY <1>7, <1>g, <2>1 DEF Start, StartTransport, ReportStart, Subscribe, CrashWorker, controlVars
<1>8. ASSUME NEW w \in Workers, NEW m \in Messages, Work(w, m) PROVE HandsInQueue'
  <2>1. \A c \in ControlMessages : control'[c] >= control[c]
    BY <1>8, <1>t, WorkersAddControl, ControlGrows
  <2>2. QED
    BY <1>8, <1>g, <2>1 DEF Work, Receive, Complete, HandledMaxRetries, Consume, Retry, controlVars
<1>9. QED
  BY <1>1, <1>2, <1>3, <1>4, <1>5, <1>6, <1>7, <1>8 DEF Next

LEMMA Layer2Correct == Spec => []Layer2
  BY Layer2Init, PoppedStep, HandsStep, Layer1Correct, PTL DEF Spec, Layer2

(* Commits of the data and the control transport never consume what is not *)
(* there: the counts of both queues stay natural numbers.                  *)
THEOREM TypeCorrect == Spec => []TypeOK
<1>1. Layer1 /\ Layer2 => TypeOK
  <2> SUFFICES ASSUME Layer1, Layer2 PROVE TypeOK
    OBVIOUS
  <2>1. (\A w \in Workers : credits[w] \in Nat) /\ \A c \in ControlMessages : control[c] \in Nat
    BY Finite DEF Layer1, Layer2, Types, PoppedInStorage, HandsInQueue
  <2>2. credits \in [Workers -> Nat] /\ control \in [ControlMessages -> Nat]
    BY <2>1 DEF Layer1, Types
  <2>3. QED
    BY <2>2 DEF Layer1, Types, TypeOK
<1>2. QED
  BY <1>1, Layer1Correct, Layer2Correct, PTL
-----------------------------------------------------------------------------
(* Layer 3: the capacity of a worker, whose parts only turn into each      *)
(* other: a pending report into entries, an entry into a message at the    *)
(* worker, such a message into a pending report.                           *)

Account(w) ==
  /\ TotalCapacity(w) <= NumberOfWorkerThreads * reports[w]
  /\ reports[w] > 0 => TotalCapacity(w) + lost[w] >= NumberOfWorkerThreads

LEMMA ThreadsTimes ==
  /\ \A n \in Int : NumberOfWorkerThreads * n \in Int
  /\ \A n \in Int : NumberOfWorkerThreads * (n + 1) = NumberOfWorkerThreads * n + NumberOfWorkerThreads
  /\ \A n \in Int : NumberOfWorkerThreads * (n - 1) = NumberOfWorkerThreads * n - NumberOfWorkerThreads
  /\ \A n \in Nat : NumberOfWorkerThreads * n \in Nat
  BY DistributorAssumption

(* The slots of a worker are finitely many, whatever the step.             *)
LEMMA SlotsFinite ==
  ASSUME Types, Types', NEW w \in Workers
  PROVE  /\ IsFiniteSet(Slots(w)) /\ Cardinality(Slots(w)) \in Nat
         /\ IsFiniteSet(Slots(w)') /\ Cardinality(Slots(w)') \in Nat
<1>1. Slots(w) \subseteq Messages /\ Slots(w)' \subseteq Messages
  BY DEF Slots, Types
<1>2. QED
  BY <1>1, DistributorAssumption, FS_Subset, FS_CardinalityType

LEMMA AccountInit == Init => \A w \in Workers : Account(w)
<1> SUFFICES ASSUME Init, NEW w \in Workers PROVE Account(w)
  OBVIOUS
<1>1. Slots(w) = {}
  BY DEF Init, Slots
<1>2. Cardinality(Slots(w)) = 0
  BY <1>1, FS_EmptySet
<1>3. credits[w] = 0 /\ control[Ready(w)] = 0 /\ control[Starting(w)] = 0 /\ reports[w] = 0
  BY ControlFacts DEF Init
<1>4. NumberOfWorkerThreads * 0 = 0
  BY DistributorAssumption
<1>5. QED
  BY <1>2, <1>3, <1>4 DEF Account, TotalCapacity

(* A step that leaves all the parts of a worker's account alone.           *)
LEMMA AccountKept ==
  ASSUME NEW w \in Workers, Account(w),
         UNCHANGED <<credits[w], control[Ready(w)], control[Starting(w)], Slots(w), reports[w],
                     lost[w]>>
  PROVE  Account(w)'
  BY DEF Account, TotalCapacity

LEMMA AccountDispatch ==
  ASSUME Layer1, Layer1', NEW w \in Workers, Account(w), NEW m \in Messages, Dispatch(m)
  PROVE  Account(w)'
<1> USE DEF Layer1
<1>c. UNCHANGED <<control, reports, lost>>
  BY DEF Dispatch, controlVars, historyVars
<1>1. CASE w = popped[m]
  <2>1. m \in input
    BY <1>1, DistributorAssumption DEF Dispatch, Types, InFlight
  <2>2. Slots(w)' = Slots(w) \cup {m} /\ m \notin Slots(w)
    BY <1>1, <2>1 DEF Dispatch, Slots, Types, Whereabouts
  <2>3. Cardinality(Slots(w)') = Cardinality(Slots(w)) + 1
    BY <2>2, SlotsFinite, FS_AddElement
  <2>4. credits'[w] = credits[w] - 1 /\ credits[w] \in Int
    BY <1>1 DEF Dispatch, Types
  <2>5. TotalCapacity(w)' = TotalCapacity(w)
    <3>1. control[Ready(w)] \in Int /\ NumberOfWorkerThreads * control[Starting(w)] \in Int
      BY ControlFacts, ThreadsTimes DEF Types
    <3>2. QED
      BY <1>c, <2>3, <2>4, <3>1, SlotsFinite DEF TotalCapacity
  <2>6. QED
    BY <1>c, <2>5 DEF Account
<1>2. CASE w # popped[m]
  <2>1. Slots(w)' = Slots(w) /\ credits'[w] = credits[w]
    BY <1>2 DEF Dispatch, Slots, Types
  <2>2. QED
    BY <1>c, <2>1, AccountKept
<1>3. QED
  BY <1>1, <1>2

(* A report that is handled and one that is lost.                          *)
LEMMA AccountControl ==
  ASSUME Layer1, Layer1', Layer2, Layer2', NEW w \in Workers, Account(w),
         NEW t \in ControlThreads, cpc[t] # "idle",
         HandleControlMessage(t) \/ LoseControl(t)
  PROVE  Account(w)'
<1> USE DEF Layer1
<1> DEFINE c == cjob[t]
           P == Cardinality(Popped(w))
           N == NumberOfWorkerThreads
<1>1. c \in ControlMessages /\ c.worker \in Workers
  BY ControlFacts DEF Types, Jobs
<1>2. UNCHANGED <<Slots(w), reports>> /\ control' = [control EXCEPT ![c] = @ - 1]
  BY DEF HandleControlMessage, LoseControl, Slots, workerVars, historyVars
<1>3. CASE c.worker # w
  <2>1. c # Ready(w) /\ c # Starting(w)
    BY <1>3, ControlFacts
  <2>2. UNCHANGED <<credits[w], lost[w], control[Ready(w)], control[Starting(w)]>>
    BY <1>1, <1>2, <1>3, <2>1, ControlFacts DEF HandleControlMessage, LoseControl, historyVars, Types
  <2>3. QED
    BY <1>2, <2>2, AccountKept
<1>4. CASE c = Ready(w)
  <2>1. /\ control'[Ready(w)] = control[Ready(w)] - 1
        /\ control'[Starting(w)] = control[Starting(w)]
        /\ control[Ready(w)] \in Int /\ N * control[Starting(w)] \in Int
    BY <1>1, <1>2, <1>4, ControlFacts, ThreadsTimes DEF Types
  <2>2. c.type = "ready" /\ c.worker = w /\ Capacity(c) = 1
    BY <1>4, ControlFacts DEF Capacity
  <2>3. CASE HandleControlMessage(t)
    <3>1. credits'[w] = credits[w] + 1 /\ lost' = lost /\ credits[w] \in Int
      BY <2>2, <2>3 DEF HandleControlMessage, historyVars, Types
    <3>2. TotalCapacity(w)' = TotalCapacity(w)
      BY <1>2, <2>1, <3>1, SlotsFinite DEF TotalCapacity
    <3>3. QED
      BY <1>2, <3>1, <3>2 DEF Account
  <2>4. CASE LoseControl(t)
    <3>1. credits'[w] = credits[w] /\ lost'[w] = lost[w] + 1 /\ credits[w] \in Int /\ lost[w] \in Nat
      BY <2>2, <2>4 DEF LoseControl, Types
    <3>2. TotalCapacity(w)' = TotalCapacity(w) - 1 /\ TotalCapacity(w) \in Int
      BY <1>2, <2>1, <3>1, SlotsFinite DEF TotalCapacity
    <3>3. reports[w] \in Nat /\ N * reports[w] \in Int /\ N \in Int
      BY ThreadsTimes, DistributorAssumption DEF Types
    <3>4. QED
      BY <1>2, <3>1, <3>2, <3>3 DEF Account
  <2>5. QED
    BY <2>3, <2>4
<1>5. CASE c = Starting(w)
  <2>1. /\ control'[Starting(w)] = control[Starting(w)] - 1
        /\ control'[Ready(w)] = control[Ready(w)]
        /\ control[Ready(w)] \in Int /\ control[Starting(w)] \in Int
    BY <1>1, <1>2, <1>5, ControlFacts DEF Types
  <2>2. c.type = "starting" /\ c.worker = w /\ Capacity(c) = N
    BY <1>5, ControlFacts DEF Capacity
  <2>3. N * control'[Starting(w)] = N * control[Starting(w)] - N
        /\ N * control[Starting(w)] \in Int /\ N \in Int
    BY <2>1, ThreadsTimes, DistributorAssumption
  <2>4. P \in Nat
    BY Finite
  <2>5. reports[w] \in Nat /\ N * reports[w] \in Int /\ lost[w] \in Nat /\ credits[w] \in Int
    BY ThreadsTimes DEF Types
  <2>6. CASE HandleControlMessage(t)
    <3>1. credits'[w] = P + N /\ lost' = lost
      BY <2>2, <2>6 DEF HandleControlMessage, ClearAvailabilityForWorker, historyVars, Types
    <3>2. Popped(w)' = Popped(w)
      BY <2>6 DEF HandleControlMessage, Popped, dataVars
    <3>3. TotalCapacity(w)' = TotalCapacity(w) - credits[w] + P
      <4>1. /\ Cardinality(Slots(w)') = Cardinality(Slots(w))
            /\ Cardinality(Slots(w)) \in Nat
        BY <1>2, SlotsFinite
      <4>2. /\ TotalCapacity(w)' = credits'[w] + control'[Ready(w)]
                                     + N * control'[Starting(w)] + Cardinality(Slots(w)')
            /\ TotalCapacity(w) = credits[w] + control[Ready(w)]
                                    + N * control[Starting(w)] + Cardinality(Slots(w))
        BY DEF TotalCapacity
      <4>3. QED
        BY <2>1, <2>3, <2>4, <2>5, <3>1, <4>1, <4>2
    <3>4. control'[Ready(w)] \in Nat /\ control'[Starting(w)] \in Nat
      <4>1. \A d \in ControlMessages :
              Cardinality(InHand(d)') <= control'[d] /\ control'[d] \in Int
        BY DEF Layer2, HandsInQueue, Types
      <4>2. \A d \in ControlMessages : control'[d] \in Nat
        BY <4>1, Finite
      <4>3. QED
        BY <4>2, ControlFacts
    <3>5. TotalCapacity(w)' >= N /\ TotalCapacity(w)' \in Int
      <4>1. N * control'[Starting(w)] \in Nat
        BY <3>4, ThreadsTimes
      <4>2. QED
        BY <2>3, <2>4, <3>1, <3>4, <4>1, SlotsFinite DEF TotalCapacity
    <3>6. TotalCapacity(w) \in Int
      BY <2>1, <2>3, <2>5, SlotsFinite DEF TotalCapacity
    <3>7. credits[w] >= P
      BY DEF Layer2, PoppedInStorage
    <3>8. QED
      BY <1>2, <2>4, <2>5, <3>1, <3>3, <3>5, <3>6, <3>7, <2>3 DEF Account
  <2>7. CASE LoseControl(t)
    <3>1. credits'[w] = credits[w] /\ lost'[w] = lost[w] + N
      BY <2>2, <2>7 DEF LoseControl, Types
    <3>2. TotalCapacity(w)' = TotalCapacity(w) - N /\ TotalCapacity(w) \in Int
      BY <1>2, <2>1, <2>3, <2>5, <3>1, SlotsFinite DEF TotalCapacity
    <3>3. QED
      BY <1>2, <2>3, <2>5, <3>1, <3>2, DistributorAssumption DEF Account
  <2>8. QED
    BY <2>6, <2>7
<1>6. QED
  BY <1>1, <1>3, <1>4, <1>5, ControlFacts

LEMMA AccountReport ==
  ASSUME Layer1, Layer1', Layer2, NEW w \in Workers, Account(w), NEW v \in Workers, ReportStart(v)
  PROVE  Account(w)'
<1> USE DEF Layer1
<1> DEFINE N == NumberOfWorkerThreads
<1>1. UNCHANGED <<Slots(w), credits>>
  BY DEF ReportStart, Slots
<1>2. CASE v # w
  <2>1. UNCHANGED <<reports[w], lost[w], control[Ready(w)], control[Starting(w)]>>
    BY <1>2, ControlFacts DEF ReportStart, Types
  <2>2. QED
    BY <1>1, <2>1, AccountKept
<1>3. CASE v = w
  <2>1. /\ control'[Ready(w)] = control[Ready(w)] /\ control[Ready(w)] \in Int
        /\ control'[Starting(w)] = control[Starting(w)] + 1 /\ control[Starting(w)] \in Int
        /\ reports'[w] = reports[w] + 1 /\ reports[w] \in Nat
        /\ lost'[w] = 0 /\ credits[w] \in Int
    BY <1>3, ControlFacts DEF ReportStart, Types
  <2>2. /\ N * control'[Starting(w)] = N * control[Starting(w)] + N
        /\ N * reports'[w] = N * reports[w] + N
        /\ N * control[Starting(w)] \in Int /\ N * reports[w] \in Int /\ N \in Int
    <3>1. N * (control[Starting(w)] + 1) = N * control[Starting(w)] + N
      BY <2>1, ThreadsTimes
    <3>2. N * (reports[w] + 1) = N * reports[w] + N
      BY <2>1, ThreadsTimes
    <3>3. N * control[Starting(w)] \in Int /\ N * reports[w] \in Int /\ N \in Int
      BY <2>1, ThreadsTimes, DistributorAssumption
    <3>4. QED
      BY <2>1, <3>1, <3>2, <3>3
  <2>3. TotalCapacity(w)' = TotalCapacity(w) + N /\ TotalCapacity(w) \in Int
    BY <1>1, <2>1, <2>2, SlotsFinite DEF TotalCapacity
  <2>4. credits[w] \in Nat
    BY Finite DEF Layer2, PoppedInStorage, Types
  <2>5. control[Ready(w)] \in Nat /\ control[Starting(w)] \in Nat
    BY Finite, ControlFacts DEF Layer2, HandsInQueue, Types
  <2>6. N * control[Starting(w)] \in Nat
    BY <2>5, ThreadsTimes
  <2>7. TotalCapacity(w) >= 0
    BY <2>3, <2>4, <2>5, <2>6, SlotsFinite DEF TotalCapacity
  <2>8. QED
    BY <2>1, <2>2, <2>3, <2>7 DEF Account
<1>4. QED
  BY <1>2, <1>3

(* The end of a message at worker v, for the account of worker w.          *)
LEMMA AccountFinished ==
  ASSUME Layer1, Layer1', NEW w \in Workers, Account(w), NEW v \in Workers, NEW m \in Messages,
         Consume(v, m), FinishedMessageProcessing(v, m),
         retries' = retries \/ retries' = [retries EXCEPT ![m] = @ + 1]
  PROVE  Account(w)'
<1> USE DEF Layer1
<1>1. m \in inbox[v] /\ \A u \in Workers : m \in inbox[u] => u = v
  BY DEF Consume, Whereabouts
<1>2. \A n \in Messages : n # m => retries'[n] = retries[n]
  BY DEF Types
<1>3. UNCHANGED <<credits, reports>>
  BY DEF Consume
<1>4. CASE v # w
  <2>1. inbox'[w] = inbox[w] /\ m \notin inbox[w] /\ inbox[w] \subseteq Messages
    BY <1>1, <1>4 DEF Consume, Types
  <2>2. Slots(w)' = Slots(w)
    BY <1>2, <2>1 DEF Slots
  <2>3. UNCHANGED <<lost[w], control[Ready(w)], control[Starting(w)]>>
    BY <1>4, ControlFacts DEF FinishedMessageProcessing, Types
  <2>4. QED
    BY <1>3, <2>2, <2>3, AccountKept
<1>5. CASE v = w
  <2>1. inbox'[w] = inbox[w] \ {m} /\ inbox[w] \subseteq Messages
    BY <1>5 DEF Consume, Types
  <2>2. CASE retries[m] > 0
    <3>1. Slots(w)' = Slots(w)
      BY <1>2, <2>1, <2>2 DEF Slots
    <3>2. UNCHANGED <<lost, control>>
      BY <2>2 DEF FinishedMessageProcessing
    <3>3. QED
      BY <1>3, <3>1, <3>2, AccountKept
  <2>3. CASE ~ retries[m] > 0
    <3>1. retries[m] = 0
      BY <2>3, DistributorAssumption DEF Types
    <3>2. Slots(w)' = Slots(w) \ {m} /\ m \in Slots(w)
      BY <1>1, <1>2, <1>5, <2>1, <3>1 DEF Slots
    <3>3. Cardinality(Slots(w)') = Cardinality(Slots(w)) - 1
      BY <3>2, SlotsFinite, FS_RemoveElement
    <3>4. /\ control[Ready(w)] \in Int /\ NumberOfWorkerThreads * control[Starting(w)] \in Int
          /\ credits[w] \in Int /\ lost[w] \in Nat
          /\ NumberOfWorkerThreads * reports[w] \in Int /\ NumberOfWorkerThreads \in Int
          /\ reports[w] \in Nat
      BY ControlFacts, ThreadsTimes, DistributorAssumption DEF Types
    <3>5. control'[Starting(w)] = control[Starting(w)]
      BY <1>5, ControlFacts DEF FinishedMessageProcessing, Types
    <3>6. CASE control'[Ready(w)] = control[Ready(w)] + 1 /\ lost' = lost
      <4>1. TotalCapacity(w)' = TotalCapacity(w)
        BY <1>3, <3>3, <3>4, <3>5, <3>6, SlotsFinite DEF TotalCapacity
      <4>2. QED
        BY <1>3, <3>6, <4>1 DEF Account
    <3>7. CASE control' = control /\ lost'[w] = lost[w] + 1
      <4>1. TotalCapacity(w)' = TotalCapacity(w) - 1 /\ TotalCapacity(w) \in Int
        BY <1>3, <3>3, <3>4, <3>7, SlotsFinite DEF TotalCapacity
      <4>2. QED
        BY <1>3, <3>4, <3>7, <4>1 DEF Account
    <3>8. QED
      BY <1>5, <2>3, <3>6, <3>7, ControlFacts DEF FinishedMessageProcessing, Types
  <2>4. QED
    BY <2>2, <2>3
<1>6. QED
  BY <1>4, <1>5

LEMMA AccountStep ==
  ASSUME Layer1, Layer2, Layer1', Layer2', [Next]_vars, NEW w \in Workers, Account(w)
  PROVE  Account(w)'
<1>u. ASSUME UNCHANGED <<credits, control, inbox, retries, reports, lost>> PROVE Account(w)'
  BY <1>u, AccountKept DEF Slots
<1>1. CASE UNCHANGED vars
  BY <1>1, <1>u DEF vars, controlVars, workerVars, historyVars
<1>2. ASSUME NEW m \in Messages, Distribute(m) \/ SendFails(m) PROVE Account(w)'
  BY <1>2, <1>u, AccountDispatch DEF Distribute, PopAvailableWorker, ReceiveUnhandled, SendFails,
     controlVars, workerVars, historyVars
<1>3. CASE StartManager \/ Stop \/ Crash
  BY <1>3, <1>u DEF StartManager, Stop, Crash, controlVars, workerVars, historyVars
<1>4. ASSUME NEW t \in ControlThreads, HandleControl(t) \/ ControlFails(t) PROVE Account(w)'
  <2>1. CASE ControlFails(t) \/ BelowLimit(t) \/ AddWorker(t) \/ \E c \in ControlMessages : TakeControl(t, c)
    BY <2>1, <1>u DEF ControlFails, BelowLimit, AddWorker, TakeControl, workerVars, historyVars
  <2>2. CASE HandleControlMessage(t) \/ Refuse(t) \/ ControlAlwaysFails(t)
    <3>1. cpc[t] # "idle"
      BY <2>2 DEF HandleControlMessage, Refuse, ControlAlwaysFails
    <3>2. QED
      BY <2>2, <3>1, AccountControl DEF Refuse, ControlAlwaysFails
  <2>3. QED
    BY <1>4, <2>1, <2>2 DEF HandleControl
<1>5. ASSUME NEW v \in Workers, Start(v) \/ CrashWorker(v) PROVE Account(w)'
  BY <1>5, <1>u, AccountReport DEF Start, StartTransport, Subscribe, CrashWorker, controlVars,
     historyVars
<1>6. ASSUME NEW v \in Workers, NEW m \in Messages, Work(v, m) PROVE Account(w)'
  <2>1. CASE Receive(v, m)
    BY <2>1, <1>u DEF Receive, controlVars, historyVars
  <2>2. CASE Complete(v, m) \/ HandledMaxRetries(v, m)
    <3>1. /\ Consume(v, m) /\ FinishedMessageProcessing(v, m)
          /\ retries' = retries \/ retries' = [retries EXCEPT ![m] = @ + 1]
      BY <2>2 DEF Complete, HandledMaxRetries
    <3>2. QED
      BY <3>1, AccountFinished
  <2>3. CASE Retry(v, m)
    <3>1. retries[m] > 0
      BY <2>3 DEF Retry, Layer1, Whereabouts
    <3>2. Slots(w)' = Slots(w)
      BY <2>3, <3>1 DEF Retry, Slots, Layer1, Types
    <3>3. QED
      BY <2>3, <3>2, AccountKept DEF Retry, controlVars, historyVars
  <2>4. QED
    BY <1>6, <2>1, <2>2, <2>3 DEF Work
<1>7. QED
  BY <1>1, <1>2, <1>3, <1>4, <1>5, <1>6 DEF Next

LEMMA AccountCorrect == Spec => []((\A w \in Workers : Account(w)))
<1>1. Layer1 /\ Layer2 /\ Layer1' /\ Layer2' /\ (\A w \in Workers : Account(w)) /\ [Next]_vars
        => (\A w \in Workers : Account(w))'
  BY AccountStep
<1>2. QED
  BY <1>1, AccountInit, Layer1Correct, Layer2Correct, PTL DEF Spec

(* Whatever crashes, rolls back and is retried, a worker is on record for  *)
(* no more messages than its threads for each time it has started, and it  *)
(* keeps its capacity, but for what it finishes before it has subscribed   *)
(* and for reports that are refused or fail.                               *)
THEOREM CapacityAccountedCorrect == Spec => []CapacityAccounted
<1>1. (\A w \in Workers : Account(w)) => CapacityAccounted
  BY DEF Account, CapacityAccounted, CapacityBounded, CapacityKept
<1>2. QED
  BY <1>1, AccountCorrect, PTL

(* As long as a worker has not started again, the entries on record for it *)
(* are "the number of messages that this worker is ready to process": only *)
(* a restart makes the distributor overestimate it.                        *)
OnlyWhatIsReadyAtFirst ==
  \A w \in Workers : reports[w] <= 1 => credits[w] <= NumberOfWorkerThreads

THEOREM OnlyWhatIsReadyUnlessRestarted == Spec => []OnlyWhatIsReadyAtFirst
<1>1. TypeOK /\ CapacityAccounted => OnlyWhatIsReadyAtFirst
  <2> SUFFICES ASSUME TypeOK, CapacityAccounted, NEW w \in Workers, reports[w] <= 1
               PROVE  credits[w] <= NumberOfWorkerThreads
    BY DEF OnlyWhatIsReadyAtFirst
  <2>1. /\ credits[w] \in Nat /\ control[Ready(w)] \in Nat /\ control[Starting(w)] \in Nat
        /\ reports[w] \in Nat /\ NumberOfWorkerThreads \in Nat
    BY ControlFacts, DistributorAssumption DEF TypeOK
  <2>2. Slots(w) \subseteq Messages
    BY DEF Slots, TypeOK
  <2>a. Cardinality(Slots(w)) \in Nat
    BY <2>2, DistributorAssumption, FS_Subset, FS_CardinalityType
  <2>3. TotalCapacity(w) <= NumberOfWorkerThreads * reports[w]
    BY DEF CapacityAccounted, CapacityBounded
  <2>4. NumberOfWorkerThreads * reports[w] <= NumberOfWorkerThreads
    <3>1. reports[w] = 0 \/ reports[w] = 1
      BY <2>1
    <3>2. QED
      BY <2>1, <3>1
  <2>5. NumberOfWorkerThreads * control[Starting(w)] \in Nat
    BY <2>1
  <2>6. QED
    BY <2>1, <2>a, <2>3, <2>4, <2>5 DEF TotalCapacity
<1>2. QED
  BY <1>1, TypeCorrect, CapacityAccountedCorrect, PTL

-----------------------------------------------------------------------------
(* The list of workers.  Who is about to add a worker has found the list   *)
(* shorter than the license; then all other threads may be about to add.   *)

Adding == {t \in ControlThreads : cpc[t] = "add"}

ListBounded ==
  \/ known = {} /\ Adding = {}
  \/ Cardinality(known) + Cardinality(Adding)
       < AllowedWorkerNodes + Cardinality(ControlThreads)

LEMMA AddingFinite == IsFiniteSet(Adding) /\ Cardinality(Adding) \in Nat
  BY FS_Subset, FS_CardinalityType, DistributorAssumption DEF Adding

LEMMA ListInit == Init => ListBounded /\ IsFiniteSet(known)
  BY FS_EmptySet DEF Init, ListBounded, Adding

LEMMA ListStep ==
  ASSUME Layer1, ListBounded, IsFiniteSet(known), [Next]_vars
  PROVE  ListBounded' /\ IsFiniteSet(known')
<1> USE DEF ListBounded
<1>t. /\ AllowedWorkerNodes \in Nat /\ Cardinality(ControlThreads) \in Nat
      /\ Cardinality(known) \in Nat
  BY DistributorAssumption, FS_CardinalityType
<1>c. cpc \in [ControlThreads -> {"idle", "count", "add", "handle"}]
  BY DEF Layer1, Types
<1>k. ASSUME known' = known, Adding' = Adding PROVE ListBounded' /\ IsFiniteSet(known')
  BY <1>k
<1>1. CASE UNCHANGED vars
  BY <1>1, <1>k DEF vars, controlVars, Adding
<1>2. CASE StartManager \/ Stop
  BY <1>2, <1>k DEF StartManager, Stop, controlVars, Adding
<1>3. CASE Crash
  BY <1>3, FS_EmptySet DEF Crash, Adding
<1>4. ASSUME NEW m \in Messages, Distribute(m) \/ SendFails(m)
      PROVE  ListBounded' /\ IsFiniteSet(known')
  BY <1>4, <1>k DEF Distribute, PopAvailableWorker, Dispatch, ReceiveUnhandled, SendFails,
     controlVars, Adding
<1>5. ASSUME NEW t \in ControlThreads, HandleControl(t) \/ ControlFails(t)
      PROVE  ListBounded' /\ IsFiniteSet(known')
  <2>1. CASE BelowLimit(t)
    <3>1. known' = known /\ Cardinality(known) < AllowedWorkerNodes
      BY <2>1, <1>t DEF BelowLimit, LimitReached
    <3>2. Adding' \subseteq ControlThreads
      BY DEF Adding
    <3>3. Cardinality(Adding') <= Cardinality(ControlThreads) /\ Cardinality(Adding') \in Nat
      BY <3>2, FS_Subset, FS_CardinalityType, DistributorAssumption
    <3>4. QED
      BY <3>1, <3>3, <1>t
  <2>2. CASE AddWorker(t)
    <3>1. t \in Adding /\ Adding' = Adding \ {t}
      BY <2>2, <1>c DEF AddWorker, Adding
    <3>2. Cardinality(Adding') = Cardinality(Adding) - 1
      BY <3>1, AddingFinite, FS_RemoveElement
    <3>3. PICK k : known' = known \cup {k}
      BY <2>2 DEF AddWorker
    <3>a. /\ IsFiniteSet(known \cup {k})
          /\ Cardinality(known \cup {k}) \in {Cardinality(known), Cardinality(known) + 1}
      BY FS_AddElement
    <3>4. IsFiniteSet(known') /\ Cardinality(known') <= Cardinality(known) + 1
      BY <3>3, <3>a, <1>t
    <3>5. Cardinality(known') \in Nat
      BY <3>4, FS_CardinalityType
    <3>6. Adding # {}
      BY <3>1
    <3>7. QED
      BY <3>2, <3>4, <3>5, <3>6, <1>t, AddingFinite
  <2>3. ASSUME known' = known, cpc[t] # "add", cpc' = [cpc EXCEPT ![t] = cpc'[t]],
               cpc'[t] # "add"
        PROVE  Adding' = Adding
    BY <2>3, <1>c DEF Adding
  <2>4. ASSUME NEW c \in ControlMessages, TakeControl(t, c)
        PROVE  ListBounded' /\ IsFiniteSet(known')
    <3>1. cpc[t] = "idle" /\ known' = known /\ cpc'[t] \in {"handle", "count"}
          /\ cpc' = [cpc EXCEPT ![t] = cpc'[t]]
      BY <2>4, <1>c DEF TakeControl
    <3>2. QED
      BY <3>1, <2>3, <1>k
  <2>5. CASE Refuse(t) \/ HandleControlMessage(t) \/ ControlAlwaysFails(t) \/ ControlFails(t)
    <3>1. cpc[t] \in {"count", "handle"} /\ known' = known /\ EndControl(t)
      BY <2>5 DEF Refuse, HandleControlMessage, ControlAlwaysFails, ControlFails, LoseControl
    <3>2. cpc'[t] = "idle" /\ cpc' = [cpc EXCEPT ![t] = cpc'[t]]
      BY <3>1, <1>c DEF EndControl
    <3>3. QED
      BY <3>1, <3>2, <2>3, <1>k
  <2>6. QED
    BY <1>5, <2>1, <2>2, <2>4, <2>5 DEF HandleControl
<1>6. ASSUME NEW w \in Workers, Start(w) \/ CrashWorker(w)
      PROVE  ListBounded' /\ IsFiniteSet(known')
  BY <1>6, <1>k DEF Start, StartTransport, ReportStart, Subscribe, CrashWorker, controlVars,
     Adding
<1>7. ASSUME NEW w \in Workers, NEW m \in Messages, Work(w, m)
      PROVE  ListBounded' /\ IsFiniteSet(known')
  BY <1>7, <1>k DEF Work, Receive, Complete, HandledMaxRetries, Consume, Retry, controlVars,
     Adding
<1>8. QED
  BY <1>1, <1>2, <1>3, <1>4, <1>5, <1>6, <1>7 DEF Next

(* The lookup, the count and the addition of LimitAddingAWorker may        *)
(* overlap in any number of threads, for any number of workers: the list   *)
(* outgrows the license by less entries than there are control threads.    *)
THEOREM LicenseExceededByThreadsCorrect == Spec => []LicenseExceededByThreads
<1> DEFINE Inv == ListBounded /\ IsFiniteSet(known)
<1>1. Init => Inv
  BY ListInit
<1>2. Layer1 /\ Inv /\ [Next]_vars => Inv'
  BY ListStep
<1>3. Inv => LicenseExceededByThreads
  <2> SUFFICES ASSUME ListBounded, IsFiniteSet(known), known # {}
               PROVE  Cardinality(known) < AllowedWorkerNodes + Cardinality(ControlThreads)
    BY DEF LicenseExceededByThreads
  <2>1. /\ AllowedWorkerNodes \in Nat /\ Cardinality(ControlThreads) \in Nat
        /\ Cardinality(known) \in Nat
    BY DistributorAssumption, FS_CardinalityType
  <2>2. QED
    BY <2>1, AddingFinite DEF ListBounded
<1>4. QED
  <2> HIDE DEF Inv
  <2>1. QED
    BY <1>1, <1>2, <1>3, Layer1Correct, PTL DEF Spec

-----------------------------------------------------------------------------
(* Settlement.  A step either leaves every message where it is waiting or  *)
(* brings one to an end, and what has come to an end waits nowhere.        *)

Waiting == {m \in Messages : Held(m)}

NothingSettled == Waiting' = Waiting /\ UNCHANGED outcomeVars

OneSettled(m) ==
  /\ m \in Waiting /\ Waiting' = Waiting \ {m}
  /\ \/ done' = done \cup {m} /\ UNCHANGED <<errors, dropped>>
     \/ errors' = errors \cup {m} /\ UNCHANGED <<done, dropped>>
     \/ dropped' = dropped \cup {m} /\ UNCHANGED <<done, errors>>

EndedOnce ==
  /\ Waiting = Messages \ (done \cup errors \cup dropped)
  /\ done \cap errors = {} /\ done \cap dropped = {} /\ errors \cap dropped = {}

LEMMA EndedInit == Init => EndedOnce
  BY DEF Init, EndedOnce, Waiting, Held

LEMMA WaitingKept ==
  ASSUME input' = input, UNCHANGED <<inbox, deferred>>
  PROVE  Waiting' = Waiting
  BY DEF Waiting, Held

LEMMA SettledByDistributor ==
  ASSUME Layer1, NEW m \in Messages, Distribute(m) \/ SendFails(m)
  PROVE  NothingSettled \/ OneSettled(m)
<1> USE DEF Layer1
<1>1. ASSUME NEW w \in Workers, PopAvailableWorker(m, w) PROVE NothingSettled
  BY <1>1, WaitingKept DEF PopAvailableWorker, NothingSettled, workerVars
<1>2. CASE Dispatch(m)
  <2>1. PICK v \in Workers : v = popped[m]
    BY <1>2 DEF Dispatch, Types
  <2>2. m \in input
    BY <1>2 DEF Dispatch, Types, InFlight
  <2>3. /\ input' = input \ {m} /\ deferred' = deferred
        /\ \A w \in Workers : inbox'[w] = IF w = v THEN inbox[w] \cup {m} ELSE inbox[w]
    BY <1>2, <2>1 DEF Dispatch, Types
  <2>4. \A n \in Messages : Held(n)' <=> Held(n)
    BY <2>2, <2>3 DEF Held
  <2>5. QED
    BY <1>2, <2>4 DEF Dispatch, NothingSettled, Waiting
<1>3. ASSUME input' = input \ {m}, m \in input, UNCHANGED <<inbox, deferred>>
      PROVE  m \in Waiting /\ Waiting' = Waiting \ {m}
  <2>1. \A w \in Workers : m \notin inbox[w] /\ m \notin deferred[w]
    BY <1>3 DEF Whereabouts
  <2>2. Held(m) /\ ~ Held(m)'
    BY <1>3, <2>1 DEF Held
  <2>3. \A n \in Messages \ {m} : Held(n)' <=> Held(n)
    BY <1>3 DEF Held
  <2>4. QED
    BY <2>2, <2>3 DEF Waiting
<1>4. CASE ReceiveUnhandled(m)
  BY <1>4, <1>3 DEF ReceiveUnhandled, OneSettled, workerVars
<1>5. CASE SendFails(m)
  <2>1. m \in input
    BY <1>5 DEF SendFails, Types, InFlight
  <2>2. CASE UNCHANGED <<input, errors>>
    BY <1>5, <2>2, WaitingKept DEF SendFails, NothingSettled, workerVars, outcomeVars
  <2>3. CASE input' = input \ {m} /\ errors' = errors \cup {m}
    BY <1>5, <2>1, <2>3, <1>3 DEF SendFails, OneSettled, workerVars
  <2>4. QED
    BY <1>5, <2>2, <2>3 DEF SendFails
<1>6. QED
  BY <1>1, <1>2, <1>4, <1>5 DEF Distribute

LEMMA SettledByWorker ==
  ASSUME Layer1, NEW w \in Workers, NEW m \in Messages, Work(w, m)
  PROVE  NothingSettled \/ OneSettled(m)
<1> USE DEF Layer1
<1>1. CASE Receive(w, m)
  BY <1>1, WaitingKept DEF Receive, NothingSettled, dataVars
<1>2. ASSUME Consume(w, m)
      PROVE  /\ m \in inbox[w] /\ input' = input /\ dropped' = dropped
             /\ m \notin input /\ \A v \in Workers : m \notin deferred[v]
             /\ \A v \in Workers : inbox'[v] = inbox[v] \ {m}
  <2>1. m \in inbox[w] /\ input' = input /\ dropped' = dropped
    BY <1>2 DEF Consume, Whereabouts, dataVars
  <2>2. m \notin input /\ \A v \in Workers : m \notin deferred[v]
    BY <2>1 DEF Whereabouts
  <2>3. \A v \in Workers \ {w} : m \notin inbox[v]
    BY <2>1 DEF Whereabouts
  <2>4. \A v \in Workers : inbox'[v] = inbox[v] \ {m}
    BY <1>2, <2>3 DEF Consume, Types
  <2>5. QED
    BY <2>1, <2>2, <2>4
<1>3. ASSUME Consume(w, m), deferred' = deferred
      PROVE  m \in Waiting /\ Waiting' = Waiting \ {m}
  <2>1. Held(m) /\ ~ Held(m)'
    BY <1>2, <1>3 DEF Held
  <2>2. \A n \in Messages \ {m} : Held(n)' <=> Held(n)
    BY <1>2, <1>3 DEF Held
  <2>3. QED
    BY <2>1, <2>2 DEF Waiting
<1>4. CASE Complete(w, m)
  BY <1>4, <1>3, <1>2 DEF Complete, OneSettled
<1>5. CASE HandledMaxRetries(w, m)
  <2>1. Consume(w, m) /\ done' = done
    BY <1>5 DEF HandledMaxRetries
  <2>2. CASE retries[m] < NumberOfRetries
    <3>1. /\ errors' = errors
          /\ \A v \in Workers : deferred'[v] = IF v = w THEN deferred[v] \cup {m}
                                                 ELSE deferred[v]
      BY <1>5, <2>2 DEF HandledMaxRetries, Types
    <3>2. \A n \in Messages : Held(n)' <=> Held(n)
      BY <2>1, <3>1, <1>2 DEF Held
    <3>3. QED
      BY <2>1, <3>1, <3>2, <1>2 DEF NothingSettled, Waiting, outcomeVars
  <2>3. CASE ~ (retries[m] < NumberOfRetries)
    <3>1. errors' = errors \cup {m} /\ deferred' = deferred
      BY <1>5, <2>3 DEF HandledMaxRetries
    <3>2. QED
      BY <2>1, <3>1, <1>3, <1>2 DEF OneSettled
  <2>4. QED
    BY <2>2, <2>3
<1>6. CASE Retry(w, m)
  <2>1. /\ m \in deferred[w] /\ input' = input /\ UNCHANGED outcomeVars
        /\ \A v \in Workers : /\ deferred'[v] = IF v = w THEN deferred[v] \ {m} ELSE deferred[v]
                              /\ inbox'[v] = IF v = w THEN inbox[v] \cup {m} ELSE inbox[v]
    BY <1>6 DEF Retry, Types, dataVars
  <2>2. \A n \in Messages : Held(n)' <=> Held(n)
    BY <2>1 DEF Held
  <2>3. QED
    BY <2>1, <2>2 DEF NothingSettled, Waiting
<1>7. QED
  BY <1>1, <1>4, <1>5, <1>6 DEF Work

LEMMA SettledByStep ==
  ASSUME Layer1, [Next]_vars
  PROVE  NothingSettled \/ \E m \in Messages : OneSettled(m)
<1>1. CASE UNCHANGED vars
  BY <1>1, WaitingKept DEF vars, dataVars, workerVars, NothingSettled
<1>2. CASE StartManager \/ Stop \/ Crash
  BY <1>2, WaitingKept DEF StartManager, Stop, Crash, dataVars, workerVars, NothingSettled
<1>3. ASSUME NEW m \in Messages, Distribute(m) \/ SendFails(m)
      PROVE  NothingSettled \/ OneSettled(m)
  BY <1>3, SettledByDistributor
<1>4. ASSUME NEW t \in ControlThreads, HandleControl(t) \/ ControlFails(t)
      PROVE  NothingSettled
  <2>1. UNCHANGED <<dataVars, workerVars, outcomeVars>>
    BY <1>4 DEF HandleControl, TakeControl, BelowLimit, AddWorker, Refuse, HandleControlMessage,
       ControlAlwaysFails, ControlFails, LoseControl
  <2>2. QED
    BY <2>1, WaitingKept DEF dataVars, workerVars, NothingSettled
<1>5. ASSUME NEW w \in Workers, Start(w) \/ CrashWorker(w) PROVE NothingSettled
  BY <1>5, WaitingKept DEF Start, StartTransport, ReportStart, Subscribe, CrashWorker, dataVars,
     NothingSettled
<1>6. ASSUME NEW w \in Workers, NEW m \in Messages, Work(w, m)
      PROVE  NothingSettled \/ OneSettled(m)
  BY <1>6, SettledByWorker
<1>7. QED
  BY <1>1, <1>2, <1>3, <1>4, <1>5, <1>6 DEF Next

LEMMA EndedStep == Layer1 /\ EndedOnce /\ [Next]_vars => EndedOnce'
<1> SUFFICES ASSUME Layer1, EndedOnce, [Next]_vars PROVE EndedOnce'
  OBVIOUS
<1>1. CASE NothingSettled
  BY <1>1 DEF NothingSettled, EndedOnce, outcomeVars
<1>2. ASSUME NEW m \in Messages, OneSettled(m) PROVE EndedOnce'
  BY <1>2 DEF OneSettled, EndedOnce
<1>3. QED
  BY <1>1, <1>2, SettledByStep

FateMap == [m \in Messages |-> Fate(m)]

(* What Fate says of a message that is in one place.                       *)
LEMMA FateFacts ==
  ASSUME EndedOnce, NEW m \in Messages
  PROVE  /\ m \in Waiting => Fate(m) = "pending"
         /\ m \in done => Fate(m) = "handled"
         /\ m \in errors => Fate(m) = "dead"
         /\ m \in dropped => Fate(m) = "dropped"
         /\ m \in Waiting \cup done \cup errors \cup dropped
  BY DEF EndedOnce, Waiting, Fate

LEMMA FateFactsNext ==
  ASSUME EndedOnce', NEW m \in Messages
  PROVE  /\ m \in Waiting' => Fate(m)' = "pending"
         /\ m \in done' => Fate(m)' = "handled"
         /\ m \in errors' => Fate(m)' = "dead"
         /\ m \in dropped' => Fate(m)' = "dropped"
         /\ m \in Waiting' \cup done' \cup errors' \cup dropped'
  BY DEF EndedOnce, Waiting, Fate

LEMMA SettlementInit == Init => Abstract!Init
<1> SUFFICES ASSUME Init PROVE Abstract!Init
  OBVIOUS
<1>1. Waiting = Messages /\ EndedOnce
  BY EndedInit DEF Init, Waiting, Held
<1>2. QED
  BY <1>1, FateFacts DEF Abstract!Init

LEMMA SettlementStep == Layer1 /\ EndedOnce /\ [Next]_vars => [Abstract!Next]_FateMap
<1> SUFFICES ASSUME Layer1, EndedOnce, [Next]_vars PROVE [Abstract!Next]_FateMap
  OBVIOUS
<1>1. EndedOnce'
  BY EndedStep
<1>2. FateMap' = [m \in Messages |-> Fate(m)']
  BY DEF FateMap
<1>3. CASE NothingSettled
  <2>1. \A m \in Messages : Fate(m)' = Fate(m)
    BY <1>1, <1>3, FateFacts, FateFactsNext DEF NothingSettled, outcomeVars
  <2>2. QED
    BY <2>1, <1>2 DEF FateMap
<1>4. ASSUME NEW m \in Messages, OneSettled(m) PROVE Abstract!Settle(m)
  <2>1. Fate(m) = "pending"
    BY <1>4, FateFacts DEF OneSettled
  <2>2. m \in done' \cup errors' \cup dropped'
    BY <1>4 DEF OneSettled
  <2>3. Fate(m)' \in Abstract!Fates
    BY <2>2, <1>1, FateFactsNext DEF Abstract!Fates
  <2>4. ASSUME NEW n \in Messages \ {m} PROVE Fate(n)' = Fate(n)
    <3>1. /\ n \in Waiting <=> n \in Waiting'
          /\ n \in done <=> n \in done'
          /\ n \in errors <=> n \in errors'
          /\ n \in dropped <=> n \in dropped'
      BY <1>4 DEF OneSettled
    <3>2. QED
      BY <3>1, <1>1, FateFacts, FateFactsNext
  <2>5. FateMap' = [FateMap EXCEPT ![m] = Fate(m)']
    BY <1>2, <2>4 DEF FateMap
  <2>6. QED
    BY <2>1, <2>3, <2>5 DEF Abstract!Settle, FateMap
<1>5. QED
  BY <1>3, <1>4, SettledByStep DEF Abstract!Next

(* The distributor and its workers implement Settlement: each message is   *)
(* settled once and for good, and waits in one of the queues until then,   *)
(* for any number of workers and threads, however often any of them dies,  *)
(* is stopped or fails to send.                                            *)
THEOREM DistributorImplementsSettlement == Spec => SettledOnce
<1>1. Init => Abstract!Init
  BY SettlementInit
<1>2. Layer1 /\ EndedOnce /\ [Next]_vars
        => [Abstract!Next]_([m \in Messages |-> Fate(m)])
  BY SettlementStep DEF FateMap
<1>3. QED
  BY Layer1Correct, EndedInit, EndedStep, <1>1, <1>2, PTL
  DEF Spec, SettledOnce, Abstract!Spec
=============================================================================
