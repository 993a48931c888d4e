------------------------ MODULE WorkerThreadsProofs ------------------------
(***************************************************************************)
(* Proofs about the worker threads of a transport and the two who use      *)
(* them: SatelliteLauncher, for every number of launches and of failures   *)
(* allowed, and the callers of TransportThreads, for every sequence of     *)
(* numbers they ask for.                                                   *)
(***************************************************************************)
EXTENDS SatelliteLauncher, FunctionTheorems, FiniteSetTheorems, TLAPS

(* The callers, on the same list of threads.                               *)
CONSTANTS NumberOfWorkerThreads, Targets, MaxCalls
VARIABLES toStart, target, calls
Callers == INSTANCE TransportThreads

USE DEF Launches

LEMMA Finite ==
  ASSUME NEW n \in Nat, NEW S \in SUBSET (1..n)
  PROVE  IsFiniteSet(S) /\ Cardinality(S) \in Nat /\ Cardinality(S) <= n
<1>1. IsFiniteSet(1..n)
  BY FS_Interval, 1 \in Int, n \in Int
<1>2. Cardinality(1..n) = IF 1 > n THEN 0 ELSE n - 1 + 1
  BY FS_Interval, 1 \in Int, n \in Int
<1>3. IsFiniteSet(S) /\ Cardinality(S) <= Cardinality(1..n)
  BY <1>1, FS_Subset
<1>4. Cardinality(S) \in Nat
  BY <1>3, FS_CardinalityType
<1>5. QED
  BY <1>2, <1>3, <1>4

-----------------------------------------------------------------------------
(* The thread list.                                                        *)

PoolOK ==
  /\ created \in Nat
  /\ workerThreads \subseteq 1..created
  /\ stopRequested \subseteq workerThreads

LEMMA AddOne ==
  ASSUME PoolOK, AddWorkerThreads(1)
  PROVE  /\ PoolOK'
         /\ Active' = Active \cup {created + 1}
<1>1. created + 1 .. created + 1 = {created + 1}
  BY DEF PoolOK
<1>2. QED
  BY <1>1 DEF PoolOK, AddWorkerThreads, Active

LEMMA StopsAll ==
  ASSUME PoolOK, StopAllBut(0)
  PROVE  PoolOK' /\ Active' = {}
<1>1. IsFiniteSet(workerThreads)
  BY Finite, workerThreads \in SUBSET (1..created) DEF PoolOK
<1>2. \A t \in workerThreads : Before(t) \in SUBSET workerThreads
  BY DEF Before
<1>3. \A t \in workerThreads : Cardinality(Before(t)) \in Nat
  BY <1>1, <1>2, FS_Subset, FS_CardinalityType
<1>4. {t \in workerThreads : Cardinality(Before(t)) >= 0} = workerThreads
  BY <1>3
<1>5. stopRequested' = stopRequested \cup workerThreads
  BY <1>4 DEF StopAllBut
<1>6. QED
  BY <1>5 DEF PoolOK, Active, StopAllBut

LEMMA StopAll ==
  ASSUME PoolOK, ChangeNumberOfWorkerThreads(0)
  PROVE  PoolOK' /\ Active' = {}
<1>1. IsFiniteSet(workerThreads)
  BY Finite, workerThreads \in SUBSET (1..created) DEF PoolOK
<1>2. Count \in Nat /\ (Count = 0 => workerThreads = {})
  BY <1>1, FS_CardinalityType, FS_EmptySet DEF Count
<1>3. CASE Count = 0 /\ UNCHANGED poolVars
  BY <1>2, <1>3 DEF PoolOK, Active, poolVars
<1>4. CASE StopAllBut(0)
  BY <1>4, StopsAll
<1>5. QED
  BY <1>2, <1>3, <1>4 DEF ChangeNumberOfWorkerThreads

LEMMA StopOne ==
  ASSUME PoolOK, NEW t, Stopped(t)
  PROVE  PoolOK' /\ Active' = Active
  BY DEF PoolOK, Active, Stopped

LEMMA PoolUnchanged ==
  ASSUME PoolOK, UNCHANGED poolVars
  PROVE  PoolOK' /\ Active' = Active
  BY DEF PoolOK, Active, poolVars

-----------------------------------------------------------------------------
(* Layer 1: types; each launch counts its failure once and attaches the    *)
(* handler once, so neither number can pass the launches.                  *)

Typed ==
  /\ PoolOK
  /\ hasTransport \in BOOLEAN /\ started \in BOOLEAN /\ prompt \in BOOLEAN
  /\ failedAttempts \in Nat
  /\ handlers \in Nat
  /\ launches \in 0..MaxLaunches
  /\ execute \in [Launches -> Steps]
  /\ read \in [Launches -> Nat]
  /\ \A e \in Launches : execute[e] = "idle" <=> e > launches

Failed == {e \in Launches : execute[e] = "failed"}
Attached == {e \in Launches : execute[e] \notin {"idle", "startTransport"}}

Counted ==
  /\ failedAttempts <= Cardinality(Failed)
  /\ \A e \in Launches : read[e] <= Cardinality(Failed)
  /\ handlers <= Cardinality(Attached)

Layer1 == Typed /\ Counted

LEMMA FiniteLaunches ==
  ASSUME NEW S \in SUBSET Launches
  PROVE  IsFiniteSet(S) /\ Cardinality(S) \in Nat /\ Cardinality(S) <= MaxLaunches
  BY SatelliteAssumption, Finite

LEMMA Layer1Type == Layer1 => TypeOK
<1> SUFFICES ASSUME Layer1 PROVE TypeOK
  OBVIOUS
<1>1. Cardinality(Failed) <= MaxLaunches /\ Cardinality(Failed) \in Nat
  BY FiniteLaunches DEF Failed
<1>2. Attached \in SUBSET (1..launches)
  BY DEF Layer1, Typed, Attached
<1>3. Cardinality(Attached) <= launches /\ Cardinality(Attached) \in Nat
  BY <1>2, Finite, SatelliteAssumption DEF Layer1, Typed
<1>4. QED
  BY <1>1, <1>3, SatelliteAssumption DEF Layer1, Typed, Counted, PoolOK, TypeOK

LEMMA Layer1Init == Init => Layer1
<1> SUFFICES ASSUME Init PROVE Layer1
  OBVIOUS
<1>1. Typed
  <2>1. execute \in [Launches -> Steps] /\ read \in [Launches -> Nat]
    BY DEF Init, Steps, Ended
  <2>2. \A e \in Launches : execute[e] = "idle" <=> e > launches
    BY SatelliteAssumption DEF Init
  <2>3. PoolOK
    BY DEF Init, InitThreads, PoolOK
  <2>4. hasTransport \in BOOLEAN /\ started \in BOOLEAN /\ prompt \in BOOLEAN
    BY DEF Init
  <2>5. failedAttempts \in Nat /\ handlers \in Nat /\ launches \in 0..MaxLaunches
    BY SatelliteAssumption DEF Init
  <2>6. QED
    BY <2>1, <2>2, <2>3, <2>4, <2>5 DEF Typed
<1>2. Cardinality(Failed) \in Nat /\ Cardinality(Attached) \in Nat
  BY FiniteLaunches DEF Failed, Attached
<1>3. QED
  BY <1>1, <1>2 DEF Init, Layer1, Counted

(* A launch moves to another step; what counts for it is what it leaves    *)
(* and what it enters.                                                     *)
LEMMA Moved ==
  ASSUME Typed, NEW e \in Launches, NEW s, Goto(e, s), s # "idle", s # "startTransport",
         execute[e] # "failed"
  PROVE  /\ Cardinality(Failed)' = Cardinality(Failed) + (IF s = "failed" THEN 1 ELSE 0)
         /\ Cardinality(Attached)' = Cardinality(Attached) +
              (IF execute[e] \in {"idle", "startTransport"} THEN 1 ELSE 0)
<1>1. Failed' = IF s = "failed" THEN Failed \cup {e} ELSE Failed
  BY DEF Typed, Failed, Goto
<1>2. Attached' = Attached \cup {e}
  BY DEF Typed, Attached, Goto
<1>3. e \notin Failed /\ (e \in Attached <=> execute[e] \notin {"idle", "startTransport"})
  BY DEF Failed, Attached
<1>4. IsFiniteSet(Failed) /\ IsFiniteSet(Attached)
  BY FiniteLaunches DEF Failed, Attached
<1>5. Cardinality(Failed \cup {e}) = Cardinality(Failed) + 1
  BY <1>3, <1>4, FS_AddElement
<1>6. Cardinality(Attached \cup {e}) =
        IF e \in Attached THEN Cardinality(Attached) ELSE Cardinality(Attached) + 1
  BY <1>4, FS_AddElement
<1>7. Cardinality(Failed) \in Nat /\ Cardinality(Attached) \in Nat
  BY FiniteLaunches DEF Failed, Attached
<1>8. QED
  BY <1>1, <1>2, <1>3, <1>5, <1>6, <1>7

LEMMA Layer1Start == ASSUME Layer1, Start PROVE Layer1'
<1>1. Typed'
  BY PoolUnchanged, SatelliteAssumption DEF Layer1, Typed, Start, Goto, Steps, Ended
<1>2. execute[launches + 1] = "idle" /\ launches + 1 \in Launches
  BY SatelliteAssumption DEF Layer1, Typed, Start
<1>3. Failed' = Failed /\ Attached' = Attached
  BY <1>2 DEF Layer1, Typed, Failed, Attached, Start, Goto
<1>4. QED
  BY <1>1, <1>3 DEF Layer1, Counted, Start

LEMMA Layer1Execute ==
  ASSUME Layer1, NEW e \in Launches, Execute(e)
  PROVE  Layer1'
<1> USE DEF Layer1, Typed, Counted, Steps, Ended, InCatch
<1>0. Cardinality(Failed) \in Nat /\ Cardinality(Attached) \in Nat
  BY FiniteLaunches DEF Failed, Attached
<1>1. CASE StartTransport(e)
  <2>1. PoolOK' /\ handlers' \in Nat /\ handlers' <= handlers + 1
    BY <1>1, AddOne, PoolUnchanged DEF StartTransport
  <2>2. Cardinality(Failed)' = Cardinality(Failed)
        /\ Cardinality(Attached)' = Cardinality(Attached) + 1
    BY <1>1, <1>0, Moved DEF StartTransport
  <2>3. QED
    BY <1>0, <1>1, <2>1, <2>2 DEF StartTransport, Goto
<1>2. CASE TransportFails(e)
  <2>1. PoolOK'
    BY <1>2, PoolUnchanged DEF TransportFails
  <2>2. Cardinality(Failed)' = Cardinality(Failed)
        /\ Cardinality(Attached)' = Cardinality(Attached) + 1
    BY <1>2, <1>0, Moved DEF TransportFails
  <2>3. QED
    BY <1>0, <1>2, <2>1, <2>2 DEF TransportFails, Goto
<1>3. ASSUME NEW step \in Steps, StartInstance(e, step)
      PROVE  Layer1'
  <2>1. PoolOK'
    BY <1>3, PoolUnchanged DEF StartInstance
  <2>2. Cardinality(Failed)' = Cardinality(Failed)
        /\ Cardinality(Attached)' = Cardinality(Attached)
    BY <1>3, <1>0, Moved DEF StartInstance
  <2>3. QED
    BY <1>0, <1>3, <2>1, <2>2 DEF StartInstance, Goto, contextVars
<1>4. CASE MarkStopped(e)
  <2>1. PoolOK'
    BY <1>4, PoolUnchanged DEF MarkStopped
  <2>2. Cardinality(Failed)' = Cardinality(Failed)
        /\ Cardinality(Attached)' = Cardinality(Attached)
    BY <1>4, <1>0, Moved DEF MarkStopped
  <2>3. QED
    BY <1>0, <1>4, <2>1, <2>2 DEF MarkStopped, Goto
<1>5. CASE StopThreads(e)
  <2>1. PoolOK'
    BY <1>5, StopAll, PoolUnchanged DEF StopThreads
  <2>2. Cardinality(Failed)' = Cardinality(Failed)
        /\ Cardinality(Attached)' = Cardinality(Attached)
    BY <1>5, <1>0, Moved DEF StopThreads
  <2>3. QED
    BY <1>0, <1>5, <2>1, <2>2 DEF StopThreads, Goto, contextVars
<1>6. CASE ReadFailedAttempts(e)
  <2>1. PoolOK'
    BY <1>6, PoolUnchanged DEF ReadFailedAttempts
  <2>2. Cardinality(Failed)' = Cardinality(Failed)
        /\ Cardinality(Attached)' = Cardinality(Attached)
    BY <1>6, <1>0, Moved DEF ReadFailedAttempts
  <2>3. QED
    BY <1>0, <1>6, <2>1, <2>2 DEF ReadFailedAttempts, Goto, contextVars
<1>7. CASE WriteFailedAttempts(e)
  <2>1. PoolOK'
    BY <1>7, PoolUnchanged DEF WriteFailedAttempts
  <2>2. Cardinality(Failed)' = Cardinality(Failed) + 1
        /\ Cardinality(Attached)' = Cardinality(Attached)
    BY <1>7, <1>0, Moved DEF WriteFailedAttempts
  <2>3. QED
    BY <1>0, <1>7, <2>1, <2>2 DEF WriteFailedAttempts, Goto
<1>8. QED
  BY <1>1, <1>2, <1>3, <1>4, <1>5, <1>6, <1>7 DEF Execute

LEMMA Layer1Stopped ==
  ASSUME Layer1, NEW t \in stopRequested, ThreadStopped(t)
  PROVE  Layer1'
  BY StopOne DEF Layer1, Typed, Counted, ThreadStopped, contextVars, launchVars,
                 Failed, Attached

LEMMA Layer1Stutter == ASSUME Layer1, UNCHANGED vars PROVE Layer1'
  BY PoolUnchanged DEF Layer1, Typed, Counted, vars, contextVars, launchVars,
                       Failed, Attached

LEMMA Layer1Inductive == Spec => []Layer1
<1>1. ASSUME Layer1, [Next]_vars PROVE Layer1'
  BY <1>1, Layer1Start, Layer1Execute, Layer1Stopped, Layer1Stutter DEF Next
<1>2. QED
  BY Layer1Init, <1>1, PTL DEF Spec

(* Every variable keeps its type; in particular no failure is counted      *)
(* twice, although FailedAttempts++ is not atomic.                         *)
THEOREM TypeCorrect == Spec => []TypeOK
  BY Layer1Inductive, Layer1Type, PTL

-----------------------------------------------------------------------------
(* Layer 2: one launch at a time is the one Started stands for; the others *)
(* are in the rest of their catch block.  While one of those is about to   *)
(* stop the threads there may be any number of them; otherwise there is    *)
(* one at most, which belongs to the launch Started stands for.            *)

Live(e) == execute[e] \in {"startTransport", "startInstance", "running", "markStopped"}
HasThread(e) == execute[e] \in {"startInstance", "running"}

OneLive ==
  /\ \A e, d \in Launches : Live(e) /\ Live(d) => e = d
  /\ started = \E e \in Launches : Live(e)

ThreadsOfLive ==
  (\A e \in Launches : execute[e] # "stopThreads") =>
    /\ \E t : Active \subseteq {t}
    /\ Active # {} => \E e \in Launches : HasThread(e) \/ execute[e] = "markStopped"

PromptTimer ==
  prompt =>
    /\ \A e, d \in Launches :
         Live(e) /\ e # d => execute[d] \notin InCatch
    /\ hasTransport => \A e \in Launches : HasThread(e) => Active # {}

NoTransport == ~ hasTransport => Active = {}

Layer2 == OneLive /\ ThreadsOfLive /\ PromptTimer /\ NoTransport

LEMMA Layer2Init == Init => Layer2
<1> SUFFICES ASSUME Init PROVE Layer2
  OBVIOUS
<1>1. Active = {}
  BY DEF Init, InitThreads, Active
<1>2. \A e \in Launches : execute[e] = "idle"
  BY DEF Init
<1>3. QED
  BY <1>1, <1>2 DEF Init, Layer2, OneLive, ThreadsOfLive, PromptTimer, NoTransport, Live, HasThread

LEMMA Layer2Start == ASSUME Layer1, Layer2, Start PROVE Layer2'
<1> USE DEF Layer1, Typed, Layer2, OneLive, ThreadsOfLive, PromptTimer, NoTransport,
            Live, HasThread, InCatch
<1>1. Active' = Active
  BY PoolUnchanged DEF Start
<1>2. launches + 1 \in Launches /\ execute[launches + 1] = "idle"
  BY SatelliteAssumption DEF Start
<1>3. \A d \in Launches : d # launches + 1 => execute'[d] = execute[d]
  BY DEF Start, Goto
<1>4. execute'[launches + 1] = "startTransport"
  BY <1>2 DEF Start, Goto
<1>5. \A e \in Launches : ~ Live(e)
  BY DEF Start
<1>6. OneLive'
  BY <1>2, <1>3, <1>4, <1>5 DEF Start
<1>7. ThreadsOfLive'
  <2>1. SUFFICES ASSUME \A e \in Launches : execute'[e] # "stopThreads"
                 PROVE  Active = {}
    BY <1>1
  <2>2. \A e \in Launches : execute[e] # "stopThreads"
    BY <1>2, <1>3, <2>1
  <2>3. QED
    BY <1>5, <2>2
<1>8. PromptTimer'
  BY <1>1, <1>2, <1>3, <1>4, <1>5 DEF Start
<1>9. NoTransport'
  BY <1>1 DEF Start
<1>10. QED
  BY <1>6, <1>7, <1>8, <1>9

LEMMA Layer2Execute ==
  ASSUME Layer1, Layer2, NEW e \in Launches, Execute(e)
  PROVE  Layer2'
<1> USE DEF Layer1, Typed, Layer2, OneLive, ThreadsOfLive, PromptTimer, NoTransport,
            Live, HasThread, InCatch
<1>1. ASSUME NEW s, Goto(e, s)
      PROVE  execute'[e] = s /\ \A d \in Launches \ {e} : execute'[d] = execute[d]
  BY <1>1 DEF Goto
<1>2. CASE StartTransport(e)
  <2>1. execute[e] = "startTransport" /\ execute'[e] = "startInstance"
        /\ \A d \in Launches \ {e} : execute'[d] = execute[d]
    BY <1>1, <1>2 DEF StartTransport
  <2>2. OneLive'
    BY <1>2, <2>1 DEF StartTransport
  <2>3. \/ hasTransport /\ \E t : Active' = Active \cup {t}
        \/ ~ hasTransport /\ Active' = Active
    BY <1>2, AddOne, PoolUnchanged DEF StartTransport
  <2>4. \A d \in Launches : ~ HasThread(d) /\ execute[d] # "markStopped"
    BY <2>1
  <2>5. (\A d \in Launches : execute[d] # "stopThreads") => Active = {}
    BY <2>4
  <2>6. ThreadsOfLive'
    BY <2>1, <2>3, <2>5
  <2>7. PromptTimer'
    BY <1>2, <2>1, <2>3, <2>4 DEF StartTransport
  <2>8. NoTransport'
    BY <1>2, <2>3 DEF StartTransport
  <2>9. QED
    BY <2>2, <2>6, <2>7, <2>8
<1>3. CASE TransportFails(e)
  <2>1. execute[e] = "startTransport" /\ execute'[e] = "markStopped"
        /\ \A d \in Launches \ {e} : execute'[d] = execute[d]
    BY <1>1, <1>3 DEF TransportFails
  <2>2. Active' = Active
    BY <1>3, PoolUnchanged DEF TransportFails
  <2>3. QED
    BY <1>3, <2>1, <2>2 DEF TransportFails
<1>4. ASSUME NEW s \in Steps, StartInstance(e, s)
      PROVE  Layer2'
  <2>1. execute[e] = "startInstance" /\ execute'[e] = s /\ s \in {"running", "markStopped"}
        /\ \A d \in Launches \ {e} : execute'[d] = execute[d]
    BY <1>1, <1>4 DEF StartInstance
  <2>2. Active' = Active
    BY <1>4, PoolUnchanged DEF StartInstance
  <2>3. UNCHANGED <<started, prompt, hasTransport>>
    BY <1>4 DEF StartInstance, contextVars
  <2>4. OneLive'
    BY <2>1, <2>3
  <2>5. ThreadsOfLive'
    BY <2>1, <2>2
  <2>6. PromptTimer'
    BY <2>1, <2>2, <2>3
  <2>7. NoTransport'
    BY <2>2, <2>3
  <2>8. QED
    BY <2>4, <2>5, <2>6, <2>7
<1>5. CASE MarkStopped(e)
  <2>1. execute[e] = "markStopped" /\ execute'[e] = "stopThreads"
        /\ \A d \in Launches \ {e} : execute'[d] = execute[d]
    BY <1>1, <1>5 DEF MarkStopped
  <2>2. Active' = Active
    BY <1>5, PoolUnchanged DEF MarkStopped
  <2>3. \A d \in Launches : ~ (Live(d))'
    BY <2>1
  <2>4. QED
    BY <1>5, <2>1, <2>2, <2>3 DEF MarkStopped
<1>6. CASE StopThreads(e)
  <2>1. execute[e] = "stopThreads" /\ execute'[e] = "readFailed"
        /\ \A d \in Launches \ {e} : execute'[d] = execute[d]
    BY <1>1, <1>6 DEF StopThreads
  <2>2. UNCHANGED <<started, prompt, hasTransport>>
    BY <1>6 DEF StopThreads, contextVars
  <2>3. OneLive'
    BY <2>1, <2>2
  <2>4. PromptTimer'
    <3>1. prompt => \A d \in Launches : ~ HasThread(d)
      BY <2>1
    <3>2. QED
      BY <2>1, <2>2, <3>1
  <2>5. Active' = {}
    <3>1. CASE hasTransport
      BY <1>6, <3>1, StopAll DEF StopThreads
    <3>2. CASE ~ hasTransport
      BY <1>6, <3>2, PoolUnchanged DEF StopThreads
    <3>3. QED
      BY <3>1, <3>2
  <2>6. ThreadsOfLive'
    BY <2>5
  <2>7. QED
    BY <2>2, <2>3, <2>4, <2>5, <2>6
<1>7. CASE ReadFailedAttempts(e) \/ WriteFailedAttempts(e)
  <2>1. execute[e] \in {"readFailed", "writeFailed"} /\ execute'[e] \in {"writeFailed", "failed"}
        /\ \A d \in Launches \ {e} : execute'[d] = execute[d]
    BY <1>1, <1>7 DEF ReadFailedAttempts, WriteFailedAttempts
  <2>2. UNCHANGED <<started, prompt, hasTransport>> /\ Active' = Active
    BY <1>7, PoolUnchanged DEF ReadFailedAttempts, WriteFailedAttempts, contextVars
  <2>3. OneLive'
    BY <2>1, <2>2
  <2>4. ThreadsOfLive'
    BY <2>1, <2>2
  <2>5. PromptTimer'
    BY <2>1, <2>2
  <2>6. NoTransport'
    BY <2>2
  <2>7. QED
    BY <2>3, <2>4, <2>5, <2>6
<1>8. QED
  BY <1>2, <1>3, <1>4, <1>5, <1>6, <1>7 DEF Execute

LEMMA Layer2Rest ==
  ASSUME Layer1, Layer2, (\E t \in stopRequested : ThreadStopped(t)) \/ UNCHANGED vars
  PROVE  Layer2'
<1>1. Active' = Active
  BY StopOne, PoolUnchanged DEF Layer1, Typed, ThreadStopped, vars
<1>2. UNCHANGED <<started, prompt, hasTransport, execute>>
  BY DEF ThreadStopped, contextVars, launchVars, vars
<1>3. QED
  BY <1>1, <1>2 DEF Layer2, OneLive, ThreadsOfLive, PromptTimer, NoTransport, Live, HasThread

LEMMA Layer2Inductive == Spec => []Layer2
<1>1. ASSUME Layer1, Layer2, [Next]_vars PROVE Layer2'
  BY <1>1, Layer2Start, Layer2Execute, Layer2Rest DEF Next
<1>2. QED
  BY Layer1Inductive, Layer2Init, <1>1, PTL DEF Spec

LEMMA Layer2Matches == Layer1 /\ Layer2 => ThreadsMatchLaunch
<1> SUFFICES ASSUME Layer1, Layer2, Quiescent PROVE
      /\ Cardinality(Active) <= 1
      /\ ~ started => Active = {}
      /\ prompt /\ started /\ hasTransport => Active # {}
  BY DEF ThreadsMatchLaunch
<1>1. \A e \in Launches : execute[e] \in {"idle", "running", "failed"}
  BY DEF Quiescent, Ended
<1>2. PICK t : Active \subseteq {t}
  BY <1>1 DEF Layer2, ThreadsOfLive
<1>3. Active = {} \/ Active = {t}
  BY <1>2
<1>4. Cardinality(Active) <= 1
  <2>1. Cardinality({}) = 0 /\ Cardinality({t}) = 1
    BY FS_EmptySet, FS_Singleton, Zenon
  <2>2. Cardinality(Active) = 0 \/ Cardinality(Active) = 1
    BY <1>3, <2>1, Zenon
  <2>3. QED
    BY <2>2
<1>5. Active # {} => started
  BY <1>1 DEF Layer2, ThreadsOfLive, OneLive, HasThread, Live
<1>6. prompt /\ started /\ hasTransport => Active # {}
  BY <1>1 DEF Layer2, OneLive, PromptTimer, HasThread, Live
<1>7. QED
  BY <1>4, <1>5, <1>6

(* Between attempts the worker threads are those of the state the launcher *)
(* believes in, for any number of attempts that overlap.                   *)
THEOREM ThreadsMatchLaunchCorrect == Spec => []ThreadsMatchLaunch
  BY Layer1Inductive, Layer2Inductive, Layer2Matches, PTL

-----------------------------------------------------------------------------
(* The callers who change the number of threads.                           *)

(* The first n threads of the list: those with an index below n.           *)
First(n) == {t \in workerThreads : Cardinality(Before(t)) < n}

LEMMA BeforeFacts ==
  ASSUME PoolOK
  PROVE  /\ IsFiniteSet(workerThreads) /\ Count \in Nat
         /\ \A t \in workerThreads : Cardinality(Before(t)) \in 0..(Count - 1)
<1>1. IsFiniteSet(workerThreads)
  BY Finite, workerThreads \in SUBSET (1..created) DEF PoolOK
<1>2. Count \in Nat
  BY <1>1, FS_CardinalityType DEF Count
<1>3. ASSUME NEW t \in workerThreads PROVE Cardinality(Before(t)) \in 0..(Count - 1)
  <2>1. IsFiniteSet(workerThreads \ {t}) /\ Cardinality(workerThreads \ {t}) = Count - 1
    BY <1>1, FS_RemoveElement DEF Count
  <2>2. Before(t) \in SUBSET (workerThreads \ {t})
    BY DEF Before, PoolOK
  <2>3. IsFiniteSet(Before(t)) /\ Cardinality(Before(t)) <= Count - 1
    BY <2>1, <2>2, FS_Subset
  <2>4. Cardinality(Before(t)) \in Nat
    BY <2>3, FS_CardinalityType
  <2>5. QED
    BY <1>2, <2>3, <2>4
<1>4. QED
  BY <1>1, <1>2, <1>3

(* Each index is the index of one thread.                                  *)
LEMMA Indexed ==
  ASSUME PoolOK, NEW f, f = [t \in workerThreads |-> Cardinality(Before(t))]
  PROVE  f \in Bijection(workerThreads, 0..(Count - 1))
<1>1. f \in [workerThreads -> 0..(Count - 1)]
  BY BeforeFacts
<1>2. ASSUME NEW t \in workerThreads, NEW u \in workerThreads, t < u PROVE f[t] # f[u]
  <2>1. Before(t) \in SUBSET Before(u) /\ Before(t) # Before(u)
    <3>1. \A v \in workerThreads : v \in Nat
      BY DEF PoolOK
    <3>2. t \in Before(u) /\ t \notin Before(t)
      BY <1>2, <3>1 DEF Before
    <3>3. \A v \in Before(t) : v \in Before(u)
      BY <1>2, <3>1 DEF Before
    <3>4. QED
      BY <3>2, <3>3
  <2>2. IsFiniteSet(Before(u))
    BY BeforeFacts, Before(u) \in SUBSET workerThreads, FS_Subset DEF Before
  <2>3. QED
    BY <2>1, <2>2, FS_Subset
<1>3. \A t, u \in workerThreads : f[t] = f[u] => t = u
  BY <1>2 DEF PoolOK
<1>4. f \in Injection(workerThreads, 0..(Count - 1))
  BY <1>1, <1>3, Fun_IsInj
<1>5. IsFiniteSet(0..(Count - 1)) /\ Cardinality(0..(Count - 1)) = Count
  BY FS_Interval, BeforeFacts
<1>6. f \in Surjection(workerThreads, 0..(Count - 1))
  BY <1>4, <1>5, FS_Injection DEF Count
<1>7. QED
  BY <1>4, <1>6, Fun_IsBij

LEMMA FirstThreads ==
  ASSUME PoolOK, NEW n \in Nat
  PROVE  /\ IsFiniteSet(First(n))
         /\ n <= Count => Cardinality(First(n)) = n
         /\ n >= Count => First(n) = workerThreads
<1>1. First(n) \in SUBSET workerThreads
  BY DEF First
<1>2. IsFiniteSet(First(n))
  BY <1>1, BeforeFacts, FS_Subset
<1>3. ASSUME n <= Count PROVE Cardinality(First(n)) = n
  <2>1. PICK f : f = [t \in workerThreads |-> Cardinality(Before(t))]
    OBVIOUS
  <2>2. /\ f \in [workerThreads -> 0..(Count - 1)]
        /\ \A t, u \in workerThreads : f[t] = f[u] => t = u
        /\ \A i \in 0..(Count - 1) : \E t \in workerThreads : f[t] = i
    <3>1. f \in Bijection(workerThreads, 0..(Count - 1))
      BY <2>1, Indexed
    <3>2. QED
      BY <3>1 DEF Bijection, Injection, Surjection, IsInjective
  <2>3. PICK g : g = [t \in First(n) |-> Cardinality(Before(t))]
    OBVIOUS
  <2>4. \A t \in First(n) : g[t] = f[t] /\ f[t] < n
    BY <2>1, <2>3 DEF First
  <2>5. g \in [First(n) -> 0..(n - 1)]
    BY <1>1, <2>2, <2>3, <2>4
  <2>6. \A t, u \in First(n) : g[t] = g[u] => t = u
    BY <1>1, <2>2, <2>4
  <2>7. ASSUME NEW i \in 0..(n - 1) PROVE \E t \in First(n) : g[t] = i
    <3>1. PICK t \in workerThreads : f[t] = i
      BY <1>3, <2>2, BeforeFacts
    <3>2. t \in First(n)
      BY <2>1, <3>1 DEF First
    <3>3. QED
      BY <2>4, <3>1, <3>2
  <2>8. g \in Bijection(First(n), 0..(n - 1))
    BY <2>5, <2>6, <2>7, Fun_IsBij
  <2>9. ExistsBijection(First(n), 0..(n - 1))
    BY <2>8, Fun_ExistsBij
  <2>10. Cardinality(0..(n - 1)) = n
    BY FS_Interval
  <2>11. QED
    BY <1>2, <2>9, <2>10, FS_Bijection
<1>4. ASSUME n >= Count PROVE First(n) = workerThreads
  BY <1>4, BeforeFacts DEF First
<1>5. QED
  BY <1>2, <1>3, <1>4

(* The threads a call leaves active are those asked for, less the ones it  *)
(* counts on and that an earlier call has told to stop.                    *)
LEMMA Changed ==
  ASSUME PoolOK, NEW n \in Nat, ChangeNumberOfWorkerThreads(n)
  PROVE  /\ PoolOK'
         /\ Cardinality(Active') \in Nat
         /\ Cardinality(First(n) \cap stopRequested) \in Nat
         /\ Cardinality(Active') = n - Cardinality(First(n) \cap stopRequested)
<1>1. /\ IsFiniteSet(First(n) \cap stopRequested)
      /\ Cardinality(First(n) \cap stopRequested) \in Nat
  BY FirstThreads, FS_Intersection, FS_CardinalityType
<1>2. /\ IsFiniteSet(First(n) \ stopRequested)
      /\ Cardinality(First(n) \ stopRequested)
           = Cardinality(First(n)) - Cardinality(First(n) \cap stopRequested)
      /\ Cardinality(First(n) \ stopRequested) \in Nat
  BY FirstThreads, FS_Difference, FS_CardinalityType
<1>3. CASE n = Count /\ UNCHANGED poolVars
  <2>1. Active' = First(n) \ stopRequested /\ Cardinality(First(n)) = n
    BY <1>3, FirstThreads DEF Active, poolVars
  <2>2. QED
    BY <1>1, <1>2, <1>3, <2>1 DEF PoolOK, poolVars
<1>4. CASE n < Count /\ StopAllBut(n)
  <2>1. \A t \in workerThreads : Cardinality(Before(t)) \in Nat
    BY BeforeFacts
  <2>2. Active' = First(n) \ stopRequested
    BY <1>4, <2>1 DEF Active, StopAllBut, First
  <2>3. Cardinality(First(n)) = n
    BY <1>4, FirstThreads, BeforeFacts
  <2>4. QED
    BY <1>1, <1>2, <1>4, <2>2, <2>3 DEF PoolOK, StopAllBut
<1>5. CASE n > Count /\ AddWorkerThreads(n - Count)
  <2>1. Count \in Nat /\ created \in Nat /\ First(n) = workerThreads
    BY <1>5, BeforeFacts, FirstThreads DEF PoolOK
  <2>2. PICK new : new = created + 1 .. created + (n - Count)
    OBVIOUS
  <2>3. IsFiniteSet(new) /\ Cardinality(new) = n - Count
    BY <1>5, <2>1, <2>2, FS_Interval
  <2>4. new \cap workerThreads = {} /\ new \subseteq 1..(created + (n - Count))
    BY <1>5, <2>1, <2>2 DEF PoolOK
  <2>5. workerThreads' = workerThreads \cup new /\ UNCHANGED stopRequested
    BY <1>5, <2>2 DEF AddWorkerThreads
  <2>6. Active' = (First(n) \ stopRequested) \cup new
    BY <2>1, <2>4, <2>5 DEF Active, PoolOK
  <2>7. (First(n) \ stopRequested) \cap new = {}
    BY <2>1, <2>4
  <2>8. Cardinality(Active')
          = Cardinality(First(n) \ stopRequested) + Cardinality(new) - Cardinality({})
    BY <1>2, <2>3, <2>6, <2>7, FS_Union
  <2>9. Cardinality(Active') = n - Cardinality(First(n) \cap stopRequested)
    BY <1>1, <1>2, <2>1, <2>3, <2>8, FS_EmptySet DEF Count
  <2>10. Cardinality(Active') \in Nat
    BY <1>1, <1>2, <2>1, <2>3, <2>8, <1>5, FS_EmptySet DEF Count
  <2>11. PoolOK'
    BY <1>5, <2>1, <2>4, <2>5 DEF PoolOK, AddWorkerThreads
  <2>12. QED
    BY <1>1, <2>9, <2>10, <2>11
<1>6. QED
  BY <1>3, <1>4, <1>5 DEF ChangeNumberOfWorkerThreads

CallersOK ==
  /\ PoolOK
  /\ toStart \in Nat /\ target \in Nat
  /\ toStart > 0 => stopRequested = {}

(* Never more than asked for, with those the loop in Start will add.       *)
NeverMoreThanAsked == Cardinality(Active) + toStart <= target

AsManyAsAsked == Cardinality(Active) + toStart = target

(* No call counts on a thread that an earlier one has told to stop.        *)
NoneOfThemStops ==
  \A n \in Targets : Callers!Change(n) => First(n) \cap stopRequested = {}

LEMMA ActiveFinite ==
  ASSUME PoolOK PROVE IsFiniteSet(Active) /\ Cardinality(Active) \in Nat
<1>1. Active \in SUBSET workerThreads
  BY DEF Active
<1>2. QED
  BY <1>1, BeforeFacts, FS_Subset, FS_CardinalityType

(* The instance counts as this module does.                                *)
LEMMA SameCount == \A S : Callers!Cardinality(S) = Cardinality(S)
  BY DEF Callers!Cardinality, Cardinality, Callers!IsFiniteSet, IsFiniteSet

LEMMA CallersInit ==
  ASSUME NumberOfWorkerThreads \in Nat, Callers!Init
  PROVE  CallersOK /\ AsManyAsAsked
<1>1. workerThreads = {} /\ stopRequested = {} /\ created = 0
      /\ toStart = NumberOfWorkerThreads /\ target = NumberOfWorkerThreads
  BY DEF Callers!Init, Callers!InitThreads
<1>2. Cardinality(Active) = 0
  BY <1>1, FS_EmptySet DEF Active
<1>3. QED
  BY <1>1, <1>2 DEF CallersOK, PoolOK, AsManyAsAsked

LEMMA CallersStill ==
  ASSUME UNCHANGED Callers!vars
  PROVE  (CallersOK => CallersOK') /\ (AsManyAsAsked => AsManyAsAsked')
  BY DEF Callers!vars, Callers!poolVars, CallersOK, PoolOK, AsManyAsAsked, Active

(* Only calls, and the loop in Start, change which threads are active.     *)
LEMMA CallersStep ==
  ASSUME Targets \subseteq Nat, CallersOK, [Callers!Next]_(Callers!vars)
  PROVE  /\ CallersOK'
         /\ \/ /\ Cardinality(Active)' + toStart' = Cardinality(Active) + toStart
               /\ UNCHANGED target
            \/ Cardinality(Active)' = 0 /\ toStart' = 0 /\ target' = 0
            \/ \E n \in Targets :
                 /\ Callers!Change(n) /\ toStart' = 0 /\ target' = n
                 /\ Cardinality(First(n) \cap stopRequested) \in Nat
                 /\ Cardinality(Active)' = n - Cardinality(First(n) \cap stopRequested)
<1> USE DEF CallersOK
<1>0. Cardinality(Active) \in Nat
  BY ActiveFinite
<1>1. CASE UNCHANGED Callers!vars
  BY <1>1 DEF Callers!vars, Callers!poolVars, PoolOK, Active
<1>2. CASE Callers!StartNext
  <2>1. /\ toStart > 0 /\ AddWorkerThreads(1) /\ toStart' = toStart - 1 /\ UNCHANGED target
        /\ UNCHANGED stopRequested
    BY <1>2 DEF Callers!StartNext, Callers!AddWorkerThreads, AddWorkerThreads
  <2>2. PoolOK' /\ Active' = Active \cup {created + 1}
    BY <2>1, AddOne
  <2>3. created + 1 \notin Active
    BY DEF PoolOK, Active
  <2>4. Cardinality(Active') = Cardinality(Active) + 1
    BY <2>2, <2>3, ActiveFinite, FS_AddElement
  <2>5. QED
    BY <1>0, <2>1, <2>2, <2>4
<1>3. CASE Callers!Dispose
  <2>1. toStart = 0 /\ UNCHANGED toStart /\ target' = 0 /\ StopAllBut(0)
    BY <1>3, SameCount DEF Callers!Dispose, Callers!Call, Callers!StopAllBut, Callers!Before, StopAllBut,
       Before
  <2>2. PoolOK' /\ Active' = {}
    BY <2>1, StopsAll
  <2>3. QED
    BY <2>1, <2>2, FS_EmptySet
<1>4. ASSUME NEW n \in Targets, Callers!Change(n)
      PROVE  /\ CallersOK' /\ toStart' = 0 /\ target' = n
             /\ Cardinality(First(n) \cap stopRequested) \in Nat
             /\ Cardinality(Active)' = n - Cardinality(First(n) \cap stopRequested)
  <2>1. /\ toStart = 0 /\ UNCHANGED toStart /\ target' = n
        /\ ChangeNumberOfWorkerThreads(n)
    BY <1>4, SameCount DEF Callers!Change, Callers!Call, Callers!ChangeNumberOfWorkerThreads,
       Callers!StopAllBut, Callers!Before, Callers!AddWorkerThreads, Callers!Count,
       Callers!poolVars, ChangeNumberOfWorkerThreads, StopAllBut, Before, AddWorkerThreads,
       Count, poolVars
  <2>2. QED
    BY <2>1, Changed
<1>5. ASSUME NEW t \in stopRequested, Callers!ThreadStopped(t)
      PROVE  CallersOK' /\ Active' = Active /\ UNCHANGED <<toStart, target>>
  BY <1>5 DEF Callers!ThreadStopped, Callers!Stopped, PoolOK, Active
<1>6. QED
  BY <1>1, <1>2, <1>3, <1>4, <1>5 DEF Callers!Next

(* Whatever numbers the callers ask for, and whichever threads are still   *)
(* stopping, there are never more active threads than asked for last       *)
(* (TransactionalTransport.ChangeNumberOfWorkerThreads): the count of the  *)
(* list errs to one side only.                                             *)
THEOREM NeverMoreThanAskedCorrect ==
  ASSUME NumberOfWorkerThreads \in Nat, Targets \subseteq Nat
  PROVE  Callers!Spec => []NeverMoreThanAsked
<1>1. Callers!Init => CallersOK /\ NeverMoreThanAsked
  BY CallersInit DEF AsManyAsAsked, NeverMoreThanAsked, CallersOK
<1>2. CallersOK /\ NeverMoreThanAsked /\ [Callers!Next]_(Callers!vars)
        => CallersOK' /\ NeverMoreThanAsked'
  <2> SUFFICES ASSUME CallersOK, NeverMoreThanAsked, [Callers!Next]_(Callers!vars)
               PROVE  CallersOK' /\ NeverMoreThanAsked'
    OBVIOUS
  <2> DEFINE a == Cardinality(Active)
             b == Cardinality(Active)'
  <2>1. \A n \in Targets : n \in Nat
    OBVIOUS
  <2>2. a \in Nat /\ toStart \in Nat /\ target \in Nat /\ a + toStart <= target
    BY ActiveFinite DEF CallersOK, NeverMoreThanAsked
  <2>3. \/ b + toStart' = a + toStart /\ target' = target
        \/ b = 0 /\ toStart' = 0 /\ target' = 0
        \/ \E n \in Targets, x \in Nat : toStart' = 0 /\ target' = n /\ b = n - x
    BY CallersStep
  <2> HIDE DEF a, b
  <2>4. b + toStart' <= target'
    BY <2>1, <2>2, <2>3
  <2>5. QED
    BY <2>4, CallersStep DEF NeverMoreThanAsked, b
<1>3. QED
  BY <1>1, <1>2, PTL DEF Callers!Spec

(* If no call counts on a thread that an earlier one has told to stop, the *)
(* number of active threads is the one asked for last, after every call:   *)
(* what ITransport.cs:35-38 says fails in no other way.                    *)
THEOREM AsManyAsAskedUnlessStopping ==
  ASSUME NumberOfWorkerThreads \in Nat, Targets \subseteq Nat
  PROVE  Callers!Spec /\ [][NoneOfThemStops]_(Callers!vars) => []AsManyAsAsked
<1>1. Callers!Init => CallersOK /\ AsManyAsAsked
  BY CallersInit
<1>2. CallersOK /\ AsManyAsAsked /\ [Callers!Next]_(Callers!vars)
        /\ [NoneOfThemStops]_(Callers!vars) => CallersOK' /\ AsManyAsAsked'
  <2> SUFFICES ASSUME CallersOK, AsManyAsAsked, [Callers!Next]_(Callers!vars),
                      [NoneOfThemStops]_(Callers!vars)
               PROVE  CallersOK' /\ AsManyAsAsked'
    OBVIOUS
  <2>1. CASE UNCHANGED Callers!vars
    BY <2>1, CallersStill
  <2>2. CASE NoneOfThemStops
    <3>1. ASSUME NEW n \in Targets, Callers!Change(n)
          PROVE  Cardinality(First(n) \cap stopRequested) = 0
      BY <2>2, <3>1, FS_EmptySet DEF NoneOfThemStops
    <3>2. \/ /\ Cardinality(Active)' + toStart' = Cardinality(Active) + toStart
             /\ UNCHANGED target
          \/ Cardinality(Active)' = 0 /\ toStart' = 0 /\ target' = 0
          \/ \E n \in Targets :
               toStart' = 0 /\ target' = n /\ Cardinality(Active)' = n - 0
      BY <3>1, CallersStep
    <3>3. Cardinality(Active)' + toStart' = target'
      BY <3>2 DEF AsManyAsAsked
    <3>4. QED
      BY <3>3, CallersStep DEF AsManyAsAsked
  <2>3. QED
    BY <2>1, <2>2
<1>3. QED
  BY <1>1, <1>2, PTL DEF Callers!Spec
=============================================================================
