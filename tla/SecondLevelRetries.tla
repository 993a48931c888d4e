------------------------- MODULE SecondLevelRetries -------------------------
(***************************************************************************)
(* Second level retries: the way of a message whose handling keeps         *)
(* failing, through the fault manager, the retries satellite, the timeout  *)
(* manager, the error queue and the tool that returns it to its queue.     *)
(*                                                                         *)
(* All queues are transactional and every step here is one transaction, so *)
(* a message is in one place; what a queue does when a transaction fails   *)
(* is in TransactionalTransport, and what the timeout manager does to a    *)
(* stored message in TimeoutManager.  What travels with the message is its *)
(* reply address and its headers, and they are what this module is about.  *)
(***************************************************************************)
EXTENDS Integers, FiniteSets

CONSTANTS
  Messages,
  Malformed,          \* messages the serializer cannot read
  Senders, SenderOf,  \* reply address each message was sent with
  NoAddress,          \* no reply address, or no header with one
  NullAddress,        \* the header with the address is there, without a value
  InputQueue,         \* Address.Local, the input queue of the endpoint
  RetriesQueue,       \* input queue of the retries satellite
  Sagas, SagaOf,      \* header SagaId
  MaxNumberOfRetries, \* largest NumberOfRetries configured
  MaxAge,             \* DefaultRetryPolicy.HasTimedOut: one day
  MaxReturns,         \* bound on returns of a message by the operator
  MaxDisturbances     \* bound on restarts and failures of the satellite

ASSUME AddressesAssumption ==
  /\ SenderOf \in [Messages -> Senders \cup {NoAddress}]
  /\ Malformed \subseteq Messages
  /\ InputQueue # RetriesQueue
  /\ {NoAddress, NullAddress} \cap (Senders \cup {InputQueue, RetriesQueue}) = {}
  /\ NoAddress # NullAddress
ASSUME BoundsAssumption ==
  /\ MaxNumberOfRetries \in Nat \ {0}
  /\ MaxAge \in Nat
  /\ MaxReturns \in Nat
  /\ MaxDisturbances \in Nat

Addresses == Senders \cup {InputQueue, RetriesQueue}

Places == {"input", "retries", "timeouts", "stored", "dispatching",
           "error", "handled", "cleared"}

(* DefaultRetryPolicy.TimeIncrease, the unit of time.                      *)
TimeIncrease == 1

NoTimestamp == -1

VARIABLES
  enabled,           \* the endpoint runs with second level retries
  numberOfRetries,   \* DefaultRetryPolicy.NumberOfRetries
  place,             \* where each message is
  replyTo,           \* its ReplyToAddress
  failedQ,           \* header FailedQ
  original,          \* header OriginalReplyToAddress
  retries,           \* header Retries
  wait,              \* time until header Expire
  age,               \* time since header RetriesTimestamp, NoTimestamp if none
  destination,       \* TimeoutData.Destination
  cleared,           \* sagas whose timeouts have been cleared
  replies,           \* <<m, a>>: handling m, a reply goes to address a
  rounds,            \* history: how often the transport gave up on m
  since,             \* history: time since the transport gave up on m
  returned,          \* history: how often the operator returned m
  bypassed,          \* history: deferred messages sent to the error queue
                     \* by a fault manager
  overwritten,       \* history: messages deferred once more after their
                     \* reply address had been restored
  disturbances

config == <<enabled, numberOfRetries>>
addressVars == <<replyTo, failedQ, original, destination>>
retryVars == <<retries, wait, age>>
historyVars == <<replies, rounds, since, returned, bypassed, overwritten>>

vars == <<config, place, addressVars, retryVars, cleared, historyVars,
          disturbances>>

Disturb == disturbances < MaxDisturbances /\ disturbances' = disturbances + 1

Move(m, p) == place' = [place EXCEPT ![m] = p]
-----------------------------------------------------------------------------
Init ==
  /\ enabled \in BOOLEAN
  /\ numberOfRetries \in 1..MaxNumberOfRetries
  /\ place = [m \in Messages |-> "input"]
  /\ replyTo = SenderOf
  /\ failedQ = [m \in Messages |-> NoAddress]
  /\ original = [m \in Messages |-> NoAddress]
  /\ retries = [m \in Messages |-> 0]
  /\ wait = [m \in Messages |-> 0]
  /\ age = [m \in Messages |-> NoTimestamp]
  /\ destination = [m \in Messages |-> NoAddress]
  /\ cleared = {}
  /\ replies = {}
  /\ rounds = [m \in Messages |-> 0]
  /\ since = [m \in Messages |-> 0]
  /\ returned = [m \in Messages |-> 0]
  /\ bypassed = {}
  /\ overwritten = {}
  /\ disturbances = 0
-----------------------------------------------------------------------------
(* The endpoint handles the message; what its handlers Reply or Return     *)
(* goes to the reply address of the message as it was received.            *)
Handle(m) ==
  /\ place[m] = "input"
  /\ m \notin Malformed
  /\ Move(m, "handled")
  /\ replies' = replies \cup {<<m, replyTo[m]>>}
  /\ UNCHANGED <<config, addressVars, retryVars, cleared, rounds, since,
                 returned, bypassed, overwritten, disturbances>>

(* The message has failed too often in the endpoint: SendFailureMessage    *)
(* with RetriesErrorQueue ?? ErrorQueue.                                   *)
ProcessingAlwaysFails(m) ==
  /\ place[m] = "input"
  /\ m \notin Malformed
  /\ failedQ' = [failedQ EXCEPT ![m] = InputQueue]
  /\ Move(m, IF enabled THEN "retries" ELSE "error")
  /\ rounds' = [rounds EXCEPT ![m] = @ + 1]
  /\ since' = [since EXCEPT ![m] = 0]
  /\ bypassed' = IF ~ enabled /\ retries[m] > 0 THEN bypassed \cup {m} ELSE bypassed
  /\ UNCHANGED <<config, replyTo, original, destination, retryVars, cleared,
                 replies, returned, overwritten, disturbances>>

(* What cannot be read is not retried.                                     *)
SerializationFailed(m) ==
  /\ place[m] = "input"
  /\ m \in Malformed
  /\ failedQ' = [failedQ EXCEPT ![m] = InputQueue]
  /\ Move(m, "error")
  /\ UNCHANGED <<config, replyTo, original, destination, retryVars, cleared,
                 historyVars, disturbances>>
-----------------------------------------------------------------------------
(* Mutant of Exhausted: one retry too many.                                *)
ExhaustedLate(m) == retries[m] > numberOfRetries

(* DefaultRetryPolicy.Validate: TimeSpan.MinValue.                         *)
Exhausted(m) == retries[m] >= numberOfRetries

(* DefaultRetryPolicy.HasTimedOut; without the header parsing throws and   *)
(* the message has not timed out.                                          *)
HasTimedOut(m) == age[m] > MaxAge

(* MessageSender.Send of what the satellite gives up on.  The header that  *)
(* held the sender's address is set to null and stays.                     *)
GiveUp(m, address, queue) ==
  /\ replyTo' = [replyTo EXCEPT ![m] = address]
  /\ original' = [original EXCEPT ![m] = IF @ \in Addresses THEN NullAddress ELSE @]
  /\ Move(m, queue)
  /\ bypassed' = bypassed \ {m}
  /\ UNCHANGED <<failedQ, destination, retryVars, overwritten>>

(* TransportMessageHelpers.GetOriginalReplyToAddressAndRemoveItFromHeaders *)
OriginalReplyToAddress(m) == IF original[m] \in Addresses THEN original[m]
                             ELSE replyTo[m]

(* Mutant of SendToErrorQueue: the fault manager's other queue.            *)
SendToRetriesQueue(m) == GiveUp(m, OriginalReplyToAddress(m), "retries")

SendToErrorQueue(m) == GiveUp(m, OriginalReplyToAddress(m), "error")

(* The reply address makes room for the queue the message failed in, which *)
(* is how the timeout manager learns where to send it.  The timestamp is   *)
(* set once.                                                               *)
SendToTimeoutManager(m, delay, count, saves) ==
  /\ wait' = [wait EXCEPT ![m] = delay]
  /\ retries' = [retries EXCEPT ![m] = count]
  /\ original' = [original EXCEPT ![m] = IF saves /\ replyTo[m] # NoAddress
                                         THEN replyTo[m] ELSE @]
  /\ replyTo' = [replyTo EXCEPT ![m] = failedQ[m]]
  /\ age' = [age EXCEPT ![m] = IF @ = NoTimestamp THEN 0 ELSE @]
  /\ overwritten' = IF original[m] = NullAddress THEN overwritten \cup {m}
                    ELSE overwritten
  /\ Move(m, "timeouts")
  /\ UNCHANGED <<failedQ, destination, bypassed>>

(* DefaultRetryPolicy.Validate, on the count of the retries so far.        *)
Delay(m) == TimeIncrease * (retries[m] + 1)

HasOriginal(m) == original[m] # NoAddress

(* Mutants of Defer: the address is saved each time; an Expire header that *)
(* is there is left alone; the header Retries is added, never increased.   *)
DeferSavesAgain(m) == SendToTimeoutManager(m, Delay(m), retries[m] + 1, TRUE)
DeferKeepsExpire(m) ==
  SendToTimeoutManager(m, IF retries[m] = 0 THEN Delay(m) ELSE wait[m],
                       retries[m] + 1, ~ HasOriginal(m))
DeferCountsOnce(m) == SendToTimeoutManager(m, Delay(m), 1, ~ HasOriginal(m))

Defer(m) == SendToTimeoutManager(m, Delay(m), retries[m] + 1, ~ HasOriginal(m))

(* The satellite.  When second level retries are disabled its launcher     *)
(* does not start it, so that what is in its queue stays there.            *)
HandleRetry(m) ==
  /\ place[m] = "retries"
  /\ enabled
  /\ \/ (Exhausted(m) \/ HasTimedOut(m)) /\ SendToErrorQueue(m)
     \/ ~ Exhausted(m) /\ ~ HasTimedOut(m) /\ Defer(m)
  /\ UNCHANGED <<config, cleared, replies, rounds, since, returned, disturbances>>

(* The message keeps failing in the satellite, as when the queue of the    *)
(* timeout manager is not found.  The fault manager of the satellite's own *)
(* transport writes its queue in FailedQ, finds it there in                *)
(* MessageWasSentFromSLR, and sends the message to the error queue.        *)
RetryAlwaysFails(m) ==
  /\ place[m] = "retries"
  /\ enabled
  /\ Disturb
  /\ failedQ' = [failedQ EXCEPT ![m] = RetriesQueue]
  /\ Move(m, "error")
  /\ bypassed' = IF retries[m] > 0 THEN bypassed \cup {m} ELSE bypassed
  /\ UNCHANGED <<config, replyTo, original, destination, retryVars, cleared,
                 replies, rounds, since, returned, overwritten>>
-----------------------------------------------------------------------------
(* TimeoutTransportMessageHandler.Handle: the message is stored.           *)
Store(m) ==
  /\ place[m] = "timeouts"
  /\ destination' = [destination EXCEPT ![m] = replyTo[m]]
  /\ Move(m, "stored")
  /\ UNCHANGED <<config, replyTo, failedQ, original, retryVars, cleared,
                 historyVars, disturbances>>

(* ... or all that is stored for a saga is removed, deferred messages that *)
(* carry the id of the saga included.                                      *)
ClearTimeouts(s) ==
  /\ s \notin cleared
  /\ cleared' = cleared \cup {s}
  /\ place' = [m \in Messages |-> IF place[m] = "stored" /\ SagaOf[m] = s
                                  THEN "cleared" ELSE place[m]]
  /\ UNCHANGED <<config, addressVars, retryVars, historyVars, disturbances>>

(* DispatchTimeout: a dispatch request with the headers of the message and *)
(* the address of the timeout manager's endpoint as reply address.         *)
DispatchTimeout(m) ==
  /\ place[m] = "stored"
  /\ wait[m] = 0
  /\ replyTo' = [replyTo EXCEPT ![m] = InputQueue]
  /\ Move(m, "dispatching")
  /\ UNCHANGED <<config, failedQ, original, destination, retryVars, cleared,
                 historyVars, disturbances>>

(* TimeoutDispatchHandler: the request goes to its destination.            *)
HandleDispatch(m) ==
  /\ place[m] = "dispatching"
  /\ Move(m, IF destination[m] = RetriesQueue THEN "retries" ELSE "input")
  /\ UNCHANGED <<config, addressVars, retryVars, cleared, historyVars,
                 disturbances>>
-----------------------------------------------------------------------------
(* The operator returns a message from the error queue to the queue named  *)
(* in its header.  Nothing else of the message changes.                    *)
ReturnMessageToSourceQueue(m) ==
  /\ place[m] = "error"
  /\ returned[m] < MaxReturns
  /\ returned' = [returned EXCEPT ![m] = @ + 1]
  /\ Move(m, IF failedQ[m] = RetriesQueue THEN "retries" ELSE "input")
  /\ UNCHANGED <<config, addressVars, retryVars, cleared, replies, rounds,
                 since, bypassed, overwritten, disturbances>>

(* The endpoint is restarted, perhaps with another configuration.          *)
Restart ==
  /\ Disturb
  /\ enabled' \in BOOLEAN
  /\ numberOfRetries' \in 1..MaxNumberOfRetries
  /\ UNCHANGED <<place, addressVars, retryVars, cleared, historyVars>>

(* Time passes, for all messages.                                          *)
Later(n, bound) == IF n < bound THEN n + 1 ELSE n

Tick ==
  /\ wait' = [m \in Messages |-> IF wait[m] > 0 THEN wait[m] - 1 ELSE 0]
  /\ age' = [m \in Messages |-> IF age[m] = NoTimestamp THEN NoTimestamp
                                ELSE Later(age[m], MaxAge + 1)]
  /\ since' = [m \in Messages |-> Later(since[m], TimeIncrease * MaxNumberOfRetries)]
  /\ UNCHANGED <<config, place, addressVars, retries, cleared, replies, rounds,
                 returned, bypassed, overwritten, disturbances>>
-----------------------------------------------------------------------------
Endpoint(m) == Handle(m) \/ ProcessingAlwaysFails(m) \/ SerializationFailed(m)
Timeouts(m) == Store(m) \/ DispatchTimeout(m) \/ HandleDispatch(m)

Next ==
  \/ \E m \in Messages : \/ Endpoint(m) \/ HandleRetry(m) \/ Timeouts(m)
                         \/ RetryAlwaysFails(m) \/ ReturnMessageToSourceQueue(m)
  \/ \E s \in Sagas : ClearTimeouts(s)
  \/ Restart \/ Tick

(* The transports of the endpoint, the satellite and the timeout manager   *)
(* keep receiving, the polling thread keeps looking, and time passes.  No  *)
(* operator, no saga and no restart is needed.                             *)
Spec ==
  /\ Init /\ [][Next]_vars
  /\ WF_vars(Tick)
  /\ \A m \in Messages : /\ WF_vars(Endpoint(m))
                         /\ WF_vars(HandleRetry(m))
                         /\ WF_vars(Timeouts(m))
-----------------------------------------------------------------------------
TypeOK ==
  /\ enabled \in BOOLEAN
  /\ numberOfRetries \in 1..MaxNumberOfRetries
  /\ place \in [Messages -> Places]
  /\ replyTo \in [Messages -> Addresses \cup {NoAddress}]
  /\ failedQ \in [Messages -> {NoAddress, InputQueue, RetriesQueue}]
  /\ original \in [Messages -> Addresses \cup {NoAddress, NullAddress}]
  /\ retries \in [Messages -> 0..MaxNumberOfRetries]
  /\ wait \in [Messages -> 0..TimeIncrease * MaxNumberOfRetries]
  /\ age \in [Messages -> {NoTimestamp} \cup 0..(MaxAge + 1)]
  /\ destination \in [Messages -> {NoAddress, InputQueue, RetriesQueue}]
  /\ cleared \subseteq Sagas
  /\ replies \subseteq Messages \X (Addresses \cup {NoAddress})
  /\ rounds \in [Messages -> Nat]
  /\ since \in [Messages -> 0..TimeIncrease * MaxNumberOfRetries]
  /\ returned \in [Messages -> 0..MaxReturns]
  /\ bypassed \subseteq Messages
  /\ overwritten \subseteq Messages
  /\ disturbances \in 0..MaxDisturbances

(* A message that keeps failing is taken up again at most NumberOfRetries  *)
(* times, plus once for each time somebody returned it: the count travels  *)
(* with the message through four queues and survives a return by hand.     *)
RoundsBounded ==
  \A m \in Messages : rounds[m] <= 1 + MaxNumberOfRetries + returned[m]

(* The address of the sender is not lost while it makes room for the queue *)
(* the message failed in: it is the reply address or the header has it,    *)
(* unless the message was deferred again after the header was reset.       *)
SenderKnown ==
  \A m \in Messages : SenderOf[m] # NoAddress /\ m \notin overwritten =>
    SenderOf[m] \in {replyTo[m], original[m]}

(* What the satellite gives up on lies in the error queue with the reply   *)
(* address it came with, and so does what never was deferred.  What a      *)
(* fault manager sent there between two retries does not.                  *)
ReplyAddressRestored ==
  \A m \in Messages :
    /\ place[m] = "error" /\ SenderOf[m] # NoAddress
    /\ m \notin bypassed \cup overwritten
    => replyTo[m] = SenderOf[m]

(* The reply address of a message survives its way through the retries.    *)
ReplyAddressKept == SenderKnown /\ ReplyAddressRestored

(* Each retry waits longer: the k-th comes k times TimeIncrease after the  *)
(* failure before it, though the message already has an Expire header from *)
(* the retries before.                                                     *)
BackedOff ==
  [][\A m \in Messages : place[m] = "stored" /\ place'[m] = "dispatching"
       => since[m] >= TimeIncrease * retries[m]]_vars

(* Again and again there is a time at which every message is handled, in   *)
(* the error queue, or removed with the timeouts of its saga; only in the  *)
(* queue of a satellite that is not started does a message stay.           *)
EveryMessageDecided ==
  []<>(\A m \in Messages : \/ place[m] \in {"handled", "error", "cleared"}
                           \/ place[m] = "retries" /\ ~ enabled)

(* IBus.Reply sends to the endpoint that sent the message being handled.   *)
ReplyReachesSender ==
  \A m \in Messages, a \in Addresses :
    <<m, a>> \in replies /\ SenderOf[m] # NoAddress => a = SenderOf[m]
=============================================================================
