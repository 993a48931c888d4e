---------------------- MODULE SecondLevelRetriesProofs ----------------------
(***************************************************************************)
(* Proofs about SecondLevelRetries for every set of messages, senders and  *)
(* sagas, every number of retries, returns and disturbances.               *)
(***************************************************************************)
EXTENDS SecondLevelRetries, TLAPS

USE DEF Places, Addresses, TimeIncrease, NoTimestamp

-----------------------------------------------------------------------------
(* Layer 1: types, and that a message on its way has a queue to go back    *)
(* to: in FailedQ, then in the reply address, then in the stored timeout.  *)

Underway ==
  \A m \in Messages :
    /\ place[m] \in {"retries", "timeouts", "stored", "dispatching", "error"}
         => failedQ[m] \in {InputQueue, RetriesQueue}
    /\ place[m] = "timeouts" => replyTo[m] \in {InputQueue, RetriesQueue}

Layer1 == TypeOK /\ Underway

LEMMA Layer1Init == Init => Layer1
  BY AddressesAssumption, BoundsAssumption DEF Init, Layer1, TypeOK, Underway

LEMMA Layer1Endpoint ==
  ASSUME Layer1, NEW m \in Messages, Endpoint(m)
  PROVE  Layer1'
<1> USE AddressesAssumption, BoundsAssumption
<1> USE DEF Layer1, TypeOK, Underway, Move, config, retryVars
<1>1. CASE Handle(m)
  BY <1>1 DEF Handle, addressVars
<1>2. CASE ProcessingAlwaysFails(m)
  BY <1>2 DEF ProcessingAlwaysFails
<1>3. CASE SerializationFailed(m)
  BY <1>3 DEF SerializationFailed, historyVars
<1>4. QED
  BY <1>1, <1>2, <1>3 DEF Endpoint

LEMMA Layer1Retry ==
  ASSUME Layer1, NEW m \in Messages, HandleRetry(m)
  PROVE  Layer1'
<1> USE AddressesAssumption, BoundsAssumption
<1> USE DEF Layer1, TypeOK, Underway, Move, config
<1>1. CASE SendToErrorQueue(m)
  BY <1>1 DEF HandleRetry, SendToErrorQueue, GiveUp, OriginalReplyToAddress, retryVars
<1>2. CASE ~ Exhausted(m) /\ Defer(m)
  <2>1. retries[m] + 1 \in 1..MaxNumberOfRetries
    BY <1>2 DEF Exhausted
  <2>2. failedQ[m] \in {InputQueue, RetriesQueue}
    BY DEF HandleRetry
  <2>3. QED
    BY <1>2, <2>1, <2>2 DEF HandleRetry, Defer, SendToTimeoutManager, Delay
<1>3. QED
  BY <1>1, <1>2 DEF HandleRetry

LEMMA Layer1Rest ==
  ASSUME Layer1,
         \/ \E m \in Messages : \/ Timeouts(m) \/ RetryAlwaysFails(m)
                                \/ ReturnMessageToSourceQueue(m)
         \/ \E s \in Sagas : ClearTimeouts(s)
         \/ Restart \/ Tick
  PROVE  Layer1'
<1> USE AddressesAssumption, BoundsAssumption
<1> USE DEF Layer1, TypeOK, Underway, Move, Disturb, config
<1>1. ASSUME NEW m \in Messages, Timeouts(m) PROVE Layer1'
  <2>1. CASE Store(m)
    BY <2>1 DEF Store, retryVars, historyVars
  <2>2. CASE DispatchTimeout(m)
    BY <2>2 DEF DispatchTimeout, retryVars, historyVars
  <2>3. CASE HandleDispatch(m)
    BY <2>3 DEF HandleDispatch, addressVars, retryVars, historyVars
  <2>4. QED
    BY <1>1, <2>1, <2>2, <2>3 DEF Timeouts
<1>2. ASSUME NEW m \in Messages, RetryAlwaysFails(m) PROVE Layer1'
  BY <1>2 DEF RetryAlwaysFails, retryVars
<1>3. ASSUME NEW m \in Messages, ReturnMessageToSourceQueue(m) PROVE Layer1'
  BY <1>3 DEF ReturnMessageToSourceQueue, addressVars, retryVars
<1>4. ASSUME NEW s \in Sagas, ClearTimeouts(s) PROVE Layer1'
  BY <1>4 DEF ClearTimeouts, addressVars, retryVars, historyVars
<1>5. CASE Restart
  BY <1>5 DEF Restart, addressVars, retryVars, historyVars
<1>6. CASE Tick
  BY <1>6 DEF Tick, Later, addressVars
<1>7. QED
  BY <1>1, <1>2, <1>3, <1>4, <1>5, <1>6

LEMMA Layer1Step == Layer1 /\ [Next]_vars => Layer1'
<1> SUFFICES ASSUME Layer1, [Next]_vars PROVE Layer1'
  OBVIOUS
<1>1. CASE UNCHANGED vars
  BY <1>1 DEF vars, config, addressVars, retryVars, historyVars, Layer1, TypeOK, Underway
<1>2. CASE Next
  BY <1>2, Layer1Endpoint, Layer1Retry, Layer1Rest DEF Next
<1>3. QED
  BY <1>1, <1>2

(* Every variable keeps its type, the header Retries its bound among them, *)
(* also when the configured number of retries is lowered and raised.       *)
THEOREM TypeCorrect == Spec => []TypeOK
<1>1. Layer1 => TypeOK
  BY DEF Layer1
<1>2. QED
  BY Layer1Init, Layer1Step, <1>1, PTL DEF Spec

THEOREM Layer1Correct == Spec => []Layer1
  BY Layer1Init, Layer1Step, PTL DEF Spec

-----------------------------------------------------------------------------
(* Layer 2: each time the endpoint gave up on a message is matched by a    *)
(* deferral or by a return, or is the one being dealt with.                *)

Pending(m) == IF place[m] \in {"retries", "error"} THEN 1 ELSE 0

RoundsMatched ==
  \A m \in Messages : rounds[m] <= retries[m] + returned[m] + Pending(m)

LEMMA RoundsInit == Init => RoundsMatched
  BY DEF Init, RoundsMatched, Pending

LEMMA RoundsStep == Layer1 /\ RoundsMatched /\ [Next]_vars => RoundsMatched'
<1> SUFFICES ASSUME Layer1, RoundsMatched, [Next]_vars PROVE RoundsMatched'
  OBVIOUS
<1> USE DEF Layer1, TypeOK, RoundsMatched, Pending, Move
<1>1. CASE UNCHANGED vars
  BY <1>1 DEF vars, retryVars, historyVars
<1>2. ASSUME NEW m \in Messages, Endpoint(m) PROVE RoundsMatched'
  <2>1. CASE Handle(m)
    BY <2>1 DEF Handle, retryVars
  <2>2. CASE ProcessingAlwaysFails(m)
    BY <2>2 DEF ProcessingAlwaysFails, retryVars
  <2>3. CASE SerializationFailed(m)
    BY <2>3 DEF SerializationFailed, retryVars, historyVars
  <2>4. QED
    BY <1>2, <2>1, <2>2, <2>3 DEF Endpoint
<1>3. ASSUME NEW m \in Messages, HandleRetry(m) PROVE RoundsMatched'
  <2>1. CASE SendToErrorQueue(m)
    BY <1>3, <2>1 DEF HandleRetry, SendToErrorQueue, GiveUp, retryVars
  <2>2. CASE Defer(m)
    BY <1>3, <2>2 DEF HandleRetry, Defer, SendToTimeoutManager
  <2>3. QED
    BY <1>3, <2>1, <2>2 DEF HandleRetry
<1>4. ASSUME NEW m \in Messages, Timeouts(m) PROVE RoundsMatched'
  <2>1. CASE Store(m)
    BY <2>1 DEF Store, retryVars, historyVars
  <2>2. CASE DispatchTimeout(m)
    BY <2>2 DEF DispatchTimeout, retryVars, historyVars
  <2>3. CASE HandleDispatch(m)
    BY <2>3 DEF HandleDispatch, retryVars, historyVars
  <2>4. QED
    BY <1>4, <2>1, <2>2, <2>3 DEF Timeouts
<1>5. ASSUME NEW m \in Messages, RetryAlwaysFails(m) PROVE RoundsMatched'
  BY <1>5 DEF RetryAlwaysFails, retryVars
<1>6. ASSUME NEW m \in Messages, ReturnMessageToSourceQueue(m) PROVE RoundsMatched'
  BY <1>6 DEF ReturnMessageToSourceQueue, retryVars
<1>7. ASSUME NEW s \in Sagas, ClearTimeouts(s) PROVE RoundsMatched'
  BY <1>7 DEF ClearTimeouts, retryVars, historyVars
<1>8. CASE Restart \/ Tick
  BY <1>8 DEF Restart, Tick, retryVars, historyVars
<1>9. QED
  BY <1>1, <1>2, <1>3, <1>4, <1>5, <1>6, <1>7, <1>8 DEF Next

(* However often a message goes round, the endpoint gives up on it at most *)
(* MaxNumberOfRetries times, and once more at first and for each return.   *)
THEOREM RoundsBoundedCorrect == Spec => []RoundsBounded
<1>1. Layer1 /\ RoundsMatched => RoundsBounded
  BY BoundsAssumption DEF Layer1, TypeOK, RoundsMatched, RoundsBounded, Pending
<1>2. QED
  BY Layer1Correct, RoundsInit, RoundsStep, <1>1, PTL DEF Spec

-----------------------------------------------------------------------------
(* Layer 3: where the sender's address is.                                 *)

(* A message that was not deferred has its address in place and no header. *)
FirstAddress ==
  \A m \in Messages :
    /\ retries[m] = 0 => original[m] = NoAddress
    /\ m \in Malformed => original[m] = NoAddress /\ place[m] \in {"input", "error"}
                          /\ failedQ[m] # RetriesQueue

(* The header has the address, or the reply address is the sender's and    *)
(* the message is not with the timeout manager.                            *)
AddressKept ==
  \A m \in Messages : SenderOf[m] # NoAddress /\ m \notin overwritten =>
    \/ original[m] = SenderOf[m]
    \/ /\ original[m] \in {NoAddress, NullAddress}
       /\ replyTo[m] = SenderOf[m]
       /\ place[m] \notin {"timeouts", "stored", "dispatching"}

(* In the error queue the header is used up, unless the satellite was      *)
(* passed over.                                                            *)
HeaderUsedUp ==
  \A m \in Messages : place[m] = "error" /\ m \notin bypassed =>
    original[m] \in {NoAddress, NullAddress}

Layer3 == FirstAddress /\ AddressKept /\ HeaderUsedUp

LEMMA Layer3Init == Init => Layer3
  BY AddressesAssumption DEF Init, Layer3, FirstAddress, AddressKept, HeaderUsedUp

LEMMA Layer3Retry ==
  ASSUME Layer1, Layer3, NEW m \in Messages, HandleRetry(m)
  PROVE  Layer3'
<1> USE AddressesAssumption
<1> USE DEF Layer1, TypeOK, Layer3, FirstAddress, AddressKept, HeaderUsedUp, Move, retryVars
<1>1. CASE SendToErrorQueue(m)
  BY <1>1 DEF HandleRetry, SendToErrorQueue, GiveUp, OriginalReplyToAddress
<1>2. CASE Defer(m)
  BY <1>2 DEF HandleRetry, Defer, SendToTimeoutManager, HasOriginal
<1>3. QED
  BY <1>1, <1>2 DEF HandleRetry

LEMMA Layer3Step == Layer1 /\ Layer3 /\ [Next]_vars => Layer3'
<1> SUFFICES ASSUME Layer1, Layer3, [Next]_vars PROVE Layer3'
  OBVIOUS
<1> USE AddressesAssumption
<1> USE DEF Layer1, TypeOK, Layer3, FirstAddress, AddressKept, HeaderUsedUp, Move
<1>1. CASE UNCHANGED vars
  BY <1>1 DEF vars, addressVars, retryVars, historyVars
<1>2. ASSUME NEW m \in Messages, Endpoint(m) PROVE Layer3'
  <2>1. CASE Handle(m)
    BY <2>1 DEF Handle, addressVars, retryVars
  <2>2. CASE ProcessingAlwaysFails(m)
    BY <2>2 DEF ProcessingAlwaysFails, retryVars
  <2>3. CASE SerializationFailed(m)
    BY <2>3 DEF SerializationFailed, retryVars, historyVars
  <2>4. QED
    BY <1>2, <2>1, <2>2, <2>3 DEF Endpoint
<1>4. ASSUME NEW m \in Messages, Timeouts(m) PROVE Layer3'
  <2>1. CASE Store(m)
    BY <2>1 DEF Store, retryVars, historyVars
  <2>2. CASE DispatchTimeout(m)
    BY <2>2 DEF DispatchTimeout, retryVars, historyVars
  <2>3. CASE HandleDispatch(m)
    BY <2>3 DEF HandleDispatch, addressVars, retryVars, historyVars
  <2>4. QED
    BY <1>4, <2>1, <2>2, <2>3 DEF Timeouts
<1>5. ASSUME NEW m \in Messages, RetryAlwaysFails(m) PROVE Layer3'
  BY <1>5 DEF RetryAlwaysFails, retryVars
<1>6. ASSUME NEW m \in Messages, ReturnMessageToSourceQueue(m) PROVE Layer3'
  BY <1>6 DEF ReturnMessageToSourceQueue, addressVars, retryVars
<1>7. ASSUME NEW s \in Sagas, ClearTimeouts(s) PROVE Layer3'
  BY <1>7 DEF ClearTimeouts, addressVars, retryVars, historyVars
<1>8. CASE Restart \/ Tick
  BY <1>8 DEF Restart, Tick, addressVars, retryVars, historyVars
<1>9. QED
  BY <1>1, <1>2, Layer3Retry, <1>4, <1>5, <1>6, <1>7, <1>8 DEF Next

THEOREM Layer3Correct == Spec => []Layer3
  BY Layer1Correct, Layer3Init, Layer3Step, PTL DEF Spec

(* The address of the sender is never lost but by a deferral that follows  *)
(* a restore, and what the satellite gave up on has its reply address back *)
(* when it lies in the error queue.                                        *)
THEOREM ReplyAddressKeptCorrect == Spec => []ReplyAddressKept
<1>1. Layer3 => SenderKnown
  BY DEF Layer3, AddressKept, SenderKnown
<1>2. Layer3 => ReplyAddressRestored
  BY AddressesAssumption DEF Layer3, AddressKept, HeaderUsedUp, ReplyAddressRestored
<1>3. QED
  BY Layer3Correct, <1>1, <1>2, PTL DEF ReplyAddressKept

(* The reply address is the sender's or, once the message has been         *)
(* deferred, that of the endpoint itself; and a reply went where the       *)
(* message it was for, which nobody touches any more, has its address.     *)
TwoAddresses ==
  \A m \in Messages :
    /\ place[m] \notin {"timeouts", "stored", "cleared"}
         => replyTo[m] \in {SenderOf[m], InputQueue}
    /\ original[m] \in {NoAddress, NullAddress, SenderOf[m], InputQueue}
    /\ retries[m] = 0 => /\ replyTo[m] = SenderOf[m]
                         /\ place[m] \notin {"timeouts", "stored", "dispatching"}

RepliesFollow ==
  \A r \in replies : /\ r = <<r[1], r[2]>> /\ r[1] \in Messages
                     /\ place[r[1]] = "handled" /\ r[2] = replyTo[r[1]]

LEMMA RepliesInit == Init => TwoAddresses /\ RepliesFollow
  BY DEF Init, TwoAddresses, RepliesFollow

LEMMA TwoAddressesStep ==
  ASSUME Layer1, Layer3, TwoAddresses, [Next]_vars
  PROVE  TwoAddresses'
<1> USE AddressesAssumption
<1> USE DEF Layer1, TypeOK, Layer3, FirstAddress, TwoAddresses, Move
<1>1. CASE UNCHANGED vars
  BY <1>1 DEF vars, addressVars, retryVars
<1>2. ASSUME NEW m \in Messages, Endpoint(m) PROVE TwoAddresses'
  <2>1. CASE Handle(m)
    BY <2>1 DEF Handle, addressVars, retryVars
  <2>2. CASE ProcessingAlwaysFails(m)
    BY <2>2 DEF ProcessingAlwaysFails, retryVars
  <2>3. CASE SerializationFailed(m)
    BY <2>3 DEF SerializationFailed, retryVars
  <2>4. QED
    BY <1>2, <2>1, <2>2, <2>3 DEF Endpoint
<1>3. ASSUME NEW m \in Messages, HandleRetry(m) PROVE TwoAddresses'
  <2>1. CASE SendToErrorQueue(m)
    BY <1>3, <2>1 DEF HandleRetry, SendToErrorQueue, GiveUp, OriginalReplyToAddress, retryVars
  <2>2. CASE Defer(m)
    BY <1>3, <2>2 DEF HandleRetry, Defer, SendToTimeoutManager
  <2>3. QED
    BY <1>3, <2>1, <2>2 DEF HandleRetry
<1>4. ASSUME NEW m \in Messages, Timeouts(m) PROVE TwoAddresses'
  <2>1. CASE Store(m)
    BY <2>1 DEF Store, retryVars
  <2>2. CASE DispatchTimeout(m)
    BY <2>2 DEF DispatchTimeout, retryVars
  <2>3. CASE HandleDispatch(m)
    BY <2>3 DEF HandleDispatch, addressVars, retryVars
  <2>4. QED
    BY <1>4, <2>1, <2>2, <2>3 DEF Timeouts
<1>5. ASSUME NEW m \in Messages,
             RetryAlwaysFails(m) \/ ReturnMessageToSourceQueue(m)
      PROVE  TwoAddresses'
  BY <1>5 DEF RetryAlwaysFails, ReturnMessageToSourceQueue, addressVars, retryVars
<1>6. ASSUME NEW s \in Sagas, ClearTimeouts(s) PROVE TwoAddresses'
  BY <1>6 DEF ClearTimeouts, addressVars, retryVars
<1>7. CASE Restart \/ Tick
  BY <1>7 DEF Restart, Tick, addressVars, retryVars
<1>8. QED
  BY <1>1, <1>2, <1>3, <1>4, <1>5, <1>6, <1>7 DEF Next

LEMMA RepliesFollowStep ==
  ASSUME Layer1, RepliesFollow, [Next]_vars
  PROVE  RepliesFollow'
<1> USE DEF RepliesFollow, Move
<1>1. ASSUME \A m \in Messages : place[m] = "handled" =>
                place'[m] = "handled" /\ replyTo'[m] = replyTo[m],
             \A r \in replies' \ replies :
                \E m \in Messages : /\ r = <<m, replyTo'[m]>> /\ place'[m] = "handled"
      PROVE  RepliesFollow'
  BY <1>1
<1> USE DEF Layer1, TypeOK
<1>2. ASSUME NEW m \in Messages, Handle(m) PROVE RepliesFollow'
  <2>1. \A n \in Messages : place[n] = "handled" =>
           place'[n] = "handled" /\ replyTo'[n] = replyTo[n]
    BY <1>2 DEF Handle, addressVars
  <2>2. replies' = replies \cup {<<m, replyTo'[m]>>} /\ place'[m] = "handled"
    BY <1>2 DEF Handle, addressVars
  <2>3. QED
    BY <2>1, <2>2, <1>1
<1>3. ASSUME NEW m \in Messages,
             \/ ProcessingAlwaysFails(m) \/ SerializationFailed(m) \/ HandleRetry(m)
             \/ Timeouts(m) \/ RetryAlwaysFails(m) \/ ReturnMessageToSourceQueue(m)
      PROVE  RepliesFollow'
  <2>1. replies' = replies /\ place[m] # "handled"
    BY <1>3 DEF ProcessingAlwaysFails, SerializationFailed, HandleRetry, Timeouts, Store,
       DispatchTimeout, HandleDispatch, RetryAlwaysFails, ReturnMessageToSourceQueue, historyVars
  <2>2. \A n \in Messages \ {m} : place'[n] = place[n] /\ replyTo'[n] = replyTo[n]
    BY <1>3 DEF ProcessingAlwaysFails, SerializationFailed, HandleRetry, SendToErrorQueue,
       GiveUp, Defer, SendToTimeoutManager, Timeouts, Store, DispatchTimeout, HandleDispatch,
       RetryAlwaysFails, ReturnMessageToSourceQueue, addressVars
  <2>3. QED
    BY <2>1, <2>2, <1>1
<1>4. CASE (\E s \in Sagas : ClearTimeouts(s)) \/ Restart \/ Tick \/ UNCHANGED vars
  <2>1. replies' = replies /\ replyTo' = replyTo
    BY <1>4 DEF ClearTimeouts, Restart, Tick, vars, addressVars, historyVars
  <2>2. \A n \in Messages : place[n] = "handled" => place'[n] = "handled"
    BY <1>4 DEF ClearTimeouts, Restart, Tick, vars
  <2>3. QED
    BY <2>1, <2>2, <1>1
<1>5. QED
  BY <1>2, <1>3, <1>4 DEF Next, Endpoint

(* IBus.Reply reaches the endpoint that sent the message if the message    *)
(* has not been deferred; if it has, a reply that does not reach it goes   *)
(* to the endpoint itself, while the header OriginalReplyToAddress has the *)
(* right address, unless it was reset by a restore before the deferral.    *)
ReplyStraysAfterRetry ==
  \A m \in Messages, a \in Addresses :
    <<m, a>> \in replies /\ SenderOf[m] # NoAddress /\ a # SenderOf[m] =>
      /\ a = InputQueue /\ retries[m] > 0
      /\ m \notin overwritten => original[m] = SenderOf[m]

THEOREM ReplyStraysAfterRetryOnly == Spec => []ReplyStraysAfterRetry
<1>1. Layer1 /\ Layer3 /\ TwoAddresses /\ RepliesFollow => ReplyStraysAfterRetry
  <2> SUFFICES ASSUME Layer1, Layer3, TwoAddresses, RepliesFollow,
                      NEW m \in Messages, NEW a \in Addresses,
                      <<m, a>> \in replies, SenderOf[m] # NoAddress, a # SenderOf[m]
               PROVE  /\ a = InputQueue /\ retries[m] > 0
                      /\ m \notin overwritten => original[m] = SenderOf[m]
    BY DEF ReplyStraysAfterRetry
  <2>1. place[m] = "handled" /\ a = replyTo[m]
    <3>1. <<m, a>>[1] = m /\ <<m, a>>[2] = a
      OBVIOUS
    <3>2. QED
      BY <3>1 DEF RepliesFollow
  <2>2. a = InputQueue /\ retries[m] # 0
    BY <2>1 DEF TwoAddresses
  <2>3. retries[m] > 0
    BY <2>2 DEF Layer1, TypeOK
  <2>4. m \notin overwritten => original[m] = SenderOf[m]
    BY <2>1 DEF Layer3, AddressKept
  <2>5. QED
    BY <2>2, <2>3, <2>4
<1>2. QED
  <2>1. Layer1 /\ Layer3 /\ TwoAddresses /\ [Next]_vars => TwoAddresses'
    BY TwoAddressesStep
  <2>2. Layer1 /\ RepliesFollow /\ [Next]_vars => RepliesFollow'
    BY RepliesFollowStep
  <2>3. QED
    BY Layer1Correct, Layer3Correct, RepliesInit, <2>1, <2>2, <1>1, PTL DEF Spec

-----------------------------------------------------------------------------
(* Layer 4: a deferred message has waited, or still has to wait, as long   *)
(* as its number of retries asks for.                                      *)

WaitsEnough ==
  \A m \in Messages : place[m] \in {"timeouts", "stored"} =>
    since[m] + wait[m] >= retries[m]

LEMMA WaitsInit == Init => WaitsEnough
  BY DEF Init, WaitsEnough

LEMMA WaitsStep == Layer1 /\ WaitsEnough /\ [Next]_vars => WaitsEnough'
<1> SUFFICES ASSUME Layer1, WaitsEnough, [Next]_vars PROVE WaitsEnough'
  OBVIOUS
<1> USE DEF Layer1, TypeOK, WaitsEnough, Move
<1>1. CASE UNCHANGED vars
  BY <1>1 DEF vars, retryVars, historyVars
<1>2. ASSUME NEW m \in Messages, Endpoint(m) PROVE WaitsEnough'
  <2>1. CASE Handle(m)
    BY <2>1 DEF Handle, retryVars
  <2>2. CASE ProcessingAlwaysFails(m)
    BY <2>2 DEF ProcessingAlwaysFails, retryVars
  <2>3. CASE SerializationFailed(m)
    BY <2>3 DEF SerializationFailed, retryVars, historyVars
  <2>4. QED
    BY <1>2, <2>1, <2>2, <2>3 DEF Endpoint
<1>3. ASSUME NEW m \in Messages, HandleRetry(m) PROVE WaitsEnough'
  <2>1. CASE SendToErrorQueue(m)
    BY <1>3, <2>1 DEF HandleRetry, SendToErrorQueue, GiveUp, retryVars
  <2>2. CASE Defer(m)
    BY <1>3, <2>2 DEF HandleRetry, Defer, SendToTimeoutManager, Delay
  <2>3. QED
    BY <1>3, <2>1, <2>2 DEF HandleRetry
<1>4. ASSUME NEW m \in Messages, Timeouts(m) PROVE WaitsEnough'
  <2>1. CASE Store(m)
    BY <2>1 DEF Store, retryVars, historyVars
  <2>2. CASE DispatchTimeout(m)
    BY <2>2 DEF DispatchTimeout, retryVars, historyVars
  <2>3. CASE HandleDispatch(m)
    BY <2>3 DEF HandleDispatch, retryVars, historyVars
  <2>4. QED
    BY <1>4, <2>1, <2>2, <2>3 DEF Timeouts
<1>5. ASSUME NEW m \in Messages, RetryAlwaysFails(m) PROVE WaitsEnough'
  BY <1>5 DEF RetryAlwaysFails, retryVars
<1>6. ASSUME NEW m \in Messages, ReturnMessageToSourceQueue(m) PROVE WaitsEnough'
  BY <1>6 DEF ReturnMessageToSourceQueue, retryVars
<1>7. ASSUME NEW s \in Sagas, ClearTimeouts(s) PROVE WaitsEnough'
  BY <1>7 DEF ClearTimeouts, retryVars, historyVars
<1>8. CASE Restart
  BY <1>8 DEF Restart, retryVars, historyVars
<1>9. CASE Tick
  BY <1>9, BoundsAssumption DEF Tick, Later
<1>10. QED
  BY <1>1, <1>2, <1>3, <1>4, <1>5, <1>6, <1>7, <1>8, <1>9 DEF Next

(* A retry is not dispatched before its time, counted from the failure     *)
(* before it.                                                              *)
THEOREM BackedOffCorrect == Spec => BackedOff
<1>1. Layer1 /\ WaitsEnough /\ [Next]_vars =>
        [\A m \in Messages : place[m] = "stored" /\ place'[m] = "dispatching"
           => since[m] >= TimeIncrease * retries[m]]_vars
  <2> SUFFICES ASSUME Layer1, WaitsEnough, [Next]_vars, NEW m \in Messages,
                      place[m] = "stored", place'[m] = "dispatching"
               PROVE  since[m] >= retries[m]
    BY DEF Layer1, TypeOK
  <2>1. wait[m] = 0
    BY DEF Layer1, TypeOK, Next, vars, Endpoint, Handle, ProcessingAlwaysFails,
       SerializationFailed, HandleRetry, SendToErrorQueue, GiveUp, Defer,
       SendToTimeoutManager, Timeouts, Store, DispatchTimeout, HandleDispatch,
       RetryAlwaysFails, ReturnMessageToSourceQueue, ClearTimeouts, Restart, Tick, Move
  <2>2. QED
    BY <2>1 DEF WaitsEnough, Layer1, TypeOK
<1>2. QED
  BY Layer1Correct, WaitsInit, WaitsStep, <1>1, PTL DEF Spec, BackedOff
=============================================================================
