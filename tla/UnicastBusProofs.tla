-------------------------- MODULE UnicastBusProofs --------------------------
(***************************************************************************)
(* Proofs about UnicastBus for every set of clients and configurations,    *)
(* every number of calls, retries, attempts and disturbances.              *)
(***************************************************************************)
EXTENDS UnicastBus, FiniteSetTheorems, TLAPS

LEMMA AppendSet ==
  ASSUME NEW S, NEW s \in Seq(S), NEW e
  PROVE  ToSet(Append(s, e)) = ToSet(s) \cup {e}
<1>1. Append(s, e) \in Seq(S \cup {e}) /\ Len(Append(s, e)) = Len(s) + 1
  OBVIOUS
<1>2. \A k \in 1..Len(s) : Append(s, e)[k] = s[k]
  OBVIOUS
<1>3. Append(s, e)[Len(s) + 1] = e
  OBVIOUS
<1>4. DOMAIN s = 1..Len(s) /\ DOMAIN Append(s, e) = 1..(Len(s) + 1)
  BY <1>1
<1>5. Len(s) \in Nat
  OBVIOUS
<1>6. QED
  BY <1>2, <1>3, <1>4, <1>5 DEF ToSet

LEMMA SetOf ==
  ASSUME NEW S, NEW s \in Seq(S)
  PROVE  ToSet(s) \subseteq S
  BY DEF ToSet

LEMMA ElementOf ==
  ASSUME NEW S, NEW s \in Seq(S), NEW k \in 1..Len(s)
  PROVE  s[k] \in S
  OBVIOUS

LEMMA EmptyOf == ASSUME NEW S PROVE <<>> \in Seq(S) /\ Len(<<>>) = 0
  OBVIOUS

-----------------------------------------------------------------------------
(* Layer 1: types, in four parts, each with what it needs to be kept.      *)

Messages == Clients \X Versions \X Calls

(* Transactions of one's own leave nothing pending; the others receive     *)
(* different messages.                                                     *)
StorageTyped ==
  /\ entries \in [Clients -> Nat]
  /\ lookup \in [Clients \X Versions -> Calls \cup {NoId}]
  /\ stored \subseteq Messages
  /\ sent \in [Calls -> SUBSET Messages]
  /\ received \in [Calls -> SUBSET stored]
  /\ \A i, j \in Calls : i # j => received[i] \cap received[j] = {}
  /\ ownTransaction => \A i \in Calls : sent[i] = {} /\ received[i] = {}

ConfigTyped ==
  <<ownTransaction, numberOfWorkerThreads, authorized, version>> \in Configurations

LEMMA ConfigFacts == ConfigTyped => version \in [Calls -> Versions]
<1> SUFFICES ASSUME ConfigTyped PROVE version \in [Calls -> Versions]
  OBVIOUS
<1> DEFINE p == <<ownTransaction, numberOfWorkerThreads, authorized, version>>
<1>1. p \in BOOLEAN \X Nat \X (SUBSET (Intents \X Clients)) \X [Calls -> Versions]
  BY UnicastBusAssumption DEF ConfigTyped
<1>2. p[4] \in [Calls -> Versions]
  BY <1>1
<1>3. QED
  BY <1>2

SenderTyped ==
  /\ calls \in Seq([intent : Intents, client : Clients])
  /\ Len(calls) <= MaxCalls
  /\ queueExists \in BOOLEAN
  /\ background \subseteq Made /\ givenUp \subseteq Made
  /\ retriesCount \in [Calls -> 0..MaxSendRetries]
  /\ arrived \in Seq(Made)

(* What is being handled has attempts left.                                *)
QueueTyped ==
  /\ dead \subseteq settled /\ settled \subseteq ToSet(arrived)
  /\ step \in [Calls -> {"waiting", "received", "handled", "failed"}]
  /\ Handling \subseteq ToSet(arrived) \ settled
  /\ failures \in [Calls -> 0..MaxRetries]
  /\ \A i \in Handling : failures[i] < MaxRetries
  /\ rolledBack \subseteq ToSet(arrived)
  /\ restarts \in 0..disturbances /\ disturbances \in 0..MaxDisturbances

(* A reply has attempts left, and there is none before its request leaves  *)
(* the queue.                                                              *)
ReplyTyped ==
  /\ reply \in [Calls -> {"none", "queued", "handled", "settled"}]
  /\ replyFailures \in [Calls -> 0..MaxRetries]
  /\ \A i \in Calls :
       /\ reply[i] \in {"queued", "handled"} => replyFailures[i] < MaxRetries
       /\ reply[i] = "none" => replyFailures[i] = 0
       /\ i \notin settled => reply[i] = "none"
  /\ inTime \subseteq registered /\ waiting \subseteq registered
  /\ registered \subseteq Made
  /\ invoked \in [Calls -> Nat]

Layer1 == StorageTyped /\ ConfigTyped /\ SenderTyped /\ QueueTyped /\ ReplyTyped

LEMMA Layer1Types == Layer1 => TypeOK
  BY DEF Layer1, TypeOK, StorageTyped, ConfigTyped, SenderTyped, QueueTyped,
         ReplyTyped, Messages

LEMMA Layer1Init == Init => Layer1
<1> SUFFICES ASSUME Init PROVE Layer1
  OBVIOUS
<1> USE UnicastBusAssumption
<1>1. StorageTyped
  BY DEF Init, InitStorage, StorageTyped
<1>2. ConfigTyped
  <2>1. PICK p \in Configurations :
          /\ ownTransaction = p[1] /\ numberOfWorkerThreads = p[2]
          /\ authorized = p[3] /\ version = p[4]
    BY DEF Init
  <2>2. p \in BOOLEAN \X Nat \X (SUBSET (Intents \X Clients)) \X [Calls -> Versions]
    OBVIOUS
  <2>3. p = <<p[1], p[2], p[3], p[4]>>
    BY <2>2
  <2>4. QED
    BY <2>1, <2>3 DEF ConfigTyped
<1>3. SenderTyped
  <2>1. calls \in Seq([intent : Intents, client : Clients]) /\ Len(calls) = 0
    BY EmptyOf DEF Init
  <2>2. arrived \in Seq(Made)
    BY EmptyOf DEF Init
  <2>3. retriesCount \in [Calls -> 0..MaxSendRetries]
    BY DEF Init
  <2>4. Len(calls) <= MaxCalls
    BY <2>1
  <2>5. background = {} /\ givenUp = {} /\ queueExists = FALSE
    BY DEF Init
  <2>6. QED
    BY <2>1, <2>2, <2>3, <2>4, <2>5 DEF SenderTyped
<1>4. QueueTyped
  BY DEF Init, QueueTyped, Handling
<1>5. ReplyTyped
  BY DEF Init, ReplyTyped
<1>6. QED
  BY <1>1, <1>2, <1>3, <1>4, <1>5 DEF Layer1

(* What a call's number says about it.                                     *)
LEMMA MadeFacts ==
  ASSUME SenderTyped
  PROVE  /\ Made \subseteq Calls
         /\ ToSet(arrived) \subseteq Made
         /\ \A i \in Made : Client(i) \in Clients /\ Intent(i) \in Intents
<1>1. Len(calls) \in Nat /\ Len(calls) <= MaxCalls
  BY DEF SenderTyped
<1>2. Made \subseteq Calls
  BY <1>1, UnicastBusAssumption DEF Made, Calls
<1>3. ToSet(arrived) \subseteq Made
  BY SetOf DEF SenderTyped
<1>4. \A i \in Made : calls[i] \in [intent : Intents, client : Clients]
  BY ElementOf DEF SenderTyped, Made
<1>5. QED
  BY <1>2, <1>3, <1>4 DEF Client, Intent

(* The operations of the storage.                                          *)
LEMMA SubscribeTyped ==
  ASSUME StorageTyped, NEW i \in Calls, NEW c \in Clients, NEW v \in Versions,
         Subscribe(i, c, v, i)
  PROVE  StorageTyped'
<1> DEFINE x == <<c, v, i>>
           k == <<c, v>>
<1>1. x \in Messages /\ k \in Clients \X Versions
  BY DEF Messages
<1>2. CASE entries[c] > 0
  BY <1>2 DEF Subscribe, StorageTyped, memoryVars, txVars
<1>3. CASE ~ (entries[c] > 0)
  <2>1. /\ entries' = [entries EXCEPT ![c] = @ + 1]
        /\ lookup' = lookup \/ lookup' = [lookup EXCEPT ![k] = i]
        /\ ownTransaction' = ownTransaction /\ received' = received
        /\ \/ ownTransaction /\ stored' = stored \cup {x} /\ sent' = sent
           \/ ~ ownTransaction /\ stored' = stored /\ sent' = [sent EXCEPT ![i] = @ \cup {x}]
    BY <1>3 DEF Subscribe, Add, txVars
  <2> HIDE DEF x, k
  <2>2. entries' \in [Clients -> Nat] /\ lookup' \in [Clients \X Versions -> Calls \cup {NoId}]
    BY <1>1, <2>1 DEF StorageTyped
  <2>3. stored \subseteq stored' /\ stored' \subseteq Messages
    BY <1>1, <2>1 DEF StorageTyped
  <2>4. sent' \in [Calls -> SUBSET Messages]
    BY <1>1, <2>1 DEF StorageTyped
  <2>5. QED
    BY <2>1, <2>2, <2>3, <2>4 DEF StorageTyped
<1>4. QED
  BY <1>2, <1>3

LEMMA UnsubscribeTyped ==
  ASSUME StorageTyped, NEW i \in Calls, NEW c \in Clients, NEW v \in Versions,
         Unsubscribe(i, c, v)
  PROVE  StorageTyped'
<1> USE UnicastBusAssumption
<1> DEFINE x == <<c, v, lookup[<<c, v>>]>>
<1>1. CASE ~ (entries[c] > 0)
  BY <1>1 DEF Unsubscribe, StorageTyped, memoryVars, txVars
<1>2. CASE entries[c] > 0
  <2>1. /\ lookup' = [lookup EXCEPT ![<<c, v>>] = NoId]
        /\ entries' = [entries EXCEPT ![c] = 0]
        /\ ownTransaction' = ownTransaction
    BY <1>2 DEF Unsubscribe, RemoveMessage
  <2>2. lookup' \in [Clients \X Versions -> Calls \cup {NoId}] /\ entries' \in [Clients -> Nat]
    BY <2>1 DEF StorageTyped
  <2>3. CASE lookup[<<c, v>>] = NoId
    BY <1>2, <2>1, <2>2, <2>3 DEF Unsubscribe, RemoveMessage, StorageTyped, txVars
  <2>4. CASE lookup[<<c, v>>] # NoId /\ ownTransaction
    <3>1. stored' = stored \ {x} /\ sent' = sent /\ received' = received
      BY <1>2, <2>4 DEF Unsubscribe, RemoveMessage, txVars
    <3>2. QED
      BY <2>1, <2>2, <2>4, <3>1 DEF StorageTyped
  <2>5. CASE lookup[<<c, v>>] # NoId /\ ~ ownTransaction
    <3>1. /\ x \in Receivable
          /\ received' = [received EXCEPT ![i] = @ \cup {x}]
          /\ stored' = stored /\ sent' = sent
      BY <1>2, <2>5 DEF Unsubscribe, RemoveMessage
    <3>2. x \in stored /\ \A j \in Calls : x \notin received[j]
      BY <3>1 DEF Receivable
    <3> HIDE DEF x
    <3>3. received' \in [Calls -> SUBSET stored']
      BY <3>1, <3>2 DEF StorageTyped
    <3>4. \A j, k \in Calls : j # k => received'[j] \cap received'[k] = {}
      BY <3>1, <3>2 DEF StorageTyped
    <3>5. QED
      BY <2>1, <2>2, <2>5, <3>1, <3>3, <3>4 DEF StorageTyped
  <2>6. QED
    BY <2>3, <2>4, <2>5
<1>3. QED
  BY <1>1, <1>2

LEMMA CommitTyped ==
  ASSUME StorageTyped, NEW i \in Calls,
         \/ CommitStorage(i) \/ RollbackStorage(i)
         \/ \E c \in Clients, v \in Versions : UnsubscribeThrows(i, c, v)
  PROVE  StorageTyped'
<1> USE UnicastBusAssumption DEF StorageTyped, memoryVars, txVars
<1>1. CASE CommitStorage(i)
  BY <1>1 DEF CommitStorage
<1>2. CASE RollbackStorage(i)
  BY <1>2 DEF RollbackStorage
<1>3. ASSUME NEW c \in Clients, NEW v \in Versions, UnsubscribeThrows(i, c, v)
      PROVE  StorageTyped'
  BY <1>3 DEF UnsubscribeThrows
<1>4. QED
  BY <1>1, <1>2, <1>3

LEMMA MessagesOfFinite ==
  ASSUME StorageTyped, NEW c
  PROVE  IsFiniteSet(MessagesOf(c)) /\ Cardinality(MessagesOf(c)) \in Nat
<1> DEFINE P == Versions \X Calls
           T == {<<c, p[1], p[2]>> : p \in P}
           f == [p \in P |-> <<c, p[1], p[2]>>]
<1>1. IsFiniteSet(Calls)
  BY FS_Interval, UnicastBusAssumption DEF Calls
<1>2. IsFiniteSet(P)
  BY <1>1, FS_Product, StorageAssumption
<1>3. f \in Surjection(P, T)
  BY DEF Surjection
<1>4. IsFiniteSet(T)
  BY <1>2, <1>3, FS_Surjection
<1>5. MessagesOf(c) \subseteq T
  <2> SUFFICES ASSUME NEW x \in MessagesOf(c) PROVE x \in T
    OBVIOUS
  <2>1. x \in Clients \X Versions \X Calls /\ x[1] = c
    BY DEF MessagesOf, StorageTyped, Messages
  <2>2. x = <<c, x[2], x[3]>> /\ <<x[2], x[3]>> \in P
    BY <2>1
  <2>3. QED
    BY <2>2
<1>6. QED
  BY <1>4, <1>5, FS_Subset, FS_CardinalityType

LEMMA RestartTyped ==
  ASSUME StorageTyped, RestartStorage
  PROVE  StorageTyped'
<1>1. entries' \in [Clients -> Nat]
  BY MessagesOfFinite DEF RestartStorage, Load
<1>2. lookup' \in [Clients \X Versions -> Calls \cup {NoId}]
  BY UnicastBusAssumption DEF RestartStorage, Load
<1>3. QED
  BY <1>1, <1>2, UnicastBusAssumption DEF RestartStorage, StorageTyped

(* The calls of a client.                                                  *)
LEMMA SeqGrow ==
  ASSUME NEW S, NEW T, S \subseteq T, NEW s \in Seq(S)
  PROVE  s \in Seq(T)
  OBVIOUS

LEMMA CallTyped ==
  ASSUME SenderTyped, NEW intent \in Intents, NEW c \in Clients, Call(intent, c)
  PROVE  /\ calls' \in Seq([intent : Intents, client : Clients])
         /\ Len(calls') <= MaxCalls
         /\ Made \subseteq Made'
         /\ Len(calls) + 1 \in Made' \ Made
<1> DEFINE r == [intent |-> intent, client |-> c]
           R == [intent : Intents, client : Clients]
<1>1. r \in R
  OBVIOUS
<1>2. calls \in Seq(R) /\ calls' = Append(calls, r) /\ Len(calls) < MaxCalls
  BY DEF Call, SenderTyped
<1> HIDE DEF r, R
<1>3. calls' \in Seq(R) /\ Len(calls') = Len(calls) + 1 /\ Len(calls) \in Nat
  BY <1>1, <1>2
<1>4. Len(calls') <= MaxCalls
  BY <1>2, <1>3, UnicastBusAssumption
<1>5. Made \subseteq Made' /\ Len(calls) + 1 \in Made' \ Made
  BY <1>3 DEF Made
<1>6. QED
  BY <1>3, <1>4, <1>5 DEF R

LEMMA ArriveTyped ==
  ASSUME SenderTyped, NEW i, i \in Made', Made \subseteq Made', Arrive(i)
  PROVE  arrived' \in Seq(Made') /\ ToSet(arrived') = ToSet(arrived) \cup {i}
<1>1. arrived \in Seq(Made')
  BY SeqGrow DEF SenderTyped
<1>2. arrived' = Append(arrived, i)
  BY DEF Arrive
<1>3. QED
  BY <1>1, <1>2, AppendSet

LEMMA CallSubscribeTyped ==
  ASSUME Layer1, NEW c \in Clients, CallSubscribe(c)
  PROVE  Layer1'
<1> USE DEF Layer1
<1>1. /\ calls' \in Seq([intent : Intents, client : Clients])
      /\ Len(calls') <= MaxCalls
      /\ Made \subseteq Made'
      /\ Len(calls) + 1 \in Made'
  BY CallTyped DEF CallSubscribe, Intents
<1>2. arrived' \in Seq(Made')
  BY <1>1, SeqGrow DEF CallSubscribe, queueVars, SenderTyped
<1>3. SenderTyped'
  BY <1>1, <1>2 DEF CallSubscribe, Call, SenderTyped
<1>4. StorageTyped' /\ ConfigTyped'
  BY DEF CallSubscribe, storageVars, memoryVars, txVars, threadVars, configVars,
         StorageTyped, ConfigTyped
<1>5. QueueTyped'
  BY DEF CallSubscribe, queueVars, threadVars, QueueTyped, Handling
<1>6. ReplyTyped'
  BY <1>1 DEF CallSubscribe, replyVars, callbackVars, queueVars, ReplyTyped
<1>7. QED
  BY <1>3, <1>4, <1>5, <1>6

LEMMA CallNowTyped ==
  ASSUME Layer1, NEW c \in Clients, NEW intent \in Intents, CallNow(intent, c)
  PROVE  Layer1'
<1> USE DEF Layer1
<1>1. /\ calls' \in Seq([intent : Intents, client : Clients])
      /\ Len(calls') <= MaxCalls
      /\ Made \subseteq Made'
      /\ Len(calls) + 1 \in Made'
  BY CallTyped DEF CallNow
<1>2. arrived' \in Seq(Made') /\ ToSet(arrived') = ToSet(arrived) \cup {Len(calls) + 1}
  BY <1>1, ArriveTyped DEF CallNow
<1>3. SenderTyped'
  BY <1>1, <1>2 DEF CallNow, Call, SenderTyped
<1>4. StorageTyped' /\ ConfigTyped'
  BY DEF CallNow, storageVars, memoryVars, txVars, threadVars, configVars,
         StorageTyped, ConfigTyped
<1>5. QueueTyped'
  BY <1>2 DEF CallNow, threadVars, QueueTyped, Handling
<1>6. ReplyTyped'
  BY <1>1 DEF CallNow, replyVars, callbackVars, ReplyTyped
<1>7. QED
  BY <1>3, <1>4, <1>5, <1>6

LEMMA SendSubscribeTyped ==
  ASSUME Layer1, NEW i \in Calls, SendSubscribeMessageWithRetries(i)
  PROVE  Layer1'
<1> USE DEF Layer1
<1>1. i \in Made
  BY DEF SendSubscribeMessageWithRetries, SenderTyped
<1>2. calls' = calls /\ Made' = Made
  BY DEF SendSubscribeMessageWithRetries, Made
<1>3. arrived' \in Seq(Made') /\ ToSet(arrived) \subseteq ToSet(arrived')
  BY <1>1, <1>2, ArriveTyped DEF SendSubscribeMessageWithRetries, SenderTyped
<1>4. retriesCount' \in [Calls -> 0..MaxSendRetries]
  BY UnicastBusAssumption DEF SendSubscribeMessageWithRetries, SenderTyped
<1>5. SenderTyped'
  BY <1>1, <1>2, <1>3, <1>4 DEF SendSubscribeMessageWithRetries, SenderTyped
<1>6. StorageTyped' /\ ConfigTyped'
  BY DEF SendSubscribeMessageWithRetries, storageVars, memoryVars, txVars,
         threadVars, configVars, StorageTyped, ConfigTyped
<1>7. QueueTyped'
  BY <1>3 DEF SendSubscribeMessageWithRetries, threadVars, QueueTyped, Handling
<1>8. ReplyTyped'
  BY <1>2 DEF SendSubscribeMessageWithRetries, replyVars, callbackVars, ReplyTyped
<1>9. QED
  BY <1>5, <1>6, <1>7, <1>8

LEMMA CallbackTyped ==
  ASSUME Layer1, NEW i \in Calls, Register(i) \/ HandleReply(i)
  PROVE  Layer1'
<1> USE UnicastBusAssumption DEF Layer1
<1>1. UNCHANGED <<storageVars, senderVars, queueVars, threadVars>>
  BY DEF Register, HandleReply, HandleCorellatedMessage, EndReply
<1>2. StorageTyped' /\ ConfigTyped' /\ SenderTyped'
  BY <1>1 DEF storageVars, memoryVars, txVars, senderVars, queueVars, threadVars,
              configVars, StorageTyped, ConfigTyped, SenderTyped, Made
<1>3. restarts' = restarts /\ restarts' \in 0..disturbances' /\ disturbances' \in 0..MaxDisturbances
  BY <1>1 DEF queueVars, QueueTyped, Register, HandleReply, HandleCorellatedMessage,
              EndReply, Disturb
<1>4. QueueTyped'
  BY <1>1, <1>3 DEF queueVars, threadVars, QueueTyped, Handling
<1>5. settled' = settled /\ Made' = Made
  BY <1>1 DEF queueVars, senderVars, Made
<1>6. ASSUME Register(i) PROVE ReplyTyped'
  <2>1. reply' = reply /\ replyFailures' = replyFailures /\ invoked' = invoked
    BY <1>6 DEF Register, replyVars
  <2>2. inTime' \subseteq registered' /\ waiting' \subseteq registered' /\ registered' \subseteq Made
    BY <1>6 DEF Register, ReplyTyped
  <2>3. QED
    BY <1>5, <2>1, <2>2 DEF ReplyTyped
<1>7. ASSUME HandleCorellatedMessage(i) PROVE ReplyTyped'
  <2>1. /\ reply[i] = "queued"
        /\ reply' = [reply EXCEPT ![i] = "handled"]
        /\ replyFailures' = replyFailures /\ inTime' = inTime /\ registered' = registered
        /\ waiting' \subseteq waiting
        /\ invoked' = [invoked EXCEPT ![i] = @ + 1] \/ invoked' = invoked
    BY <1>7 DEF HandleCorellatedMessage
  <2>2. invoked' \in [Calls -> Nat]
    BY <2>1 DEF ReplyTyped
  <2>3. QED
    BY <1>5, <2>1, <2>2 DEF ReplyTyped
<1>8. ASSUME EndReply(i) PROVE ReplyTyped'
  <2>1. callbackVars' = callbackVars
    BY <1>8 DEF EndReply
  <2>2. reply[i] = "handled" /\ replyFailures[i] \in Nat /\ replyFailures[i] < MaxRetries
    BY <1>8 DEF EndReply, ReplyTyped
  <2>3. CASE reply' = [reply EXCEPT ![i] = "settled"] /\ replyFailures' = replyFailures
    BY <1>5, <2>1, <2>2, <2>3 DEF ReplyTyped, callbackVars
  <2>4. CASE /\ replyFailures' = [replyFailures EXCEPT ![i] = @ + 1]
             /\ reply' = [reply EXCEPT ![i] =
                  IF replyFailures[i] + 1 < MaxRetries THEN "queued" ELSE "settled"]
    <3>1. replyFailures' \in [Calls -> 0..MaxRetries]
      BY <2>2, <2>4 DEF ReplyTyped
    <3>2. reply' \in [Calls -> {"none", "queued", "handled", "settled"}]
      BY <2>4 DEF ReplyTyped
    <3>3. QED
      BY <1>5, <2>1, <2>2, <2>4, <3>1, <3>2 DEF ReplyTyped, callbackVars
  <2>5. QED
    BY <1>8, <2>3, <2>4 DEF EndReply
<1>9. QED
  BY <1>2, <1>4, <1>6, <1>7, <1>8 DEF HandleReply

(* What the steps of the publisher leave alone.                            *)
LEMMA ClientsUntouched ==
  ASSUME Layer1, UNCHANGED <<clientVars, arrived>>
  PROVE  SenderTyped' /\ Made' = Made
  BY DEF Layer1, SenderTyped, clientVars, senderVars, Made

LEMMA RepliesUntouched ==
  ASSUME Layer1, UNCHANGED clientVars, settled \subseteq settled'
  PROVE  ReplyTyped'
  BY DEF Layer1, ReplyTyped, clientVars, senderVars, replyVars, callbackVars, Made

LEMMA ReceiveTyped ==
  ASSUME Layer1, NEW i \in Calls, Receive(i) \/ ForwardToErrorQueue(i)
  PROVE  Layer1'
<1> USE DEF Layer1
<1>1. UNCHANGED <<storageVars, clientVars, arrived, configVars, failures, rolledBack,
                  restarts, disturbances>>
  BY DEF Receive, ForwardToErrorQueue, queueVars, threadVars
<1>2. StorageTyped' /\ ConfigTyped'
  BY <1>1 DEF storageVars, memoryVars, txVars, configVars, StorageTyped, ConfigTyped
<1>3. i \in ToSet(arrived) /\ i \notin settled /\ i \notin Handling
  BY DEF Receive, ForwardToErrorQueue, IsNext, InQueue, ToSet, Handling
<1>4. ASSUME Receive(i) PROVE QueueTyped' /\ settled' = settled
  <2>1. settled' = settled /\ dead' = dead /\ step' = [step EXCEPT ![i] = "received"]
        /\ failures[i] < MaxRetries
    BY <1>4 DEF Receive, queueVars, Goto
  <2>2. Handling' = Handling \cup {i}
    BY <2>1 DEF Handling, QueueTyped
  <2>3. QED
    BY <1>1, <1>3, <2>1, <2>2 DEF QueueTyped
<1>5. ASSUME ForwardToErrorQueue(i) PROVE QueueTyped' /\ settled \subseteq settled'
  BY <1>1, <1>3, <1>5 DEF ForwardToErrorQueue, QueueTyped, Handling, threadVars
<1>6. QED
  BY <1>1, <1>2, <1>4, <1>5, ClientsUntouched, RepliesUntouched

LEMMA HandleTyped ==
  ASSUME Layer1, NEW i \in Calls, HandleMessage(i) \/ HandleMessageThrows(i)
  PROVE  Layer1'
<1> USE DEF Layer1
<1>1. /\ UNCHANGED <<clientVars, queueVars, configVars, disturbances>>
      /\ step[i] = "received"
      /\ step' = [step EXCEPT ![i] = "handled"] \/ step' = [step EXCEPT ![i] = "failed"]
  BY DEF HandleMessage, HandleMessageThrows, Goto
<1>2. i \in Made /\ Client(i) \in Clients /\ version[i] \in Versions
  BY <1>1, MadeFacts, ConfigFacts DEF QueueTyped, Handling
<1>3. StorageTyped' /\ ownTransaction' = ownTransaction
  <2>1. CASE UNCHANGED storageVars
    BY <2>1 DEF storageVars, memoryVars, txVars, StorageTyped
  <2>2. CASE Subscribe(i, Client(i), version[i], i)
    BY <1>2, <2>2, SubscribeTyped DEF Subscribe
  <2>3. CASE Unsubscribe(i, Client(i), version[i])
    BY <1>2, <2>3, UnsubscribeTyped DEF Unsubscribe
  <2>4. CASE UnsubscribeThrows(i, Client(i), version[i])
    BY <1>2, <2>4, CommitTyped DEF UnsubscribeThrows
  <2>5. QED
    BY <2>1, <2>2, <2>3, <2>4 DEF HandleMessage, HandleMessageThrows
<1>4. ConfigTyped'
  BY <1>1, <1>3 DEF ConfigTyped, configVars
<1>5. Handling' = Handling
  BY <1>1 DEF Handling, QueueTyped
<1>6. QueueTyped'
  BY <1>1, <1>5 DEF QueueTyped, queueVars
<1>7. settled' = settled /\ arrived' = arrived
  BY <1>1 DEF queueVars
<1>8. QED
  BY <1>1, <1>3, <1>4, <1>6, <1>7, ClientsUntouched, RepliesUntouched

LEMMA CommitStep ==
  ASSUME Layer1, NEW i \in Calls, Commit(i)
  PROVE  Layer1'
<1> USE DEF Layer1
<1>1. /\ UNCHANGED <<senderVars, replyFailures, callbackVars, arrived, dead, failures,
                     rolledBack, restarts, configVars, disturbances>>
      /\ step[i] = "handled" /\ step' = [step EXCEPT ![i] = "waiting"]
      /\ settled' = settled \cup {i}
      /\ reply' = [reply EXCEPT ![i] = "queued"] \/ reply' = reply
  BY DEF Commit, Goto
<1>2. i \in Handling
  BY <1>1 DEF Handling
<1>3. StorageTyped' /\ ConfigTyped'
  BY <1>1, CommitTyped DEF Commit, CommitStorage, ConfigTyped, configVars
<1>4. SenderTyped' /\ Made' = Made
  BY <1>1 DEF SenderTyped, senderVars, Made
<1>5. Handling' = Handling \ {i}
  BY <1>1 DEF Handling, QueueTyped
<1>6. QueueTyped'
  BY <1>1, <1>2, <1>5 DEF QueueTyped
<1>7. i \notin settled /\ reply[i] = "none" /\ replyFailures[i] = 0
  BY <1>2 DEF QueueTyped, ReplyTyped
<1>8. ReplyTyped'
  <2>1. reply' \in [Calls -> {"none", "queued", "handled", "settled"}]
    BY <1>1 DEF ReplyTyped
  <2>2. 0 < MaxRetries
    BY UnicastBusAssumption
  <2>3. QED
    BY <1>1, <1>4, <1>7, <2>1, <2>2 DEF ReplyTyped, callbackVars
<1>9. QED
  BY <1>3, <1>4, <1>6, <1>8

LEMMA FailTyped ==
  ASSUME Layer1, NEW i \in Calls, Fail(i)
  PROVE  Layer1'
<1> USE DEF Layer1
<1>1. /\ UNCHANGED <<clientVars, arrived, settled, dead, restarts, configVars>>
      /\ step[i] # "waiting" /\ step' = [step EXCEPT ![i] = "waiting"]
      /\ failures' = [failures EXCEPT ![i] = @ + 1]
      /\ rolledBack' = rolledBack \cup {i}
      /\ Disturb \/ disturbances' = disturbances
  BY DEF Fail, Goto
<1>2. i \in Handling
  BY <1>1 DEF Handling
<1>3. StorageTyped' /\ ConfigTyped'
  BY <1>1, CommitTyped DEF Fail, RollbackStorage, ConfigTyped, configVars
<1>4. Handling' = Handling \ {i}
  BY <1>1 DEF Handling, QueueTyped
<1>5. failures' \in [Calls -> 0..MaxRetries]
  <2>1. failures[i] \in Nat /\ failures[i] < MaxRetries
    BY <1>2 DEF QueueTyped
  <2>2. failures[i] + 1 \in 0..MaxRetries
    BY <2>1, UnicastBusAssumption
  <2>3. QED
    BY <1>1, <2>2 DEF QueueTyped
<1>6. restarts' \in 0..disturbances' /\ disturbances' \in 0..MaxDisturbances
  <2>1. restarts \in 0..disturbances /\ disturbances \in 0..MaxDisturbances
    BY DEF QueueTyped
  <2>2. restarts' = restarts
    BY <1>1
  <2>3. CASE Disturb
    BY <2>1, <2>2, <2>3, UnicastBusAssumption DEF Disturb
  <2>4. CASE disturbances' = disturbances
    BY <2>1, <2>2, <2>4
  <2>5. QED
    BY <1>1, <2>3, <2>4
<1>7. QueueTyped'
  BY <1>1, <1>2, <1>4, <1>5, <1>6 DEF QueueTyped
<1>8. QED
  BY <1>1, <1>3, <1>7, ClientsUntouched, RepliesUntouched

LEMMA RestartStep ==
  ASSUME Layer1, Restart
  PROVE  Layer1'
<1> USE DEF Layer1
<1>1. /\ UNCHANGED <<clientVars, arrived, settled, dead, rolledBack, configVars>>
      /\ Disturb /\ restarts' = restarts + 1
      /\ step' = [i \in Calls |-> "waiting"]
      /\ failures' = [i \in Calls |-> 0]
  BY DEF Restart
<1>2. StorageTyped' /\ ConfigTyped'
  BY <1>1, RestartTyped DEF Restart, RestartStorage, ConfigTyped, configVars
<1>3. restarts' \in 0..disturbances' /\ disturbances' \in 0..MaxDisturbances
  <2>1. restarts \in 0..disturbances /\ disturbances \in 0..MaxDisturbances
    BY DEF QueueTyped
  <2>2. QED
    BY <1>1, <2>1, UnicastBusAssumption DEF Disturb
<1>4. Handling' = {}
  BY <1>1 DEF Handling
<1>5. QueueTyped'
  BY <1>1, <1>3, <1>4, UnicastBusAssumption DEF QueueTyped
<1>6. QED
  BY <1>1, <1>2, <1>5, ClientsUntouched, RepliesUntouched

LEMMA CreateQueueTyped ==
  ASSUME Layer1, CreateQueue \/ UNCHANGED vars
  PROVE  Layer1'
<1>1. /\ UNCHANGED <<storageVars, calls, background, retriesCount, givenUp, queueVars,
                     threadVars, replyVars, callbackVars, disturbances>>
      /\ queueExists' \in BOOLEAN
  BY DEF CreateQueue, vars, senderVars, Layer1, SenderTyped
<1>2. QED
  BY <1>1 DEF Layer1, StorageTyped, ConfigTyped, SenderTyped, QueueTyped, ReplyTyped,
              storageVars, memoryVars, txVars, queueVars, threadVars, configVars,
              replyVars, callbackVars, Made, Handling

LEMMA Layer1Step == Layer1 /\ [Next]_vars => Layer1'
<1> SUFFICES ASSUME Layer1, [Next]_vars PROVE Layer1'
  OBVIOUS
<1>1. ASSUME NEW c \in Clients,
             CallSubscribe(c) \/ \E intent \in Intents : CallNow(intent, c)
      PROVE  Layer1'
  BY <1>1, CallSubscribeTyped, CallNowTyped
<1>2. ASSUME NEW i \in Calls, Work(i) PROVE Layer1'
  BY <1>2, ReceiveTyped, HandleTyped, CommitStep, FailTyped DEF Work
<1>3. ASSUME NEW i \in Calls,
             SendSubscribeMessageWithRetries(i) \/ Register(i) \/ HandleReply(i)
      PROVE  Layer1'
  BY <1>3, SendSubscribeTyped, CallbackTyped
<1>4. QED
  BY <1>1, <1>2, <1>3, RestartStep, CreateQueueTyped DEF Next

(* Every variable keeps its type: among others, no message is in the error *)
(* queue before it left the input queue, an attempt starts only while the  *)
(* transport has attempts left, and a failed start of a subscription is    *)
(* tried again a bounded number of times.                                  *)
THEOREM TypeCorrect == Spec => []TypeOK
  BY Layer1Init, Layer1Step, Layer1Types, PTL DEF Spec

-----------------------------------------------------------------------------
(* Layer 2: a callback that waits has not been invoked, one that was       *)
(* invoked has left the lookup, and Register puts it there once.           *)

CallbackInv ==
  \A i \in Calls :
    /\ invoked[i] <= 1
    /\ i \in waiting => invoked[i] = 0
    /\ i \notin registered => invoked[i] = 0

LEMMA CallbackInit == Init => CallbackInv
  BY DEF Init, CallbackInv

LEMMA CallbackStep == Layer1 /\ CallbackInv /\ [Next]_vars => CallbackInv'
<1> SUFFICES ASSUME Layer1, CallbackInv, [Next]_vars PROVE CallbackInv'
  OBVIOUS
<1> USE DEF CallbackInv
<1>1. ASSUME NEW i \in Calls, Register(i) PROVE CallbackInv'
  BY <1>1 DEF Register
<1>2. ASSUME NEW i \in Calls, HandleCorellatedMessage(i) PROVE CallbackInv'
  BY <1>2 DEF HandleCorellatedMessage, Layer1, ReplyTyped
<1>3. ASSUME UNCHANGED callbackVars PROVE CallbackInv'
  BY <1>3 DEF callbackVars
<1>4. ASSUME NEW i \in Calls, Work(i) PROVE CallbackInv'
  BY <1>3, <1>4 DEF Work, Receive, ForwardToErrorQueue, HandleMessage,
                    HandleMessageThrows, Commit, Fail, clientVars
<1>5. ASSUME NEW c \in Clients,
             CallSubscribe(c) \/ \E intent \in Intents : CallNow(intent, c)
      PROVE  CallbackInv'
  BY <1>3, <1>5 DEF CallSubscribe, CallNow
<1>6. ASSUME NEW i \in Calls, SendSubscribeMessageWithRetries(i) \/ EndReply(i)
      PROVE  CallbackInv'
  BY <1>3, <1>6 DEF SendSubscribeMessageWithRetries, EndReply
<1>7. CASE CreateQueue \/ Restart \/ UNCHANGED vars
  BY <1>3, <1>7 DEF CreateQueue, Restart, vars, clientVars
<1>8. QED
  BY <1>1, <1>2, <1>4, <1>5, <1>6, <1>7 DEF Next, HandleReply

(* A callback is invoked once at the most, also when the handling of the   *)
(* reply fails afterwards and the reply is handled again.                  *)
THEOREM CallbackInvokedOnceCorrect == Spec => []CallbackInvokedOnce
<1>1. CallbackInv => CallbackInvokedOnce
  BY DEF CallbackInv, CallbackInvokedOnce
<1>2. Layer1 /\ CallbackInv /\ [Next]_vars => Layer1' /\ CallbackInv'
  BY Layer1Step, CallbackStep
<1>3. QED
  BY Layer1Init, CallbackInit, <1>1, <1>2, PTL DEF Spec

-----------------------------------------------------------------------------
(* Layer 3: what a transaction of the storage has pending is one message   *)
(* of the client whose request it handles, and a publisher with one thread *)
(* has one transaction at a time.                                          *)

TxInv ==
  \A i \in Calls :
    /\ step[i] # "handled" => sent[i] = {} /\ received[i] = {}
    /\ sent[i] = {} \/ received[i] = {}
    /\ \A x \in sent[i] \cup received[i] : x[1] = Client(i)

OneAtATime ==
  numberOfWorkerThreads = 1 => \A i, j \in Handling : i = j

Layer3 == TxInv /\ OneAtATime

LEMMA Layer3Init == Init => Layer3
  BY UnicastBusAssumption DEF Init, InitStorage, Layer3, TxInv, OneAtATime, Handling

LEMMA OldCalls ==
  ASSUME Layer1, NEW c \in Clients, NEW intent \in Intents, Call(intent, c)
  PROVE  \A i \in Made : Client(i)' = Client(i) /\ Intent(i)' = Intent(i)
<1>1. \A i \in Made : calls'[i] = calls[i]
  BY DEF Call, Made, Layer1, SenderTyped
<1>2. QED
  BY <1>1 DEF Client, Intent

LEMMA Untouched ==
  ASSUME Layer1, Layer3, UNCHANGED <<storageVars, configVars, step>>,
         \A i \in Made : Client(i)' = Client(i)
  PROVE  Layer3'
<1>1. Handling' = Handling /\ Handling \subseteq Made
  BY MadeFacts DEF Handling, Layer1, QueueTyped
<1>2. OneAtATime'
  BY <1>1 DEF Layer3, OneAtATime, configVars
<1>3. \A i \in Calls : i \notin Made => sent[i] = {} /\ received[i] = {}
  BY <1>1 DEF Layer3, TxInv, Handling
<1>4. TxInv'
  BY <1>3 DEF Layer3, TxInv, storageVars, txVars
<1>5. QED
  BY <1>2, <1>4 DEF Layer3

LEMMA FinitelyHandled ==
  ASSUME Layer1
  PROVE  IsFiniteSet(Handling) /\ Cardinality(Handling) \in Nat
<1>1. IsFiniteSet(Calls)
  BY FS_Interval, UnicastBusAssumption DEF Calls
<1>2. QED
  BY <1>1, FS_Subset, FS_CardinalityType DEF Handling

LEMMA Layer3Work ==
  ASSUME Layer1, Layer3, NEW i \in Calls, Work(i)
  PROVE  Layer3'
<1> USE DEF Layer3
<1>1. UNCHANGED <<calls, configVars>>
  BY DEF Work, Receive, ForwardToErrorQueue, HandleMessage, HandleMessageThrows,
         Commit, Fail, clientVars, senderVars, threadVars
<1>2. \A j : Client(j)' = Client(j)
  BY <1>1 DEF Client
<1>3. ASSUME Receive(i) PROVE Layer3'
  <2>1. step' = [step EXCEPT ![i] = "received"] /\ UNCHANGED storageVars
    BY <1>3 DEF Receive, Goto
  <2>2. step[i] = "waiting"
    BY <1>3 DEF Receive, IsNext, InQueue
  <2>3. Handling' = Handling \cup {i}
    BY <2>1 DEF Handling, Layer1, QueueTyped
  <2>4. numberOfWorkerThreads = 1 => Handling = {}
    BY <1>3, FinitelyHandled, FS_EmptySet DEF Receive
  <2>5. OneAtATime'
    BY <1>1, <2>3, <2>4 DEF OneAtATime, configVars
  <2>6. TxInv'
    BY <1>2, <2>1, <2>2 DEF TxInv, Layer1, QueueTyped, storageVars, txVars
  <2>7. QED
    BY <2>5, <2>6
<1>4. ASSUME ForwardToErrorQueue(i) PROVE Layer3'
  BY <1>2, <1>4, Untouched DEF ForwardToErrorQueue, threadVars
<1>5. ASSUME HandleMessage(i) \/ HandleMessageThrows(i) PROVE Layer3'
  <2>1. /\ step[i] = "received"
        /\ \/ step' = [step EXCEPT ![i] = "handled"]
           \/ step' = [step EXCEPT ![i] = "failed"] /\ UNCHANGED txVars
    BY <1>5 DEF HandleMessage, HandleMessageThrows, Goto, UnsubscribeThrows
  <2>2. Handling' = Handling
    BY <2>1 DEF Handling, Layer1, QueueTyped
  <2>3. OneAtATime'
    BY <1>1, <2>2 DEF OneAtATime, configVars
  <2>4. sent[i] = {} /\ received[i] = {}
    BY <2>1 DEF TxInv
  <2>5. \/ UNCHANGED txVars
        \/ sent' = [sent EXCEPT ![i] = {<<Client(i), version[i], i>>}] /\ received' = received
        \/ received' = [received EXCEPT ![i] = {<<Client(i), version[i], lookup[<<Client(i), version[i]>>]>>}]
           /\ sent' = sent
    <3>1. CASE Subscribe(i, Client(i), version[i], i)
      BY <2>4, <3>1 DEF Subscribe, Add, txVars, Layer1, StorageTyped
    <3>2. CASE Unsubscribe(i, Client(i), version[i])
      BY <2>4, <3>2 DEF Unsubscribe, RemoveMessage, txVars, Layer1, StorageTyped
    <3>3. QED
      BY <1>5, <3>1, <3>2 DEF HandleMessage, HandleMessageThrows, UnsubscribeThrows,
                              storageVars
  <2>6. TxInv'
    <3>1. CASE UNCHANGED txVars
      BY <1>2, <2>1, <2>4, <3>1 DEF TxInv, txVars, Layer1, QueueTyped
    <3>2. CASE /\ step' = [step EXCEPT ![i] = "handled"]
               /\ sent' = [sent EXCEPT ![i] = {<<Client(i), version[i], i>>}]
               /\ received' = received
      BY <1>2, <2>4, <3>2 DEF TxInv, Layer1, QueueTyped, StorageTyped
    <3>3. CASE /\ step' = [step EXCEPT ![i] = "handled"]
               /\ received' = [received EXCEPT ![i] = {<<Client(i), version[i], lookup[<<Client(i), version[i]>>]>>}]
               /\ sent' = sent
      BY <1>2, <2>4, <3>3 DEF TxInv, Layer1, QueueTyped, StorageTyped
    <3>4. QED
      BY <2>1, <2>5, <3>1, <3>2, <3>3
  <2>7. QED
    BY <2>3, <2>6
<1>6. ASSUME Commit(i) \/ Fail(i) PROVE Layer3'
  <2>1. /\ step' = [step EXCEPT ![i] = "waiting"]
        /\ sent' = [sent EXCEPT ![i] = {}] /\ received' = [received EXCEPT ![i] = {}]
    BY <1>6 DEF Commit, Fail, Goto, CommitStorage, RollbackStorage
  <2>2. Handling' = Handling \ {i}
    BY <2>1 DEF Handling, Layer1, QueueTyped
  <2>3. OneAtATime'
    BY <1>1, <2>2 DEF OneAtATime, configVars
  <2>4. TxInv'
    BY <1>2, <2>1 DEF TxInv, Layer1, QueueTyped, StorageTyped
  <2>5. QED
    BY <2>3, <2>4
<1>7. QED
  BY <1>3, <1>4, <1>5, <1>6 DEF Work

LEMMA Layer3Step == Layer1 /\ Layer3 /\ [Next]_vars => Layer3'
<1> SUFFICES ASSUME Layer1, Layer3, [Next]_vars PROVE Layer3'
  OBVIOUS
<1>1. ASSUME NEW c \in Clients, NEW intent \in Intents,
             CallSubscribe(c) \/ CallNow(intent, c)
      PROVE  Layer3'
  BY <1>1, OldCalls, Untouched DEF CallSubscribe, CallNow, threadVars, Intents
<1>2. ASSUME UNCHANGED <<storageVars, threadVars, calls>> PROVE Layer3'
  BY <1>2, Untouched DEF threadVars, Client
<1>3. ASSUME NEW i \in Calls,
             SendSubscribeMessageWithRetries(i) \/ Register(i) \/ HandleReply(i)
      PROVE  Layer3'
  BY <1>2, <1>3 DEF SendSubscribeMessageWithRetries, Register, HandleReply,
                    HandleCorellatedMessage, EndReply, senderVars
<1>4. CASE CreateQueue \/ UNCHANGED vars
  BY <1>2, <1>4 DEF CreateQueue, vars, senderVars
<1>5. CASE Restart
  <2>1. /\ Handling' = {}
        /\ sent' = [t \in Calls |-> {}] /\ received' = [t \in Calls |-> {}]
    BY <1>5, UnicastBusAssumption DEF Restart, RestartStorage, Handling
  <2>2. QED
    BY <2>1 DEF Layer3, TxInv, OneAtATime
<1>6. QED
  BY <1>1, <1>3, <1>4, <1>5, Layer3Work DEF Next, Intents

-----------------------------------------------------------------------------
(* Layer 4: a message of the storage is a subscription: its id is the call *)
(* that made it, and it has the client and the version of that call.       *)

IsSubscription(x) ==
  /\ x[3] \in Made
  /\ Client(x[3]) = x[1] /\ version[x[3]] = x[2] /\ Intent(x[3]) # "Send"

Named ==
  /\ \A x \in stored : IsSubscription(x)
  /\ \A i \in Calls : \A x \in sent[i] : IsSubscription(x)

LEMMA NamedInit == Init => Named
  BY UnicastBusAssumption DEF Init, InitStorage, Named

CallsKept ==
  /\ Made \subseteq Made' /\ version' = version
  /\ \A i \in Made : Client(i)' = Client(i) /\ Intent(i)' = Intent(i)

LEMMA StillSubscription ==
  ASSUME CallsKept, NEW x, IsSubscription(x)
  PROVE  IsSubscription(x)'
  BY DEF CallsKept, IsSubscription

LEMMA NextKeepsCalls == Layer1 /\ [Next]_vars => CallsKept
<1> SUFFICES ASSUME Layer1, [Next]_vars PROVE CallsKept
  OBVIOUS
<1>1. ASSUME NEW c \in Clients, NEW intent \in Intents,
             CallSubscribe(c) \/ CallNow(intent, c)
      PROVE  CallsKept
  BY <1>1, OldCalls, CallTyped
  DEF CallSubscribe, CallNow, CallsKept, threadVars, configVars, Layer1, Intents
<1>2. ASSUME calls' = calls, configVars' = configVars PROVE CallsKept
  BY <1>2 DEF CallsKept, configVars, Made, Client, Intent
<1>3. ASSUME NEW i \in Calls, Work(i) PROVE CallsKept
  BY <1>2, <1>3 DEF Work, Receive, ForwardToErrorQueue, HandleMessage,
                    HandleMessageThrows, Commit, Fail, clientVars, senderVars, threadVars
<1>4. ASSUME NEW i \in Calls,
             SendSubscribeMessageWithRetries(i) \/ Register(i) \/ HandleReply(i)
      PROVE  CallsKept
  BY <1>2, <1>4 DEF SendSubscribeMessageWithRetries, Register, HandleReply,
                    HandleCorellatedMessage, EndReply, senderVars, threadVars
<1>5. CASE CreateQueue \/ Restart \/ UNCHANGED vars
  BY <1>2, <1>5 DEF CreateQueue, Restart, vars, clientVars, senderVars, threadVars
<1>6. QED
  BY <1>1, <1>3, <1>4, <1>5 DEF Next, Intents

LEMMA NamedStep == Layer1 /\ Named /\ [Next]_vars => Named'
<1> SUFFICES ASSUME Layer1, Named, [Next]_vars PROVE Named'
  OBVIOUS
<1>1. CallsKept
  BY NextKeepsCalls
<1>2. ASSUME /\ \A x \in stored' : x \in stored \/ (\E i \in Calls : x \in sent[i])
                                 \/ IsSubscription(x)
             /\ \A i \in Calls : \A x \in sent'[i] : x \in sent[i] \/ IsSubscription(x)
      PROVE  Named'
  <2>1. \A x : IsSubscription(x) => IsSubscription(x)'
    BY <1>1, StillSubscription
  <2>2. QED
    BY <1>2, <2>1 DEF Named
<1>3. CASE UNCHANGED storageVars
  BY <1>2, <1>3 DEF storageVars, txVars
<1>4. ASSUME NEW i \in Calls, HandleMessage(i) PROVE Named'
  <2>1. i \in Made
    BY <1>4, MadeFacts DEF HandleMessage, Handling, Layer1, QueueTyped
  <2>2. CASE Subscribe(i, Client(i), version[i], i) /\ Intent(i) = "Subscribe"
    <3> DEFINE x == <<Client(i), version[i], i>>
    <3>1. IsSubscription(x)
      BY <2>1, <2>2 DEF IsSubscription
    <3>2. stored' \subseteq stored \cup {x}
      BY <2>2 DEF Subscribe, Add
    <3>3. \A j \in Calls : sent'[j] \subseteq sent[j] \cup {x}
      BY <2>2 DEF Subscribe, Add, txVars, Layer1, StorageTyped
    <3>4. QED
      BY <1>2, <3>1, <3>2, <3>3
  <2>3. CASE Unsubscribe(i, Client(i), version[i])
    <3>1. stored' \subseteq stored /\ sent' = sent
      BY <2>3 DEF Unsubscribe, RemoveMessage, txVars
    <3>2. QED
      BY <1>2, <3>1
  <2>4. QED
    BY <1>3, <1>4, <2>2, <2>3 DEF HandleMessage
<1>5. ASSUME NEW i \in Calls, HandleMessageThrows(i) PROVE Named'
  BY <1>2, <1>5 DEF HandleMessageThrows, UnsubscribeThrows, txVars
<1>6. ASSUME NEW i \in Calls, Commit(i) \/ Fail(i) PROVE Named'
  <2>1. /\ stored' \subseteq stored \cup sent[i]
        /\ \A j \in Calls : sent'[j] \subseteq sent[j]
    BY <1>6 DEF Commit, Fail, CommitStorage, RollbackStorage, Layer1, StorageTyped
  <2>2. QED
    BY <1>2, <2>1
<1>7. CASE Restart
  BY <1>2, <1>7, UnicastBusAssumption DEF Restart, RestartStorage
<1>8. ASSUME NEW i \in Calls, Work(i) PROVE Named'
  BY <1>3, <1>4, <1>5, <1>6, <1>8 DEF Work, Receive, ForwardToErrorQueue
<1>9. QED
  BY <1>3, <1>7, <1>8 DEF Next, CallSubscribe, CallNow, SendSubscribeMessageWithRetries,
     Register, HandleReply, HandleCorellatedMessage, EndReply, CreateQueue, vars

-----------------------------------------------------------------------------
(* Layer 5: for the clients the property speaks of, memory is what the     *)
(* queue will be when the transactions have committed, and the queue never *)
(* has two messages of such a client: a restart finds what memory had.     *)

Coherent(c) ==
  /\ OneVersion(c)
  /\ ownTransaction \/ (numberOfWorkerThreads = 1 /\ Undisturbed(c))

Effective(c) ==
  {x \in Messages : /\ x[1] = c
                    /\ x \in stored \/ \E i \in Calls : x \in sent[i]
                    /\ \A i \in Calls : x \notin received[i]}

Message(c, v) == <<c, v, lookup[<<c, v>>]>>

(* The message of a client that is in the list, and the lookup has no      *)
(* other.                                                                  *)
OneMessage(c, v) ==
  /\ Effective(c) = {Message(c, v)}
  /\ \A w \in Versions \ {v} : lookup[<<c, w>>] = NoId

NoMessage(c) == Effective(c) = {} /\ \A v \in Versions : lookup[<<c, v>>] = NoId

Matches(c) ==
  /\ entries[c] \in {0, 1}
  /\ entries[c] = 0 => NoMessage(c)
  /\ entries[c] = 1 => \E v \in Versions : OneMessage(c, v)
  /\ \A x, y \in MessagesOf(c) : x = y

MemoryInv == \A c \in Clients : Coherent(c) => Matches(c)

LEMMA MemoryInit == Init => MemoryInv
<1> SUFFICES ASSUME Init, NEW c \in Clients PROVE Matches(c)
  BY DEF MemoryInv
<1>1. Effective(c) = {} /\ MessagesOf(c) = {}
  BY UnicastBusAssumption DEF Init, InitStorage, Effective, MessagesOf
<1>2. \A v \in Versions : <<c, v>> \in Clients \X Versions
  OBVIOUS
<1>3. NoMessage(c)
  BY <1>1, <1>2 DEF Init, InitStorage, NoMessage
<1>4. QED
  BY <1>1, <1>3 DEF Init, InitStorage, Matches

(* A client does not become coherent again.                                *)
LEMMA CoherentBefore ==
  ASSUME Layer1, NEW c \in Clients, Coherent(c)', CallsKept,
         UNCHANGED <<ownTransaction, numberOfWorkerThreads>>,
         rolledBack \subseteq rolledBack'
  PROVE  Coherent(c)
<1>1. rolledBack \subseteq Made
  BY MadeFacts DEF Layer1, QueueTyped
<1>2. Undisturbed(c)' => Undisturbed(c)
  BY <1>1 DEF Undisturbed, CallsKept
<1>3. OneVersion(c)
  BY DEF OneVersion, CallsKept, Coherent
<1>4. QED
  BY <1>2, <1>3 DEF Coherent

LEMMA MatchesKept ==
  ASSUME NEW c \in Clients, Matches(c), UNCHANGED <<entries, lookup, stored, txVars>>
  PROVE  Matches(c)'
<1>1. Effective(c)' = Effective(c) /\ MessagesOf(c)' = MessagesOf(c)
  BY DEF Effective, MessagesOf, txVars
<1>2. QED
  BY <1>1 DEF Matches, NoMessage, OneMessage, Message

(* Enough to show when the entries and the lookup of a client stay.        *)
LEMMA MatchesWhen ==
  ASSUME NEW c \in Clients, Matches(c),
         entries'[c] = entries[c],
         \A v \in Versions : lookup'[<<c, v>>] = lookup[<<c, v>>],
         Effective(c)' = Effective(c),
         \A x, y \in MessagesOf(c)' : x = y
  PROVE  Matches(c)'
<1>1. NoMessage(c) => NoMessage(c)'
  BY DEF NoMessage
<1>2. \A v \in Versions : OneMessage(c, v) => OneMessage(c, v)'
  BY DEF OneMessage, Message
<1>3. QED
  BY <1>1, <1>2 DEF Matches

LEMMA MemoryUntouched ==
  ASSUME Layer1, MemoryInv, UNCHANGED <<storageVars, configVars>>, CallsKept,
         rolledBack \subseteq rolledBack'
  PROVE  MemoryInv'
<1> SUFFICES ASSUME NEW c \in Clients, Coherent(c)' PROVE Matches(c)'
  BY DEF MemoryInv
<1>1. Coherent(c)
  BY CoherentBefore DEF storageVars, configVars
<1>2. Matches(c)
  BY <1>1 DEF MemoryInv
<1>3. QED
  BY <1>2, MatchesKept DEF storageVars, memoryVars

(* While a request is about to be handled, nothing is pending.             *)
LEMMA NothingPending ==
  ASSUME Layer1, Layer3, NEW c \in Clients, Coherent(c),
         NEW i \in Calls, step[i] = "received"
  PROVE  /\ \A j \in Calls : sent[j] = {} /\ received[j] = {}
         /\ Effective(c) = MessagesOf(c)
<1>1. i \in Handling
  BY DEF Handling
<1>2. \A j \in Calls : sent[j] = {} /\ received[j] = {}
  <2>1. CASE ownTransaction
    BY <2>1 DEF Layer1, StorageTyped
  <2>2. CASE numberOfWorkerThreads = 1
    BY <1>1, <2>2 DEF Layer3, OneAtATime, TxInv, Handling
  <2>3. QED
    BY <2>1, <2>2 DEF Coherent
<1>3. QED
  BY <1>2 DEF Effective, MessagesOf, Layer1, StorageTyped

LEMMA SubscribeMatches ==
  ASSUME Layer1, Layer3, NEW i \in Calls, step[i] = "received",
         NEW d \in Clients, NEW v \in Versions, Subscribe(i, d, v, i),
         NEW c \in Clients, Coherent(c), Matches(c)
  PROVE  Matches(c)'
<1> USE DEF Layer1, StorageTyped
<1> DEFINE x == <<d, v, i>>
<1>1. CASE entries[d] > 0
  BY <1>1, MatchesKept DEF Subscribe, memoryVars
<1>2. CASE ~ (entries[d] > 0)
  <2>1. entries' = [entries EXCEPT ![d] = @ + 1] /\ Add(i, d, v, i)
    BY <1>2 DEF Subscribe
  <2>2. /\ \A j \in Calls : sent[j] = {} /\ received[j] = {}
        /\ Effective(c) = MessagesOf(c)
    BY NothingPending
  <2>3. x \in Messages /\ <<d, v>> \in Clients \X Versions
    BY DEF Messages
  <2>4. received' = received
    BY <2>1 DEF Add, txVars
  <2>5. /\ c = d => Effective(c)' = Effective(c) \cup {x}
        /\ c # d => Effective(c)' = Effective(c)
    <3>1. x[1] = d
      OBVIOUS
    <3>2. CASE ownTransaction
      <4>1. stored' = stored \cup {x} /\ sent' = sent
        BY <2>1, <3>2 DEF Add, txVars
      <4> HIDE DEF x
      <4>2. QED
        BY <2>2, <2>3, <2>4, <3>1, <4>1 DEF Effective
    <3>3. CASE ~ ownTransaction
      <4>1. stored' = stored /\ sent' = [sent EXCEPT ![i] = @ \cup {x}]
        BY <2>1, <3>3 DEF Add
      <4> HIDE DEF x
      <4>2. QED
        BY <2>2, <2>3, <2>4, <3>1, <4>1 DEF Effective
    <3>4. QED
      BY <3>2, <3>3
  <2>6. stored' \subseteq stored \cup {x}
    BY <2>1 DEF Add
  <2>7. CASE c = d
    <3>1. entries[c] = 0 /\ NoMessage(c)
      BY <1>2, <2>7 DEF Matches
    <3>2. entries'[c] = 1
      BY <2>1, <2>7, <3>1
    <3>3. lookup' = [lookup EXCEPT ![<<c, v>>] = i]
      BY <2>1, <2>7, <3>1 DEF Add, NoMessage
    <3>4. /\ lookup'[<<c, v>>] = i
          /\ \A w \in Versions \ {v} : lookup'[<<c, w>>] = NoId
      BY <2>3, <2>7, <3>1, <3>3 DEF NoMessage
    <3>5. Effective(c)' = {x} /\ MessagesOf(c)' \subseteq {x}
      BY <2>2, <2>5, <2>6, <2>7, <3>1 DEF NoMessage, MessagesOf
    <3>6. OneMessage(c, v)'
      BY <2>7, <3>4, <3>5 DEF OneMessage, Message
    <3>7. QED
      BY <3>2, <3>5, <3>6 DEF Matches
  <2>8. CASE c # d
    <3>1. entries'[c] = entries[c]
      BY <2>1, <2>8
    <3>2. lookup' = lookup \/ lookup' = [lookup EXCEPT ![<<d, v>>] = i]
      BY <2>1 DEF Add
    <3>3. \A w \in Versions : lookup'[<<c, w>>] = lookup[<<c, w>>]
      BY <2>8, <3>2
    <3>4. MessagesOf(c)' \subseteq MessagesOf(c)
      BY <2>6, <2>8 DEF MessagesOf
    <3>5. \A y, z \in MessagesOf(c)' : y = z
      BY <3>4 DEF Matches
    <3>6. QED
      BY <2>5, <2>8, <3>1, <3>3, <3>5, MatchesWhen
  <2>9. QED
    BY <2>7, <2>8
<1>3. QED
  BY <1>1, <1>2

(* The message of a client that names one version has the version of the   *)
(* request.                                                                *)
LEMMA FoundByVersion ==
  ASSUME Layer1, Named, NEW c \in Clients, Coherent(c), Matches(c), entries[c] > 0,
         NEW i \in Made, Client(i) = c, Intent(i) # "Send"
  PROVE  OneMessage(c, version[i])
<1>1. PICK v \in Versions : OneMessage(c, v)
  BY DEF Matches
<1>2. Message(c, v) \in Effective(c)
  BY <1>1 DEF OneMessage
<1>3. Message(c, v) \in stored \/ \E j \in Calls : Message(c, v) \in sent[j]
  BY <1>2 DEF Effective
<1>4. IsSubscription(Message(c, v))
  BY <1>3 DEF Named
<1>5. /\ lookup[<<c, v>>] \in Made /\ Client(lookup[<<c, v>>]) = c
      /\ version[lookup[<<c, v>>]] = v /\ Intent(lookup[<<c, v>>]) # "Send"
  BY <1>4 DEF IsSubscription, Message
<1>6. version[i] = v
  BY <1>5 DEF Coherent, OneVersion
<1>7. QED
  BY <1>1, <1>6

LEMMA UnsubscribeMatches ==
  ASSUME Layer1, Layer3, Named, NEW i \in Calls, step[i] = "received",
         i \in Made, Client(i) \in Clients, version[i] \in Versions, Intent(i) # "Send",
         Unsubscribe(i, Client(i), version[i]),
         NEW c \in Clients, Coherent(c), Matches(c)
  PROVE  Matches(c)'
<1> USE DEF Layer1, StorageTyped
<1> DEFINE d == Client(i)
           v == version[i]
           x == Message(d, v)
<1>1. CASE ~ (entries[d] > 0)
  BY <1>1, MatchesKept DEF Unsubscribe, memoryVars
<1>2. CASE entries[d] > 0
  <2>1. /\ entries' = [entries EXCEPT ![d] = 0]
        /\ lookup' = [lookup EXCEPT ![<<d, v>>] = NoId]
        /\ RemoveMessage(i, d, v)
    BY <1>2 DEF Unsubscribe, RemoveMessage
  <2>2. /\ \A j \in Calls : sent[j] = {} /\ received[j] = {}
        /\ Effective(c) = MessagesOf(c)
    BY NothingPending
  <2>3. stored' \subseteq stored /\ sent' = sent
    BY <2>1 DEF RemoveMessage, txVars
  <2>4. MessagesOf(c)' \subseteq MessagesOf(c)
    BY <2>3 DEF MessagesOf
  <2>5. Effective(c)' = Effective(c) \ {x}
    <3>1. CASE lookup[<<d, v>>] = NoId
      <4>1. x \notin Messages
        BY <3>1, UnicastBusAssumption, StorageAssumption DEF Messages, Message
      <4>2. UNCHANGED <<stored, sent, received>>
        BY <2>1, <3>1 DEF RemoveMessage, txVars
      <4>3. QED
        BY <4>1, <4>2 DEF Effective
    <3>2. CASE lookup[<<d, v>>] # NoId /\ ownTransaction
      <4>1. stored' = stored \ {x} /\ UNCHANGED <<sent, received>>
        BY <2>1, <3>2 DEF RemoveMessage, txVars, Message
      <4> HIDE DEF x
      <4>2. QED
        BY <2>2, <4>1 DEF Effective
    <3>3. CASE lookup[<<d, v>>] # NoId /\ ~ ownTransaction
      <4>1. received' = [received EXCEPT ![i] = @ \cup {x}] /\ UNCHANGED <<stored, sent>>
        BY <2>1, <3>3 DEF RemoveMessage, Message
      <4> HIDE DEF x
      <4>2. QED
        BY <2>2, <4>1 DEF Effective
    <3>4. QED
      BY <3>1, <3>2, <3>3
  <2>6. CASE c = d
    <3>1. OneMessage(c, v)
      BY <1>2, <2>6, FoundByVersion
    <3>2. entries'[c] = 0 /\ Effective(c)' = {}
      BY <2>1, <2>5, <2>6, <3>1 DEF OneMessage
    <3>3. \A w \in Versions : lookup'[<<c, w>>] = NoId
      BY <2>1, <2>6, <3>1 DEF OneMessage
    <3>4. QED
      BY <2>4, <3>2, <3>3 DEF Matches, NoMessage
  <2>7. CASE c # d
    <3>1. entries'[c] = entries[c]
      BY <2>1, <2>7
    <3>2. \A w \in Versions : lookup'[<<c, w>>] = lookup[<<c, w>>]
      BY <2>1, <2>7
    <3>3. x[1] = d
      BY DEF Message
    <3>4. x \notin Effective(c)
      BY <2>7, <3>3 DEF Effective
    <3>5. \A y, z \in MessagesOf(c)' : y = z
      BY <2>4 DEF Matches
    <3>6. QED
      BY <2>5, <3>1, <3>2, <3>4, <3>5, MatchesWhen
  <2>8. QED
    BY <2>6, <2>7
<1>3. QED
  BY <1>1, <1>2

(* It does not happen to a coherent client that its message is missing.    *)
LEMMA ThrowsMatches ==
  ASSUME Layer1, Layer3, Named, NEW i \in Calls, step[i] = "received",
         i \in Made, Client(i) \in Clients, version[i] \in Versions, Intent(i) # "Send",
         UnsubscribeThrows(i, Client(i), version[i]),
         NEW c \in Clients, Coherent(c), Matches(c)
  PROVE  Matches(c)'
<1> DEFINE d == Client(i)
           v == version[i]
           x == Message(d, v)
<1>1. c # d
  <2> SUFFICES ASSUME c = d PROVE FALSE
    OBVIOUS
  <2>1. entries[d] > 0 /\ x \notin Receivable
    BY DEF UnsubscribeThrows, Message
  <2>2. Effective(c) = {x}
    BY <2>1, FoundByVersion DEF OneMessage
  <2>3. /\ \A j \in Calls : received[j] = {}
        /\ x \in stored
    BY <2>2, NothingPending DEF MessagesOf
  <2>4. x \in Receivable
    BY <2>3, UnicastBusAssumption DEF Receivable
  <2>5. QED
    BY <2>1, <2>4
<1>2. /\ UNCHANGED <<entries, stored, sent, received>>
      /\ lookup' = [lookup EXCEPT ![<<d, v>>] = NoId]
  BY DEF UnsubscribeThrows, txVars
<1>3. \A w \in Versions : lookup'[<<c, w>>] = lookup[<<c, w>>]
  BY <1>1, <1>2 DEF Layer1, StorageTyped
<1>4. Effective(c)' = Effective(c) /\ MessagesOf(c)' = MessagesOf(c)
  BY <1>2 DEF Effective, MessagesOf
<1>5. \A y, z \in MessagesOf(c)' : y = z
  BY <1>4 DEF Matches
<1>6. QED
  BY <1>2, <1>3, <1>4, <1>5, MatchesWhen

(* The transactions that are not at work have nothing pending.             *)
LEMMA OthersEmpty ==
  ASSUME Layer1, Layer3, NEW c \in Clients, Coherent(c), NEW i \in Handling,
         NEW j \in Calls, j # i
  PROVE  sent[j] = {} /\ received[j] = {}
<1>1. CASE ownTransaction
  BY <1>1 DEF Layer1, StorageTyped
<1>2. CASE numberOfWorkerThreads = 1
  BY <1>2 DEF Layer3, OneAtATime, TxInv, Handling
<1>3. QED
  BY <1>1, <1>2 DEF Coherent

LEMMA CommitMatches ==
  ASSUME Layer1, Layer3, NEW i \in Handling, CommitStorage(i),
         NEW c \in Clients, Coherent(c), Matches(c)
  PROVE  Matches(c)'
<1> USE DEF Layer1, StorageTyped
<1> i \in Calls
  BY DEF Handling
<1>1. /\ stored' = (stored \cup sent[i]) \ received[i]
      /\ sent' = [sent EXCEPT ![i] = {}]
      /\ received' = [received EXCEPT ![i] = {}]
      /\ entries' = entries /\ lookup' = lookup
  BY DEF CommitStorage, memoryVars
<1>2. \A j \in Calls : j # i => sent[j] = {} /\ received[j] = {}
  BY OthersEmpty
<1>3. Effective(c) = {x \in Messages : x[1] = c /\ x \in (stored \cup sent[i]) \ received[i]}
  BY <1>2 DEF Effective
<1>4. \A j \in Calls : sent'[j] = {} /\ received'[j] = {}
  BY <1>1, <1>2
<1>5. Effective(c)' = {x \in Messages : x[1] = c /\ x \in stored'}
  BY <1>4 DEF Effective
<1>6. MessagesOf(c)' = {x \in Messages : x[1] = c /\ x \in stored'}
  BY <1>1 DEF MessagesOf
<1>7. Effective(c)' = Effective(c) /\ MessagesOf(c)' = Effective(c)
  BY <1>1, <1>3, <1>5, <1>6
<1>8. \A x, y \in Effective(c) : x = y
  BY DEF Matches, NoMessage, OneMessage
<1>9. QED
  BY <1>1, <1>7, <1>8, MatchesWhen

(* What is rolled back belongs to another client.                          *)
LEMMA RollbackMatches ==
  ASSUME Layer1, Layer3, NEW i \in Calls, RollbackStorage(i),
         NEW c \in Clients, ownTransaction \/ Client(i) # c, Matches(c)
  PROVE  Matches(c)'
<1> USE DEF Layer1, StorageTyped
<1>1. /\ stored' = stored
      /\ sent' = [sent EXCEPT ![i] = {}]
      /\ received' = [received EXCEPT ![i] = {}]
      /\ entries' = entries /\ lookup' = lookup
  BY DEF RollbackStorage, memoryVars
<1>2. \A x : x[1] = c => x \notin sent[i] /\ x \notin received[i]
  BY DEF Layer3, TxInv
<1>3. \A x : x[1] = c => /\ (\E j \in Calls : x \in sent'[j]) <=> (\E j \in Calls : x \in sent[j])
                         /\ (\E j \in Calls : x \in received'[j])
                              <=> (\E j \in Calls : x \in received[j])
  BY <1>1, <1>2
<1>4. Effective(c)' = Effective(c)
  BY <1>1, <1>3 DEF Effective
<1>5. MessagesOf(c)' = MessagesOf(c)
  BY <1>1 DEF MessagesOf
<1>6. \A x, y \in MessagesOf(c)' : x = y
  BY <1>5 DEF Matches
<1>7. QED
  BY <1>1, <1>4, <1>6, MatchesWhen

LEMMA RestartMatches ==
  ASSUME Layer1, RestartStorage, NEW c \in Clients, Matches(c)
  PROVE  Matches(c)'
<1> USE DEF Layer1
<1>1. /\ stored' = stored
      /\ entries'[c] = Cardinality(MessagesOf(c))
      /\ \A v \in Versions : IF \E id \in Calls : <<c, v, id>> \in stored
                             THEN <<c, v, lookup'[<<c, v>>]>> \in stored
                             ELSE lookup'[<<c, v>>] = NoId
      /\ \A j \in Calls : sent'[j] = {} /\ received'[j] = {}
  BY UnicastBusAssumption DEF RestartStorage, Load
<1>2. MessagesOf(c)' = MessagesOf(c) /\ Effective(c)' = MessagesOf(c)
  BY <1>1 DEF Effective, MessagesOf, StorageTyped
<1>3. \A v \in Versions, id \in Calls : <<c, v, id>> \in stored => <<c, v, id>> \in MessagesOf(c)
  BY DEF MessagesOf
<1>4. CASE MessagesOf(c) = {}
  <2>1. entries'[c] = 0
    BY <1>1, <1>4, FS_EmptySet
  <2>2. \A v \in Versions : lookup'[<<c, v>>] = NoId
    BY <1>1, <1>3, <1>4
  <2>3. QED
    BY <1>2, <1>4, <2>1, <2>2 DEF Matches, NoMessage
<1>5. ASSUME NEW x \in MessagesOf(c) PROVE Matches(c)'
  <2>1. x \in Messages /\ x[1] = c /\ x \in stored
    BY <1>5 DEF MessagesOf, StorageTyped
  <2>2. /\ x[2] \in Versions /\ x[3] \in Calls
        /\ x = <<c, x[2], x[3]>>
    BY <2>1 DEF Messages
  <2>3. <<c, x[2], lookup'[<<c, x[2]>>]>> \in MessagesOf(c)
    BY <1>1, <2>1, <2>2 DEF MessagesOf
  <2>4. MessagesOf(c) = {x} /\ x = <<c, x[2], lookup'[<<c, x[2]>>]>>
    BY <1>5, <2>3 DEF Matches
  <2>5. \A w \in Versions \ {x[2]} : \A id \in Calls : <<c, w, id>> \notin stored
    BY <1>3, <2>2, <2>4
  <2>6. \A w \in Versions \ {x[2]} : lookup'[<<c, w>>] = NoId
    BY <1>1, <2>5
  <2>7. OneMessage(c, x[2])'
    BY <1>2, <2>4, <2>6 DEF OneMessage, Message
  <2>8. entries'[c] = 1
    BY <1>1, <2>4, FS_Singleton
  <2>9. QED
    BY <1>2, <2>2, <2>4, <2>7, <2>8 DEF Matches
<1>6. QED
  BY <1>4, <1>5

LEMMA MemoryWork ==
  ASSUME Layer1, Layer3, Named, MemoryInv, CallsKept, NEW i \in Calls, Work(i)
  PROVE  MemoryInv'
<1>1. UNCHANGED <<calls, configVars, ownTransaction>> /\ rolledBack \subseteq rolledBack'
  BY DEF Work, Receive, ForwardToErrorQueue, HandleMessage, HandleMessageThrows,
         Commit, Fail, clientVars, senderVars, threadVars, queueVars, storageVars,
         Subscribe, Unsubscribe, UnsubscribeThrows, CommitStorage, RollbackStorage
<1>2. \A j : Client(j)' = Client(j)
  BY <1>1 DEF Client
<1>3. CASE Receive(i) \/ ForwardToErrorQueue(i)
  BY <1>1, <1>3, MemoryUntouched DEF Receive, ForwardToErrorQueue
<1> SUFFICES ASSUME ~ (Receive(i) \/ ForwardToErrorQueue(i)),
                    NEW c \in Clients, Coherent(c)'
             PROVE  Matches(c)'
  BY <1>3 DEF MemoryInv
<1>4. Coherent(c)
  BY <1>1, CoherentBefore DEF configVars
<1>5. Matches(c)
  BY <1>4 DEF MemoryInv
<1>6. ASSUME i \in Handling PROVE i \in Made /\ Client(i) \in Clients /\ version[i] \in Versions
  BY <1>6, MadeFacts, ConfigFacts DEF Layer1, QueueTyped
<1>7. CASE HandleMessage(i)
  <2>1. step[i] = "received" /\ i \in Made /\ Client(i) \in Clients /\ version[i] \in Versions
    BY <1>6, <1>7 DEF HandleMessage, Handling
  <2>2. CASE Subscribe(i, Client(i), version[i], i)
    BY <1>4, <1>5, <2>1, <2>2, SubscribeMatches
  <2>3. CASE Intent(i) = "Unsubscribe" /\ Unsubscribe(i, Client(i), version[i])
    BY <1>4, <1>5, <2>1, <2>3, UnsubscribeMatches
  <2>4. CASE UNCHANGED storageVars
    BY <1>5, <2>4, MatchesKept DEF storageVars, memoryVars
  <2>5. QED
    BY <1>7, <2>2, <2>3, <2>4 DEF HandleMessage
<1>8. CASE HandleMessageThrows(i)
  <2>1. step[i] = "received" /\ i \in Made /\ Client(i) \in Clients /\ version[i] \in Versions
    BY <1>6, <1>8 DEF HandleMessageThrows, Handling
  <2>2. QED
    BY <1>4, <1>5, <1>8, <2>1, ThrowsMatches DEF HandleMessageThrows
<1>9. CASE Commit(i)
  BY <1>4, <1>5, <1>9, CommitMatches DEF Commit, Handling
<1>10. CASE Fail(i)
  <2>1. i \in rolledBack' /\ RollbackStorage(i)
    BY <1>10 DEF Fail
  <2>2. ownTransaction \/ Client(i) # c
    BY <1>1, <1>2, <2>1 DEF Coherent, Undisturbed
  <2>3. QED
    BY <1>5, <2>1, <2>2, RollbackMatches
<1>11. QED
  BY <1>7, <1>8, <1>9, <1>10 DEF Work

LEMMA MemoryStep == Layer1 /\ Layer3 /\ Named /\ MemoryInv /\ [Next]_vars => MemoryInv'
<1> SUFFICES ASSUME Layer1, Layer3, Named, MemoryInv, [Next]_vars PROVE MemoryInv'
  OBVIOUS
<1>1. CallsKept
  BY NextKeepsCalls
<1>2. ASSUME UNCHANGED <<storageVars, threadVars, rolledBack>> PROVE MemoryInv'
  BY <1>1, <1>2, MemoryUntouched DEF threadVars
<1>3. ASSUME NEW i \in Calls,
             SendSubscribeMessageWithRetries(i) \/ Register(i) \/ HandleReply(i)
      PROVE  MemoryInv'
  BY <1>2, <1>3 DEF SendSubscribeMessageWithRetries, Register, HandleReply,
                    HandleCorellatedMessage, EndReply, queueVars
<1>4. ASSUME NEW c \in Clients,
             CallSubscribe(c) \/ \E intent \in Intents : CallNow(intent, c)
      PROVE  MemoryInv'
  BY <1>2, <1>4 DEF CallSubscribe, CallNow, queueVars
<1>5. CASE CreateQueue \/ UNCHANGED vars
  BY <1>2, <1>5 DEF CreateQueue, vars, queueVars
<1>6. CASE Restart
  <2> SUFFICES ASSUME NEW c \in Clients, Coherent(c)' PROVE Matches(c)'
    BY DEF MemoryInv
  <2>1. /\ UNCHANGED <<ownTransaction, numberOfWorkerThreads, rolledBack>>
        /\ RestartStorage
    BY <1>6 DEF Restart, RestartStorage, configVars
  <2>2. Coherent(c)
    BY <1>1, <2>1, CoherentBefore
  <2>3. QED
    BY <2>1, <2>2, RestartMatches DEF MemoryInv
<1>7. QED
  BY <1>1, <1>3, <1>4, <1>5, <1>6, MemoryWork DEF Next

LEMMA MatchesQueue == Layer1 /\ Layer3 /\ MemoryInv => MemoryMatchesQueue
<1> SUFFICES ASSUME Layer1, Layer3, MemoryInv, NEW c \in Clients, OneVersion(c),
                    \/ ownTransaction
                    \/ numberOfWorkerThreads = 1 /\ Undisturbed(c) /\ ~ AtWork(c)
             PROVE  IF c \in GetSubscriberAddresses
                    THEN \E v \in Versions : MessagesOf(c) = {<<c, v, lookup[<<c, v>>]>>}
                    ELSE MessagesOf(c) = {}
  BY DEF MemoryMatchesQueue
<1>1. Matches(c)
  BY DEF MemoryInv, Coherent
<1>2. \A j \in Calls : \A x : x[1] = c => x \notin sent[j] /\ x \notin received[j]
  BY DEF Layer1, StorageTyped, Layer3, TxInv, AtWork, Handling
<1>3. MessagesOf(c) = Effective(c)
  BY <1>2 DEF Effective, MessagesOf, Layer1, StorageTyped
<1>4. QED
  BY <1>1, <1>3 DEF Matches, NoMessage, OneMessage, Message, GetSubscriberAddresses

(* With transactions of its own, or on a publisher with one thread while   *)
(* no attempt at a request has failed, the subscribers Publish reads are   *)
(* the ones whose message is in the storage queue.                         *)
THEOREM MemoryMatchesQueueCorrect == Spec => []MemoryMatchesQueue
<1> DEFINE Inv == Layer1 /\ Layer3 /\ Named /\ MemoryInv
<1>1. Init => Inv
  BY Layer1Init, Layer3Init, NamedInit, MemoryInit
<1>2. Inv /\ [Next]_vars => Inv'
  BY Layer1Step, Layer3Step, NamedStep, MemoryStep
<1>3. Inv => MemoryMatchesQueue
  BY MatchesQueue
<1>4. QED
  BY <1>1, <1>2, <1>3, PTL DEF Spec

-----------------------------------------------------------------------------
(* Layer 6: the messages leave the publisher's queue in the order they     *)
(* came in, one at a time if there is one thread.                          *)

Position == DOMAIN arrived

(* A call arrives once, and not when its client has given it up.           *)
Once ==
  /\ \A k, l \in Position : arrived[k] = arrived[l] => k = l
  /\ \A k \in Position : arrived[k] \notin background \cup givenUp
  /\ background \cap givenUp = {}

InTurn ==
  numberOfWorkerThreads = 1 =>
    \A k, l \in Position :
      k < l /\ arrived[l] \in settled \cup Handling => arrived[k] \in settled

Layer6 == Once /\ InTurn

LEMMA Layer6Init == Init => Layer6
<1> SUFFICES ASSUME Init PROVE Layer6
  OBVIOUS
<1>1. Position = {} /\ background = {} /\ givenUp = {}
  BY DEF Init, Position
<1>2. QED
  BY <1>1 DEF Layer6, Once, InTurn

(* What becomes of the queue when call i is sent.                          *)
LEMMA Positions ==
  ASSUME Layer1
  PROVE  /\ Position = 1..Len(arrived) /\ Len(arrived) \in Nat
         /\ \A k \in Position : arrived[k] \in Made /\ arrived[k] \in Calls
         /\ ToSet(arrived) = {arrived[k] : k \in Position}
<1>1. arrived \in Seq(Made)
  BY DEF Layer1, SenderTyped
<1>2. Position = 1..Len(arrived) /\ Len(arrived) \in Nat
  BY <1>1 DEF Position
<1>3. \A k \in Position : arrived[k] \in Made
  BY <1>1, <1>2, ElementOf
<1>4. Made \subseteq Calls
  BY MadeFacts DEF Layer1
<1>5. ToSet(arrived) = {arrived[k] : k \in Position}
  BY <1>1, <1>2 DEF ToSet
<1>6. QED
  BY <1>2, <1>3, <1>4, <1>5

LEMMA Arrival ==
  ASSUME Layer1, NEW i, Arrive(i)
  PROVE  /\ Len(arrived) + 1 \notin Position
         /\ Position' = Position \cup {Len(arrived) + 1}
         /\ \A k \in Position : arrived'[k] = arrived[k] /\ k < Len(arrived) + 1
         /\ arrived'[Len(arrived) + 1] = i
<1>1. arrived \in Seq(Made)
  BY DEF Layer1, SenderTyped
<1>2. arrived' = Append(arrived, i)
  BY DEF Arrive
<1>3. arrived' \in Seq(Made \cup {i}) /\ Len(arrived') = Len(arrived) + 1
  BY <1>1, <1>2
<1>4. Position = 1..Len(arrived) /\ Len(arrived) \in Nat
  BY <1>1 DEF Position
<1>5. Position' = 1..(Len(arrived) + 1)
  BY <1>3 DEF Position
<1>6. \A k \in 1..Len(arrived) : arrived'[k] = arrived[k]
  BY <1>1, <1>2
<1>7. arrived'[Len(arrived) + 1] = i
  BY <1>1, <1>2
<1>8. QED
  BY <1>4, <1>5, <1>6, <1>7

LEMMA Layer6Arrive ==
  ASSUME Layer1, Layer6, NEW i, Arrive(i), i \notin ToSet(arrived),
         i \notin background' \cup givenUp',
         background' \subseteq background \cup {i}, givenUp' = givenUp,
         UNCHANGED <<settled, step, numberOfWorkerThreads>>
  PROVE  Layer6'
<1> DEFINE n == Len(arrived) + 1
<1>1. /\ n \notin Position /\ Position' = Position \cup {n}
      /\ \A k \in Position : arrived'[k] = arrived[k] /\ k < n
      /\ arrived'[n] = i
  BY Arrival
<1>2. \A k \in Position : arrived[k] \in ToSet(arrived)
  BY Positions
<1>3. Position \subseteq Nat /\ n \in Nat
  BY Positions
<1>4. \A k \in Position : arrived[k] # i
  BY <1>2
<1> HIDE DEF n
<1>5. Once'
  BY <1>1, <1>4 DEF Layer6, Once
<1>6. i \notin settled \cup Handling
  BY DEF Layer1, QueueTyped
<1>7. Handling' = Handling
  BY DEF Handling
<1>8. InTurn'
  <2> SUFFICES ASSUME numberOfWorkerThreads = 1, NEW k \in Position', NEW l \in Position',
                      k < l, arrived'[l] \in settled \cup Handling
               PROVE  arrived'[k] \in settled
    BY <1>7 DEF InTurn
  <2>1. l \in Position
    BY <1>1, <1>6
  <2>2. k \in Position
    BY <1>1, <1>3, <2>1
  <2>3. QED
    BY <1>1, <2>1, <2>2 DEF Layer6, InTurn
<1>9. QED
  BY <1>5, <1>8 DEF Layer6

(* The first message nobody handles comes after nothing but settled ones.  *)
HeadAt(k) ==
  /\ k \in Position /\ arrived[k] \notin settled
  /\ \A l \in Position : l < k => arrived[l] \in settled

LEMMA NextIsHead ==
  ASSUME Layer1, Layer3, numberOfWorkerThreads = 1, NEW i \in Calls,
         Receive(i) \/ ForwardToErrorQueue(i)
  PROVE  Handling = {} /\ \E k \in Position : arrived[k] = i /\ HeadAt(k)
<1>1. Cardinality(Handling) < 1 /\ IsNext(i)
  BY DEF Receive, ForwardToErrorQueue
<1>2. Handling = {}
  BY <1>1, FinitelyHandled, FS_EmptySet
<1>3. PICK k \in DOMAIN arrived :
        /\ arrived[k] = i /\ InQueue(i)
        /\ \A j \in 1..k-1 : ~ InQueue(arrived[j])
  BY <1>1 DEF IsNext
<1>4. ASSUME NEW l \in Position, l < k PROVE arrived[l] \in settled
  <2>1. l \in 1..k-1 /\ arrived[l] \in Calls
    BY <1>3, <1>4, Positions DEF Position
  <2>2. ~ InQueue(arrived[l])
    BY <1>3, <2>1
  <2>3. step[arrived[l]] = "waiting"
    BY <1>2, <2>1 DEF Handling
  <2>4. QED
    BY <2>2, <2>3 DEF InQueue
<1>5. QED
  BY <1>2, <1>3, <1>4 DEF HeadAt, Position, InQueue

LEMMA HandledIsHead ==
  ASSUME Layer1, Layer6, numberOfWorkerThreads = 1, NEW i \in Handling
  PROVE  \E k \in Position : arrived[k] = i /\ HeadAt(k)
<1>1. i \in ToSet(arrived) \ settled
  BY DEF Layer1, QueueTyped
<1>2. PICK k \in Position : arrived[k] = i
  BY <1>1, Positions
<1>3. QED
  BY <1>1, <1>2 DEF Layer6, InTurn, HeadAt

(* There is one head, and nothing after it is settled.                     *)
LEMMA OneHead ==
  ASSUME Layer1, Layer6, NEW k, HeadAt(k), NEW l, HeadAt(l)
  PROVE  k = l
<1>1. k \in Position /\ l \in Position /\ Position \subseteq Nat
  BY Positions DEF HeadAt
<1>2. QED
  BY <1>1 DEF HeadAt

LEMMA AfterHead ==
  ASSUME Layer6, numberOfWorkerThreads = 1, NEW k, HeadAt(k), NEW l \in Position, k < l
  PROVE  arrived[l] \notin settled \cup Handling
  BY DEF Layer6, InTurn, HeadAt

LEMMA Layer6Settle ==
  ASSUME Layer1, Layer6, NEW i \in Calls,
         numberOfWorkerThreads = 1 => \E k \in Position : arrived[k] = i /\ HeadAt(k),
         settled' = settled \cup {i}, Handling' \subseteq Handling,
         UNCHANGED <<arrived, background, givenUp, numberOfWorkerThreads>>
  PROVE  Layer6'
<1>1. Position' = Position
  BY DEF Position
<1>2. Once'
  BY <1>1 DEF Layer6, Once
<1>3. ASSUME numberOfWorkerThreads = 1 PROVE InTurn'
  <2>1. PICK k \in Position : arrived[k] = i /\ HeadAt(k)
    BY <1>3
  <2>2. \A l \in Position : arrived[l] = i => l = k
    BY <2>1 DEF Layer6, Once
  <2>3. QED
    BY <1>1, <1>3, <2>1, <2>2 DEF InTurn, Layer6, HeadAt
<1>4. QED
  BY <1>2, <1>3 DEF Layer6, InTurn

LEMMA Layer6Work ==
  ASSUME Layer1, Layer3, Layer6, NEW i \in Calls, Work(i)
  PROVE  Layer6'
<1>1. UNCHANGED <<arrived, background, givenUp, numberOfWorkerThreads>>
  BY DEF Work, Receive, ForwardToErrorQueue, HandleMessage, HandleMessageThrows,
         Commit, Fail, clientVars, senderVars, queueVars, threadVars, configVars
<1>2. Position' = Position
  BY <1>1 DEF Position
<1>3. ASSUME settled' = settled, Handling' \subseteq Handling PROVE Layer6'
  BY <1>1, <1>2, <1>3 DEF Layer6, Once, InTurn
<1>4. CASE Receive(i)
  <2>1. settled' = settled /\ Handling' = Handling \cup {i}
    <3>1. step' = [step EXCEPT ![i] = "received"] /\ settled' = settled
      BY <1>4 DEF Receive, Goto, queueVars
    <3>2. QED
      BY <3>1 DEF Handling, Layer1, QueueTyped
  <2>2. Once'
    BY <1>1, <1>2 DEF Layer6, Once
  <2>3. ASSUME numberOfWorkerThreads = 1 PROVE InTurn'
    <3>1. PICK k \in Position : arrived[k] = i /\ HeadAt(k)
      BY <1>4, <2>3, NextIsHead
    <3>2. \A l \in Position : arrived[l] = i => l = k
      BY <3>1 DEF Layer6, Once
    <3>3. QED
      BY <1>1, <1>2, <2>1, <2>3, <3>1, <3>2 DEF InTurn, Layer6, HeadAt
  <2>4. QED
    BY <1>1, <2>2, <2>3 DEF Layer6, InTurn
<1>5. CASE ForwardToErrorQueue(i)
  <2>1. settled' = settled \cup {i} /\ Handling' = Handling
    BY <1>5 DEF ForwardToErrorQueue, threadVars, Handling
  <2>2. QED
    BY <1>1, <1>5, <2>1, NextIsHead, Layer6Settle
<1>6. CASE HandleMessage(i) \/ HandleMessageThrows(i)
  <2>1. /\ settled' = settled /\ step[i] = "received"
        /\ step' = [step EXCEPT ![i] = "handled"] \/ step' = [step EXCEPT ![i] = "failed"]
    BY <1>6 DEF HandleMessage, HandleMessageThrows, Goto, queueVars
  <2>2. Handling' = Handling
    BY <2>1 DEF Handling, Layer1, QueueTyped
  <2>3. QED
    BY <1>3, <2>1, <2>2
<1>7. CASE Commit(i) \/ Fail(i)
  <2>1. /\ step[i] # "waiting" /\ step' = [step EXCEPT ![i] = "waiting"]
        /\ settled' = settled \cup {i} \/ settled' = settled
    BY <1>7 DEF Commit, Fail, Goto
  <2>2. Handling' \subseteq Handling /\ i \in Handling
    BY <2>1 DEF Handling, Layer1, QueueTyped
  <2>3. QED
    BY <1>1, <1>3, <2>1, <2>2, HandledIsHead, Layer6Settle
<1>8. QED
  BY <1>4, <1>5, <1>6, <1>7 DEF Work

LEMMA Layer6Step == Layer1 /\ Layer3 /\ Layer6 /\ [Next]_vars => Layer6'
<1> SUFFICES ASSUME Layer1, Layer3, Layer6, [Next]_vars PROVE Layer6'
  OBVIOUS
<1>1. ASSUME UNCHANGED <<arrived, background, givenUp, settled, threadVars>> PROVE Layer6'
  <2>1. Position' = Position /\ Handling' = Handling
    BY <1>1 DEF Position, Handling, threadVars
  <2>2. QED
    BY <1>1, <2>1 DEF Layer6, Once, InTurn, threadVars, configVars
<1>2. /\ Len(calls) + 1 \notin Made
      /\ background \subseteq Made /\ givenUp \subseteq Made /\ ToSet(arrived) \subseteq Made
  BY MadeFacts DEF Layer1, SenderTyped, Made
<1>3. ASSUME NEW c \in Clients, CallSubscribe(c) PROVE Layer6'
  <2>1. /\ background' = background \cup {Len(calls) + 1} /\ givenUp' = givenUp
        /\ UNCHANGED <<arrived, settled, threadVars>>
    BY <1>3 DEF CallSubscribe, Call, queueVars
  <2>2. \A k \in Position : arrived[k] # Len(calls) + 1
    BY <1>2, Positions
  <2>3. Position' = Position /\ Handling' = Handling
    BY <2>1 DEF Position, Handling, threadVars
  <2>4. QED
    BY <1>2, <2>1, <2>2, <2>3 DEF Layer6, Once, InTurn, threadVars, configVars
<1>4. ASSUME NEW c \in Clients, NEW intent \in Intents, CallNow(intent, c) PROVE Layer6'
  BY <1>2, <1>4, Layer6Arrive DEF CallNow, Call, threadVars, configVars
<1>5. ASSUME NEW i \in Calls, SendSubscribeMessageWithRetries(i) PROVE Layer6'
  <2>1. i \in background /\ UNCHANGED <<settled, threadVars>>
    BY <1>5 DEF SendSubscribeMessageWithRetries
  <2>2. i \notin givenUp /\ i \notin ToSet(arrived)
    BY <2>1, Positions DEF Layer6, Once
  <2>3. CASE Arrive(i) /\ background' = background \ {i} /\ givenUp' = givenUp
    BY <2>1, <2>2, <2>3, Layer6Arrive DEF threadVars, configVars
  <2>4. CASE arrived' = arrived /\ background' = background /\ givenUp' = givenUp
    BY <1>1, <2>1, <2>4
  <2>5. CASE arrived' = arrived /\ background' = background \ {i} /\ givenUp' = givenUp \cup {i}
    <3>1. Position' = Position /\ Handling' = Handling
      BY <2>1, <2>5 DEF Position, Handling, threadVars
    <3>2. \A k \in Position : arrived[k] # i
      BY <2>2, Positions
    <3>3. QED
      BY <2>1, <2>2, <2>5, <3>1, <3>2 DEF Layer6, Once, InTurn, threadVars, configVars
  <2>6. QED
    BY <1>5, <2>3, <2>4, <2>5 DEF SendSubscribeMessageWithRetries
<1>6. ASSUME NEW i \in Calls, Register(i) \/ HandleReply(i) PROVE Layer6'
  BY <1>1, <1>6 DEF Register, HandleReply, HandleCorellatedMessage, EndReply, senderVars,
                    queueVars
<1>7. CASE CreateQueue \/ UNCHANGED vars
  BY <1>1, <1>7 DEF CreateQueue, vars, senderVars, queueVars
<1>8. CASE Restart
  <2>1. /\ UNCHANGED <<arrived, background, givenUp, settled, numberOfWorkerThreads>>
        /\ Handling' = {}
    BY <1>8 DEF Restart, clientVars, senderVars, configVars, Handling
  <2>2. Position' = Position
    BY <2>1 DEF Position
  <2>3. QED
    BY <2>1, <2>2 DEF Layer6, Once, InTurn
<1>9. QED
  BY <1>3, <1>4, <1>5, <1>6, <1>7, <1>8, Layer6Work DEF Next

-----------------------------------------------------------------------------
(* Layer 7: the list of the publisher follows the requests that have left  *)
(* its queue, or is ahead of them by the request at the head, and so does  *)
(* the storage queue when it is all a restart leaves.                      *)

(* A request that says whether client c is a subscriber.                   *)
Decides(i, c) == Intent(i) # "Send" /\ Client(i) = c /\ Allowed(i)

IsSubscribe(i) == Intent(i) = "Subscribe"

(* The last one that was settled asked for a subscription.                 *)
SettledLast(k, c) ==
  /\ k \in Position /\ arrived[k] \in settled /\ Decides(arrived[k], c)
  /\ \A l \in Position : l > k /\ Decides(arrived[l], c) => arrived[l] \notin settled

Subscribed(c) == \E k : SettledLast(k, c) /\ IsSubscribe(arrived[k])

(* No deciding request was given up by the transport, and no restart has   *)
(* found the storage queue behind the list.                                *)
Followed(c) ==
  /\ numberOfWorkerThreads = 1
  /\ \A i \in dead : ~ Decides(i, c)
  /\ restarts = 0 \/ (OneVersion(c) /\ (ownTransaction \/ Undisturbed(c)))

InList(c) == entries[c] > 0

Handled ==
  \A i \in Calls, c \in Clients :
    numberOfWorkerThreads = 1 /\ step[i] = "handled" /\ Decides(i, c)
      => (InList(c) <=> IsSubscribe(i))

ListFollows(c) ==
  \/ InList(c) <=> Subscribed(c)
  \/ \E k : /\ HeadAt(k) /\ Decides(arrived[k], c)
            /\ InList(c) <=> IsSubscribe(arrived[k])

QueueFollows(c) == MessagesOf(c) # {} <=> Subscribed(c)

Layer7 ==
  /\ Handled
  /\ \A c \in Clients : Followed(c) => ListFollows(c)
  /\ \A c \in Clients :
       Followed(c) /\ Coherent(c) /\ ~ ownTransaction => QueueFollows(c)

LEMMA Layer7Init == Init => Layer7
<1> SUFFICES ASSUME Init PROVE Layer7
  OBVIOUS
<1>1. Position = {} /\ stored = {}
  BY DEF Init, InitStorage, Position
<1>2. \A c : ~ Subscribed(c)
  BY <1>1 DEF Subscribed, SettledLast
<1>3. \A c \in Clients : ~ InList(c) /\ MessagesOf(c) = {}
  BY <1>1 DEF Init, InitStorage, InList, MessagesOf
<1>4. Handled
  BY DEF Init, Handled
<1>5. QED
  BY <1>2, <1>3, <1>4 DEF Layer7, ListFollows, QueueFollows

(* What the requests were stays what they were, and no client of which the *)
(* invariant speaks is added.                                              *)
RequestsKept ==
  \A i \in Made, c \in Clients :
    /\ Decides(i, c)' <=> Decides(i, c)
    /\ IsSubscribe(i)' <=> IsSubscribe(i)

LEMMA NextKeepsRequests ==
  Layer1 /\ [Next]_vars
    => RequestsKept /\ UNCHANGED configVars /\ ownTransaction' = ownTransaction
<1> SUFFICES ASSUME Layer1, [Next]_vars
             PROVE  RequestsKept /\ UNCHANGED configVars /\ ownTransaction' = ownTransaction
  OBVIOUS
<1>1. CallsKept
  BY NextKeepsCalls
<1>2. ASSUME UNCHANGED <<storageVars, threadVars>>
      PROVE  UNCHANGED configVars /\ ownTransaction' = ownTransaction
  BY <1>2 DEF storageVars, threadVars
<1>3. ASSUME NEW i \in Calls, Work(i)
      PROVE  UNCHANGED configVars /\ ownTransaction' = ownTransaction
  BY <1>3 DEF Work, Receive, ForwardToErrorQueue, HandleMessage, HandleMessageThrows,
         Commit, Fail, clientVars, senderVars, threadVars, queueVars, storageVars,
         Subscribe, Unsubscribe, UnsubscribeThrows, CommitStorage, RollbackStorage
<1>4. ASSUME Restart PROVE UNCHANGED configVars /\ ownTransaction' = ownTransaction
  BY <1>4 DEF Restart, RestartStorage
<1>5. UNCHANGED configVars /\ ownTransaction' = ownTransaction
  BY <1>2, <1>3, <1>4 DEF Next, CallSubscribe, CallNow, SendSubscribeMessageWithRetries,
     Register, HandleReply, HandleCorellatedMessage, EndReply, CreateQueue, vars, threadVars
<1>6. RequestsKept
  BY <1>1, <1>5 DEF RequestsKept, CallsKept, Decides, IsSubscribe, Allowed, configVars
<1>7. QED
  BY <1>5, <1>6

LEMMA FollowedBefore ==
  ASSUME Layer1, NEW c \in Clients, Followed(c)', CallsKept, RequestsKept,
         UNCHANGED <<configVars, ownTransaction>>,
         rolledBack \subseteq rolledBack', dead \subseteq dead',
         restarts' = restarts \/ restarts' = restarts + 1
  PROVE  Followed(c)
<1>1. rolledBack \subseteq Made /\ dead \subseteq Made
  BY MadeFacts DEF Layer1, QueueTyped
<1>2. numberOfWorkerThreads = 1
  BY DEF Followed, configVars
<1>3. \A i \in dead : ~ Decides(i, c)
  BY <1>1 DEF Followed, RequestsKept
<1>4. restarts \in Nat
  BY DEF Layer1, QueueTyped
<1>5. restarts' = 0 => restarts = 0
  BY <1>4
<1>6. Undisturbed(c)' => Undisturbed(c)
  BY <1>1 DEF Undisturbed, CallsKept
<1>7. OneVersion(c)' => OneVersion(c)
  BY DEF OneVersion, CallsKept
<1>8. QED
  BY <1>2, <1>3, <1>5, <1>6, <1>7 DEF Followed

(* What a step does to Subscribed and to the head of the queue.            *)
LEMMA SameQueue ==
  ASSUME Layer1, RequestsKept, UNCHANGED <<arrived, settled>>, NEW c \in Clients
  PROVE  /\ Subscribed(c)' <=> Subscribed(c)
         /\ \A k : HeadAt(k) => /\ HeadAt(k)'
                                /\ Decides(arrived[k], c)' <=> Decides(arrived[k], c)
                                /\ IsSubscribe(arrived[k])' <=> IsSubscribe(arrived[k])
<1>1. Position' = Position /\ \A k \in Position : arrived[k] \in Made
  BY Positions DEF Position
<1>2. \A k : SettledLast(k, c)' <=> SettledLast(k, c)
  BY <1>1 DEF SettledLast, RequestsKept
<1>3. \A k : HeadAt(k)' <=> HeadAt(k)
  BY <1>1 DEF HeadAt
<1>4. \A k \in Position : /\ Decides(arrived[k], c)' <=> Decides(arrived[k], c)
                          /\ IsSubscribe(arrived[k])' <=> IsSubscribe(arrived[k])
  BY <1>1 DEF RequestsKept
<1>5. QED
  BY <1>1, <1>2, <1>3, <1>4 DEF Subscribed, SettledLast, HeadAt

LEMMA LongerQueue ==
  ASSUME Layer1, RequestsKept, NEW i, Arrive(i), i \notin ToSet(arrived),
         settled' = settled, NEW c \in Clients
  PROVE  /\ Subscribed(c)' <=> Subscribed(c)
         /\ \A k : HeadAt(k) => /\ HeadAt(k)' /\ arrived'[k] = arrived[k]
                                /\ Decides(arrived[k], c)' <=> Decides(arrived[k], c)
                                /\ IsSubscribe(arrived[k])' <=> IsSubscribe(arrived[k])
<1> SUFFICES ASSUME NEW n, n = Len(arrived) + 1
             PROVE  /\ Subscribed(c)' <=> Subscribed(c)
                    /\ \A k : HeadAt(k) =>
                         /\ HeadAt(k)' /\ arrived'[k] = arrived[k]
                         /\ Decides(arrived[k], c)' <=> Decides(arrived[k], c)
                         /\ IsSubscribe(arrived[k])' <=> IsSubscribe(arrived[k])
  OBVIOUS
<1>1. /\ n \notin Position /\ Position' = Position \cup {n}
      /\ \A k \in Position : arrived'[k] = arrived[k] /\ k < n
      /\ arrived'[n] = i
  BY Arrival
<1>2. Position \subseteq Nat /\ n \in Nat /\ \A k \in Position : arrived[k] \in Made
  BY Positions
<1>3. i \notin settled
  BY DEF Layer1, QueueTyped
<1>4. \A k \in Position : /\ Decides(arrived[k], c)' <=> Decides(arrived[k], c)
                          /\ IsSubscribe(arrived[k])' <=> IsSubscribe(arrived[k])
  <2> SUFFICES ASSUME NEW k \in Position, NEW j \in Made, j = arrived[k]
               PROVE  /\ Decides(arrived[k], c)' <=> Decides(arrived[k], c)
                      /\ IsSubscribe(arrived[k])' <=> IsSubscribe(arrived[k])
    BY <1>2
  <2>1. arrived'[k] = j
    BY <1>1
  <2>2. Decides(j, c)' <=> Decides(j, c)
    BY DEF RequestsKept
  <2>3. IsSubscribe(j)' <=> IsSubscribe(j)
    BY DEF RequestsKept
  <2>4. QED
    BY <2>1, <2>2, <2>3 DEF Decides, IsSubscribe, Intent, Client, Allowed
<1>5. \A k \in Position : SettledLast(k, c)' <=> SettledLast(k, c)
  BY <1>1, <1>3, <1>4 DEF SettledLast
<1>6. ~ SettledLast(n, c)'
  BY <1>1, <1>3 DEF SettledLast
<1>7. Subscribed(c)' <=> Subscribed(c)
  <2>1. \A k : SettledLast(k, c) => k \in Position
    BY DEF SettledLast
  <2>2. \A k : SettledLast(k, c)' => k \in Position
    BY <1>1, <1>6 DEF SettledLast
  <2>3. QED
    BY <1>4, <1>5, <2>1, <2>2 DEF Subscribed
<1>8. \A k : HeadAt(k) => HeadAt(k)'
  BY <1>1, <1>2 DEF HeadAt
<1>9. QED
  BY <1>1, <1>4, <1>7, <1>8 DEF HeadAt

LEMMA HeadSettled ==
  ASSUME Layer1, Layer6, numberOfWorkerThreads = 1, NEW k, HeadAt(k),
         settled' = settled \cup {arrived[k]}, UNCHANGED <<arrived, calls, configVars>>,
         NEW c \in Clients
  PROVE  /\ Decides(arrived[k], c) => (Subscribed(c)' <=> IsSubscribe(arrived[k]))
         /\ ~ Decides(arrived[k], c) => (Subscribed(c)' <=> Subscribed(c))
<1>1. Position' = Position /\ Position \subseteq Nat /\ k \in Position
  BY Positions DEF Position, HeadAt
<1>2. \A i : /\ Decides(i, c)' <=> Decides(i, c)
             /\ IsSubscribe(i)' <=> IsSubscribe(i)
  BY DEF Decides, IsSubscribe, Intent, Client, Allowed, configVars
<1>3. \A l \in Position : arrived[l] = arrived[k] => l = k
  BY <1>1 DEF Layer6, Once
<1>4. \A l \in Position : l < k => arrived[l] \in settled
  BY DEF HeadAt
<1>5. \A l \in Position : l > k => arrived[l] \notin settled
  BY <1>1, AfterHead
<1>6. ASSUME Decides(arrived[k], c) PROVE Subscribed(c)' <=> IsSubscribe(arrived[k])
  <2>1. \A l \in Position : l > k => arrived[l] \notin settled'
    BY <1>1, <1>3, <1>5
  <2>2. SettledLast(k, c)'
    BY <1>1, <1>2, <1>6, <2>1 DEF SettledLast
  <2>3. \A l : SettledLast(l, c)' => l = k
    <3> SUFFICES ASSUME NEW l, SettledLast(l, c)' PROVE l = k
      OBVIOUS
    <3>1. l \in Position /\ arrived[l] \in settled'
      BY <1>1 DEF SettledLast
    <3>2. ~ (l > k)
      BY <2>1, <3>1
    <3>3. ~ (k > l)
      BY <1>1, <1>2, <1>6 DEF SettledLast
    <3>4. QED
      BY <1>1, <3>1, <3>2, <3>3
  <2>4. QED
    BY <1>2, <2>2, <2>3 DEF Subscribed
<1>7. ASSUME ~ Decides(arrived[k], c) PROVE Subscribed(c)' <=> Subscribed(c)
  <2>1. \A l : SettledLast(l, c)' <=> SettledLast(l, c)
    BY <1>1, <1>2, <1>3, <1>7 DEF SettledLast
  <2>2. QED
    BY <1>2, <2>1 DEF Subscribed
<1>8. QED
  BY <1>6, <1>7

(* The head of the queue leaves it and the list stays: it had been         *)
(* followed, or it does not decide.                                        *)
LEMMA FollowsSettled ==
  ASSUME Layer1, Layer6, numberOfWorkerThreads = 1, NEW k, HeadAt(k),
         settled' = settled \cup {arrived[k]}, UNCHANGED <<arrived, calls, configVars, entries>>,
         NEW c \in Clients,
         IF Decides(arrived[k], c) THEN InList(c) <=> IsSubscribe(arrived[k])
         ELSE ListFollows(c)
  PROVE  InList(c)' <=> Subscribed(c)'
<1>1. InList(c)' <=> InList(c)
  BY DEF InList
<1>2. ASSUME ~ Decides(arrived[k], c) PROVE InList(c) <=> Subscribed(c)
  <2>1. \A l : HeadAt(l) => l = k
    BY OneHead
  <2>2. QED
    BY <1>2, <2>1 DEF ListFollows
<1>3. QED
  BY <1>1, <1>2, HeadSettled

(* The handling of the request at the head.                                *)
LEMMA ListAfter ==
  ASSUME Layer1, NEW i \in Calls, i \in Made, Client(i) \in Clients,
         HandleMessage(i), NEW c \in Clients
  PROVE  IF Decides(i, c) THEN InList(c)' <=> IsSubscribe(i)
         ELSE InList(c)' <=> InList(c)
<1> USE DEF Layer1, StorageTyped, InList
<1>1. Intent(i) \in Intents
  BY MadeFacts
<1>2. CASE UNCHANGED storageVars /\ (Intent(i) = "Send" \/ ~ Allowed(i))
  BY <1>2 DEF storageVars, memoryVars, Decides
<1>3. CASE /\ Intent(i) = "Subscribe" /\ Allowed(i)
           /\ Subscribe(i, Client(i), version[i], i)
  <2>1. \/ entries[Client(i)] > 0 /\ entries' = entries
        \/ entries' = [entries EXCEPT ![Client(i)] = @ + 1]
    BY <1>3 DEF Subscribe, memoryVars
  <2>2. entries[Client(i)] + 1 > 0
    OBVIOUS
  <2>3. QED
    BY <1>3, <2>1, <2>2 DEF Decides, IsSubscribe
<1>4. CASE /\ Intent(i) = "Unsubscribe" /\ Allowed(i)
           /\ Unsubscribe(i, Client(i), version[i])
  <2>1. \/ ~ (entries[Client(i)] > 0) /\ entries' = entries
        \/ entries' = [entries EXCEPT ![Client(i)] = 0]
    BY <1>4 DEF Unsubscribe, memoryVars
  <2>2. QED
    BY <1>4, <2>1 DEF Decides, IsSubscribe
<1>5. QED
  BY <1>2, <1>3, <1>4 DEF HandleMessage

(* A request that is handled is the one the list follows.                  *)
LEMMA HandledStep ==
  ASSUME Layer1, Layer3, Layer7, NEW i \in Calls, Work(i)
  PROVE  Handled'
<1>1. UNCHANGED <<calls, configVars>>
  BY DEF Work, Receive, ForwardToErrorQueue, HandleMessage, HandleMessageThrows,
         Commit, Fail, clientVars, senderVars, threadVars
<1>2. \A j, c : /\ Decides(j, c)' <=> Decides(j, c)
                /\ IsSubscribe(j)' <=> IsSubscribe(j)
  BY <1>1 DEF Decides, IsSubscribe, Intent, Client, Allowed, configVars
<1> SUFFICES ASSUME NEW j \in Calls, NEW c \in Clients, numberOfWorkerThreads = 1,
                    step'[j] = "handled", Decides(j, c)
             PROVE  InList(c)' <=> IsSubscribe(j)
  BY <1>1, <1>2 DEF Handled, configVars
<1>3. CASE HandleMessage(i)
  <2>1. step[i] = "received" /\ step' = [step EXCEPT ![i] = "handled"]
    BY <1>3 DEF HandleMessage, Goto
  <2>2. i \in Handling /\ j \in Handling
    BY <2>1 DEF Handling, Layer1, QueueTyped
  <2>3. j = i
    BY <2>2 DEF Layer3, OneAtATime
  <2>4. i \in Made /\ Client(i) \in Clients
    BY <2>2, MadeFacts DEF Layer1, QueueTyped
  <2>5. QED
    BY <1>3, <2>3, <2>4, ListAfter
<1>4. CASE ~ HandleMessage(i)
  <2>1. entries' = entries /\ step[j] = "handled"
    <3>1. CASE Receive(i) \/ ForwardToErrorQueue(i)
      BY <3>1 DEF Receive, ForwardToErrorQueue, storageVars, memoryVars, Goto,
                  threadVars, Layer1, QueueTyped
    <3>2. CASE HandleMessageThrows(i)
      BY <3>2 DEF HandleMessageThrows, UnsubscribeThrows, Goto, Layer1, QueueTyped
    <3>3. CASE Commit(i) \/ Fail(i)
      BY <3>3 DEF Commit, Fail, CommitStorage, RollbackStorage, memoryVars, Goto, Layer1,
                  QueueTyped
    <3>4. QED
      BY <1>4, <3>1, <3>2, <3>3 DEF Work
  <2>2. InList(c)' <=> InList(c)
    BY <2>1 DEF InList
  <2>3. QED
    BY <2>1, <2>2 DEF Layer7, Handled
<1>5. QED
  BY <1>3, <1>4

LEMMA ListKept ==
  ASSUME Layer1, RequestsKept, UNCHANGED <<arrived, settled>>, NEW c \in Clients,
         InList(c)' <=> InList(c), ListFollows(c)
  PROVE  ListFollows(c)'
<1>1. /\ Subscribed(c)' <=> Subscribed(c)
      /\ \A k : HeadAt(k) => /\ HeadAt(k)'
                             /\ Decides(arrived[k], c)' <=> Decides(arrived[k], c)
                             /\ IsSubscribe(arrived[k])' <=> IsSubscribe(arrived[k])
  BY SameQueue
<1>2. QED
  BY <1>1 DEF ListFollows

Layers == Layer1 /\ Layer3 /\ Named /\ MemoryInv /\ Layer6

LEMMA LayersStep == Layers /\ [Next]_vars => Layers'
  BY Layer1Step, Layer3Step, NamedStep, MemoryStep, Layer6Step DEF Layers

LEMMA MatchesQueueNext == Layer1' /\ Layer3' /\ MemoryInv' => MemoryMatchesQueue'
  BY MatchesQueue, PTL

(* A step of the thread, for a client the invariant speaks of after it.    *)
LEMMA FollowsWork ==
  ASSUME Layers, Layer7, NEW i \in Calls, Work(i),
         NEW c \in Clients, Followed(c)', Followed(c), RequestsKept
  PROVE  /\ ListFollows(c)'
         /\ Commit(i) => (InList(c)' <=> Subscribed(c)')
<1> USE DEF Layers
<1>1. ListFollows(c) /\ numberOfWorkerThreads = 1
  BY DEF Layer7, Followed
<1>2. /\ UNCHANGED <<calls, configVars, arrived>>
  BY DEF Work, Receive, ForwardToErrorQueue, HandleMessage, HandleMessageThrows,
         Commit, Fail, clientVars, senderVars, threadVars, queueVars
<1>3. CASE Receive(i) \/ HandleMessageThrows(i) \/ Fail(i)
  <2>1. entries' = entries /\ settled' = settled
    BY <1>3 DEF Receive, HandleMessageThrows, Fail, storageVars, memoryVars, queueVars,
                UnsubscribeThrows, RollbackStorage
  <2>2. ~ Commit(i)
    BY <1>3 DEF Commit, Receive, HandleMessageThrows, Fail, IsNext, InQueue, Goto,
                Layer1, QueueTyped
  <2>3. InList(c)' <=> InList(c)
    BY <2>1 DEF InList
  <2>4. QED
    BY <1>1, <1>2, <2>1, <2>2, <2>3, ListKept
<1>4. CASE HandleMessage(i)
  <2>1. /\ step[i] = "received" /\ settled' = settled
        /\ i \in Handling /\ i \in Made /\ Client(i) \in Clients
    BY <1>4, MadeFacts DEF HandleMessage, Handling, Layer1, QueueTyped, queueVars
  <2>2. ~ Commit(i)
    BY <2>1 DEF Commit
  <2>3. CASE Decides(i, c)
    <3>1. InList(c)' <=> IsSubscribe(i)
      BY <1>4, <2>1, <2>3, ListAfter
    <3>2. PICK k \in Position : arrived[k] = i /\ HeadAt(k)
      BY <1>1, <2>1, HandledIsHead
    <3>3. /\ HeadAt(k)'
          /\ Decides(arrived[k], c)' <=> Decides(arrived[k], c)
          /\ IsSubscribe(arrived[k])' <=> IsSubscribe(arrived[k])
      BY <1>2, <2>1, <3>2, SameQueue
    <3>4. QED
      BY <2>2, <2>3, <3>1, <3>2, <3>3 DEF ListFollows
  <2>4. CASE ~ Decides(i, c)
    BY <1>1, <1>2, <1>4, <2>1, <2>2, <2>4, ListAfter, ListKept
  <2>5. QED
    BY <2>3, <2>4
<1>5. CASE ForwardToErrorQueue(i)
  <2>1. /\ settled' = settled \cup {i} /\ i \in dead' /\ entries' = entries
    BY <1>5 DEF ForwardToErrorQueue, storageVars, memoryVars
  <2>2. ~ Decides(i, c)
    <3>1. Decides(i, c)' <=> Decides(i, c)
      BY <1>2 DEF Decides, Intent, Client, Allowed, configVars
    <3>2. QED
      BY <2>1, <3>1 DEF Followed
  <2>3. PICK k \in Position : arrived[k] = i /\ HeadAt(k)
    BY <1>1, <1>5, NextIsHead
  <2>4. InList(c)' <=> Subscribed(c)'
    BY <1>1, <1>2, <2>1, <2>2, <2>3, FollowsSettled
  <2>5. QED
    BY <2>4 DEF ListFollows
<1>6. CASE Commit(i)
  <2>1. /\ settled' = settled \cup {i} /\ entries' = entries /\ step[i] = "handled"
        /\ i \in Handling
    BY <1>6 DEF Commit, CommitStorage, memoryVars, Handling
  <2>2. PICK k \in Position : arrived[k] = i /\ HeadAt(k)
    BY <1>1, <2>1, HandledIsHead
  <2>3. Decides(i, c) => (InList(c) <=> IsSubscribe(i))
    BY <1>1, <2>1 DEF Layer7, Handled
  <2>4. InList(c)' <=> Subscribed(c)'
    BY <1>1, <1>2, <2>1, <2>2, <2>3, FollowsSettled
  <2>5. QED
    BY <2>4 DEF ListFollows
<1>7. QED
  BY <1>3, <1>4, <1>5, <1>6 DEF Work

(* The storage queue follows when the thread commits: then it has what the *)
(* list says.                                                              *)
LEMMA QueueFollowsWork ==
  ASSUME Layers, Layer7, NEW i \in Calls, Work(i), Layers',
         NEW c \in Clients, Followed(c)', Followed(c), RequestsKept,
         Coherent(c)', Coherent(c), ~ ownTransaction
  PROVE  QueueFollows(c)'
<1> USE DEF Layers
<1>1. QueueFollows(c) /\ numberOfWorkerThreads = 1
  BY DEF Layer7, Followed
<1>2. UNCHANGED <<calls, configVars, arrived>>
  BY DEF Work, Receive, ForwardToErrorQueue, HandleMessage, HandleMessageThrows,
         Commit, Fail, clientVars, senderVars, threadVars, queueVars
<1>3. CASE Receive(i) \/ HandleMessageThrows(i) \/ Fail(i) \/ HandleMessage(i)
  <2>1. settled' = settled
    BY <1>3 DEF Receive, HandleMessageThrows, Fail, HandleMessage, queueVars
  <2>2. stored' = stored
    BY <1>3 DEF Receive, HandleMessageThrows, Fail, HandleMessage, storageVars,
                UnsubscribeThrows, RollbackStorage, Subscribe, Add, Unsubscribe,
                RemoveMessage, txVars
  <2>3. MessagesOf(c)' = MessagesOf(c)
    BY <2>2 DEF MessagesOf
  <2>4. QED
    BY <1>1, <1>2, <2>1, <2>3, SameQueue DEF QueueFollows
<1>4. CASE ForwardToErrorQueue(i)
  <2>1. /\ settled' = settled \cup {i} /\ i \in dead' /\ stored' = stored
    BY <1>4 DEF ForwardToErrorQueue, storageVars
  <2>2. ~ Decides(i, c)
    <3>1. Decides(i, c)' <=> Decides(i, c)
      BY <1>2 DEF Decides, Intent, Client, Allowed, configVars
    <3>2. QED
      BY <2>1, <3>1 DEF Followed
  <2>3. PICK k \in Position : arrived[k] = i /\ HeadAt(k)
    BY <1>1, <1>4, NextIsHead
  <2>4. Subscribed(c)' <=> Subscribed(c)
    BY <1>1, <1>2, <2>1, <2>2, <2>3, HeadSettled
  <2>5. MessagesOf(c)' = MessagesOf(c)
    BY <2>1 DEF MessagesOf
  <2>6. QED
    BY <1>1, <2>4, <2>5 DEF QueueFollows
<1>5. CASE Commit(i)
  <2>1. InList(c)' <=> Subscribed(c)'
    BY <1>5, FollowsWork
  <2>2. Handling' = {}
    <3>1. step[i] = "handled" /\ step' = [step EXCEPT ![i] = "waiting"]
      BY <1>5 DEF Commit, Goto
    <3>2. \A j \in Handling : j = i
      BY <1>1, <3>1 DEF Layer3, OneAtATime, Handling
    <3>3. QED
      BY <3>1, <3>2 DEF Handling, Layer1, QueueTyped
  <2>3. ~ AtWork(c)'
    BY <2>2 DEF AtWork
  <2>4. MemoryMatchesQueue'
    BY MatchesQueueNext
  <2>5. MessagesOf(c)' # {} <=> InList(c)'
    BY <2>3, <2>4 DEF MemoryMatchesQueue, Coherent, InList, GetSubscriberAddresses
  <2>6. QED
    BY <2>1, <2>5 DEF QueueFollows
<1>6. QED
  BY <1>3, <1>4, <1>5 DEF Work

LEMMA Layer7Work ==
  ASSUME Layers, Layers', Layer7, CallsKept, RequestsKept, NEW i \in Calls, Work(i),
         UNCHANGED <<configVars, ownTransaction>>
  PROVE  Layer7'
<1>1. rolledBack \subseteq rolledBack' /\ dead \subseteq dead' /\ restarts' = restarts
  BY DEF Work, Receive, ForwardToErrorQueue, HandleMessage, HandleMessageThrows,
         Commit, Fail, queueVars
<1>2. Handled'
  BY HandledStep DEF Layers
<1>3. ASSUME NEW c \in Clients, Followed(c)' PROVE Followed(c) /\ ListFollows(c)'
  <2>1. Followed(c)
    BY <1>1, <1>3, FollowedBefore DEF Layers
  <2>2. QED
    BY <1>3, <2>1, FollowsWork
<1>4. ASSUME NEW c \in Clients, Followed(c)', Coherent(c)', ~ ownTransaction
      PROVE  QueueFollows(c)'
  <2>1. Followed(c)
    BY <1>3, <1>4
  <2>2. Coherent(c)
    BY <1>1, <1>4, CoherentBefore DEF Layers, configVars
  <2>3. QED
    BY <1>4, <2>1, <2>2, QueueFollowsWork
<1>5. QED
  BY <1>2, <1>3, <1>4 DEF Layer7

(* The steps of the clients: the list stays, and the queue at most grows.  *)
LEMMA Layer7Clients ==
  ASSUME Layers, Layer7, CallsKept, RequestsKept,
         UNCHANGED <<storageVars, configVars, step, settled, dead, rolledBack, restarts>>,
         \/ arrived' = arrived
         \/ \E i : Arrive(i) /\ i \notin ToSet(arrived)
  PROVE  Layer7'
<1> USE DEF Layers
<1>1. ASSUME NEW c \in Clients
      PROVE  /\ Subscribed(c)' <=> Subscribed(c)
             /\ \A k : HeadAt(k) => /\ HeadAt(k)' /\ arrived'[k] = arrived[k]
                                    /\ Decides(arrived[k], c)' <=> Decides(arrived[k], c)
                                    /\ IsSubscribe(arrived[k])' <=> IsSubscribe(arrived[k])
  BY SameQueue, LongerQueue
<1>2. ASSUME NEW c \in Clients
      PROVE  (InList(c)' <=> InList(c)) /\ MessagesOf(c)' = MessagesOf(c)
  BY DEF InList, MessagesOf, storageVars, memoryVars
<1>3. Handled'
  <2> SUFFICES ASSUME NEW j \in Calls, NEW c \in Clients, numberOfWorkerThreads = 1,
                      step[j] = "handled", Decides(j, c)'
               PROVE  InList(c)' <=> IsSubscribe(j)'
    BY DEF Handled, configVars
  <2>1. j \in Made
    BY MadeFacts DEF Layer1, QueueTyped, Handling
  <2>2. Decides(j, c) /\ (IsSubscribe(j)' <=> IsSubscribe(j))
    BY <2>1 DEF RequestsKept
  <2>3. QED
    BY <1>2, <2>2 DEF Layer7, Handled
<1>4. ASSUME NEW c \in Clients, Followed(c)' PROVE Followed(c) /\ ListFollows(c)'
  <2>1. Followed(c)
    BY <1>4, FollowedBefore DEF storageVars
  <2>2. ListFollows(c)
    BY <2>1 DEF Layer7
  <2>3. QED
    BY <1>1, <1>2, <2>1, <2>2 DEF ListFollows
<1>5. ASSUME NEW c \in Clients, Followed(c)', Coherent(c)', ~ ownTransaction
      PROVE  QueueFollows(c)'
  <2>1. Followed(c) /\ Coherent(c)
    BY <1>4, <1>5, CoherentBefore DEF storageVars, configVars
  <2>2. QED
    BY <1>1, <1>2, <1>5, <2>1 DEF Layer7, QueueFollows
<1>6. QED
  BY <1>3, <1>4, <1>5 DEF Layer7, storageVars

(* A restart makes the list from the storage queue.                        *)
LEMMA Layer7Restart ==
  ASSUME Layers, Layer7, CallsKept, RequestsKept, Restart
  PROVE  Layer7'
<1> USE DEF Layers
<1>1. /\ UNCHANGED <<arrived, settled, dead, rolledBack, configVars, ownTransaction, stored>>
      /\ restarts' = restarts + 1 /\ step' = [i \in Calls |-> "waiting"]
      /\ entries' = [c \in Clients |-> Cardinality(MessagesOf(c))]
  BY DEF Restart, RestartStorage, Load
<1>2. Handled'
  BY <1>1 DEF Handled
<1>3. ASSUME NEW c \in Clients PROVE InList(c)' <=> MessagesOf(c) # {}
  <2>1. IsFiniteSet(MessagesOf(c)) /\ Cardinality(MessagesOf(c)) \in Nat
    BY MessagesOfFinite DEF Layer1
  <2>2. Cardinality(MessagesOf(c)) = 0 <=> MessagesOf(c) = {}
    BY <2>1, FS_EmptySet
  <2>3. QED
    BY <1>1, <2>1, <2>2 DEF InList
<1>4. ASSUME NEW c \in Clients PROVE MessagesOf(c)' = MessagesOf(c)
  BY <1>1 DEF MessagesOf
<1>5. ASSUME NEW c \in Clients, Followed(c)' PROVE Followed(c) /\ Coherent(c) /\ ListFollows(c)'
  <2>1. Followed(c)
    BY <1>1, <1>5, FollowedBefore
  <2>2. Coherent(c)
    <3>1. restarts' # 0
      BY <1>1 DEF Layer1, QueueTyped
    <3>2. Coherent(c)'
      BY <1>5, <3>1 DEF Followed, Coherent
    <3>3. QED
      BY <1>1, <3>2, CoherentBefore DEF configVars
  <2>3. CASE ownTransaction
    <3>1. Effective(c) = MessagesOf(c)
      BY <2>3 DEF Layer1, StorageTyped, Effective, MessagesOf
    <3>2. InList(c) <=> MessagesOf(c) # {}
      BY <2>2, <3>1 DEF MemoryInv, Matches, NoMessage, OneMessage, InList
    <3>3. QED
      BY <1>1, <1>3, <2>1, <2>2, <3>2, ListKept DEF Layer7
  <2>4. CASE ~ ownTransaction
    <3>1. QueueFollows(c)
      BY <2>1, <2>2, <2>4 DEF Layer7
    <3>2. Subscribed(c)' <=> Subscribed(c)
      BY <1>1, SameQueue
    <3>3. QED
      BY <1>3, <2>1, <2>2, <3>1, <3>2 DEF QueueFollows, ListFollows
  <2>5. QED
    BY <2>3, <2>4
<1>6. ASSUME NEW c \in Clients, Followed(c)', ~ ownTransaction PROVE QueueFollows(c)'
  <2>1. QueueFollows(c)
    BY <1>5, <1>6 DEF Layer7
  <2>2. QED
    BY <1>1, <1>4, <2>1, SameQueue DEF QueueFollows
<1>7. QED
  BY <1>1, <1>2, <1>5, <1>6 DEF Layer7

LEMMA Layer7Step == Layers /\ Layers' /\ Layer7 /\ [Next]_vars => Layer7'
<1> SUFFICES ASSUME Layers, Layers', Layer7, [Next]_vars PROVE Layer7'
  OBVIOUS
<1>1. CallsKept /\ RequestsKept /\ UNCHANGED configVars /\ ownTransaction' = ownTransaction
  BY NextKeepsCalls, NextKeepsRequests DEF Layers
<1>2. Len(calls) + 1 \notin ToSet(arrived)
  BY MadeFacts DEF Layers, Layer1, SenderTyped, Made
<1>3. ASSUME NEW c \in Clients,
             CallSubscribe(c) \/ \E intent \in Intents : CallNow(intent, c)
      PROVE  Layer7'
  BY <1>1, <1>2, <1>3, Layer7Clients DEF CallSubscribe, CallNow, queueVars, threadVars
<1>4. ASSUME NEW i \in Calls, SendSubscribeMessageWithRetries(i) PROVE Layer7'
  <2>1. i \notin ToSet(arrived)
    BY <1>4, Positions DEF SendSubscribeMessageWithRetries, Layers, Layer6, Once
  <2>2. QED
    BY <1>1, <1>4, <2>1, Layer7Clients DEF SendSubscribeMessageWithRetries, threadVars
<1>5. ASSUME NEW i \in Calls, Register(i) \/ HandleReply(i) PROVE Layer7'
  BY <1>1, <1>5, Layer7Clients DEF Register, HandleReply, HandleCorellatedMessage,
                                   EndReply, queueVars, threadVars
<1>6. CASE CreateQueue \/ UNCHANGED vars
  BY <1>1, <1>6, Layer7Clients DEF CreateQueue, vars, queueVars, threadVars
<1>7. QED
  BY <1>1, <1>3, <1>4, <1>5, <1>6, Layer7Work, Layer7Restart DEF Next

(* When nothing of a client is on its way, all its requests have left the  *)
(* queue and the last of them was the last to be settled.                  *)
LEMMA QuietWins ==
  ASSUME Layers, Layer7
  PROVE  LastRequestWins
<1> USE DEF Layers
<1> SUFFICES ASSUME NEW c \in Clients, numberOfWorkerThreads = 1, Quiet(c),
                    restarts = 0 \/ (OneVersion(c) /\ (ownTransaction \/ Undisturbed(c)))
             PROVE  InList(c) <=> \E i \in Made : LastRequest(c, i) /\ Intent(i) = "Subscribe"
  BY DEF LastRequestWins, GetSubscriberAddresses, InList
<1>1. Position = 1..Len(arrived) /\ Len(arrived) \in Nat
  BY Positions
<1>2. ASSUME NEW k \in Position, Decides(arrived[k], c)
      PROVE  arrived[k] \in settled \ dead
  <2>1. arrived[k] \in Made /\ Client(arrived[k]) = c /\ arrived[k] \notin givenUp
    BY <1>2, Positions DEF Decides, Layer6, Once
  <2>2. QED
    BY <2>1 DEF Quiet
<1>3. Followed(c)
  <2> SUFFICES ASSUME NEW i \in dead, Decides(i, c) PROVE FALSE
    BY DEF Followed
  <2>1. PICK k \in Position : arrived[k] = i
    BY Positions DEF Layer1, QueueTyped
  <2>2. QED
    BY <1>2, <2>1
<1>4. InList(c) <=> Subscribed(c)
  BY <1>2, <1>3 DEF Layer7, ListFollows, HeadAt
<1>5. \A k : SettledLast(k, c) <=>
        /\ k \in Position /\ Decides(arrived[k], c)
        /\ \A l \in k+1..Len(arrived) : ~ Decides(arrived[l], c)
  <2> SUFFICES ASSUME NEW k \in Position
               PROVE  (\A l \in Position : l > k => ~ Decides(arrived[l], c))
                        <=> \A l \in k+1..Len(arrived) : ~ Decides(arrived[l], c)
    BY <1>2 DEF SettledLast
  <2>1. \A l : l \in Position /\ l > k <=> l \in k+1..Len(arrived)
    BY <1>1
  <2>2. QED
    BY <2>1
<1>6. ASSUME NEW i
      PROVE  LastRequest(c, i) <=> \E k : SettledLast(k, c) /\ arrived[k] = i
  BY <1>5 DEF LastRequest, Decides, Position
<1>7. \A k : SettledLast(k, c) => arrived[k] \in Made
  BY Positions DEF SettledLast
<1>8. QED
  BY <1>4, <1>6, <1>7 DEF Subscribed, IsSubscribe

(* With one thread, when nothing of a client is on its way, it is in the   *)
(* list if and only if its last request was to subscribe: whatever was     *)
(* rolled back, and after restarts under the conditions of the property.   *)
THEOREM LastRequestWinsCorrect == Spec => []LastRequestWins
<1> DEFINE Inv == Layers /\ Layer7
<1>1. Init => Inv
  BY Layer1Init, Layer3Init, NamedInit, MemoryInit, Layer6Init, Layer7Init DEF Layers
<1>2. Inv /\ [Next]_vars => Inv'
  BY LayersStep, Layer7Step
<1>3. Inv => LastRequestWins
  BY QuietWins
<1>4. QED
  BY <1>1, <1>2, <1>3, PTL DEF Spec
=============================================================================
