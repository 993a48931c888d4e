----------------------------- MODULE UnicastBus -----------------------------
(***************************************************************************)
(* The buses of a publisher and of its clients: a client subscribes,       *)
(* unsubscribes and sends requests that have a reply, the publisher takes  *)
(* them from its input queue.  A subscription is sent in the background    *)
(* and tried again when the queue of the publisher does not exist; the     *)
(* other two are sent at once.  The callback of a request is registered    *)
(* after the request was sent, so the reply may be faster.                 *)
(***************************************************************************)
EXTENDS MsmqSubscriptionStorage, Sequences, SequencesExt

CONSTANTS
  Configurations,     \* whether the storage has its own transactions, the
                      \* number of worker threads, what the authorizer lets
                      \* through, and the version of the type in each call
  MaxCalls,           \* bound on the calls of all clients
  MaxRequests,        \* bound on those of them that send a request
  MaxSendRetries,     \* SendSubscribeMessageWithRetries: 5
  MaxRetries,         \* attempts of the transport at one message
  MaxDisturbances     \* bound on restarts and failed attempts

Calls == 1..MaxCalls

Intents == {"Subscribe", "Unsubscribe", "Send"}

ASSUME UnicastBusAssumption ==
  /\ MaxCalls \in Nat /\ MaxRequests \in Nat /\ MaxSendRetries \in Nat /\ MaxDisturbances \in Nat
  /\ MaxRetries \in Nat \ {0}
  /\ Configurations \subseteq BOOLEAN \X Nat \X (SUBSET (Intents \X Clients)) \X [Calls -> Versions]
  /\ Ids = Calls /\ Transactions = Calls /\ NoId = 0

VARIABLES
  numberOfWorkerThreads, \* of the publisher
  authorized,         \* what its authorizer lets through: <<intent, client>>
  version,            \* of the message type, in each call
  calls,              \* calls so far: intent and client
  queueExists,        \* the input queue of the publisher was created
  background,         \* subscriptions the thread pool has yet to send
  retriesCount,       \* of each of them
  givenUp,            \* subscriptions that were logged as failed
  arrived,            \* messages of the publisher's queue, in their order
  settled,            \* the ones that have left it
  dead,               \* for the error queue
  step,               \* where the handling of each message is
  failures,           \* failed attempts at each message, in memory
  rolledBack,         \* history: messages of a failed attempt
  restarts            \* history: restarts of the publisher

VARIABLES
  disturbances,
  reply,              \* where the reply to each request is
  replyFailures,      \* failed attempts at it
  waiting,            \* keys of messageIdToAsyncResultLookup
  registered,         \* history: requests with a callback
  inTime,             \* history: registered before the reply was handled
  invoked             \* history: how often each callback was invoked

senderVars == <<calls, queueExists, background, retriesCount, givenUp>>
queueVars == <<arrived, settled, dead, failures, rolledBack, restarts>>
configVars == <<numberOfWorkerThreads, authorized, version>>
threadVars == <<configVars, step>>
replyVars == <<reply, replyFailures>>
callbackVars == <<waiting, registered, inTime, invoked>>
clientVars == <<senderVars, replyVars, callbackVars>>
vars == <<storageVars, senderVars, queueVars, threadVars, replyVars, callbackVars,
          disturbances>>

Disturb == disturbances < MaxDisturbances /\ disturbances' = disturbances + 1

Made == 1..Len(calls)
Intent(i) == calls[i].intent
Client(i) == calls[i].client
Allowed(i) == <<Intent(i), Client(i)>> \in authorized

Init ==
  /\ InitStorage
  /\ \E p \in Configurations :
       /\ ownTransaction = p[1]
       /\ numberOfWorkerThreads = p[2]
       /\ authorized = p[3]
       /\ version = p[4]
  /\ calls = <<>>
  /\ queueExists = FALSE
  /\ background = {} /\ givenUp = {}
  /\ retriesCount = [i \in Calls |-> 0]
  /\ arrived = <<>> /\ settled = {} /\ dead = {}
  /\ step = [i \in Calls |-> "waiting"]
  /\ failures = [i \in Calls |-> 0]
  /\ rolledBack = {} /\ restarts = 0
  /\ reply = [i \in Calls |-> "none"]
  /\ replyFailures = [i \in Calls |-> 0]
  /\ waiting = {} /\ registered = {} /\ inTime = {}
  /\ invoked = [i \in Calls |-> 0]
  /\ disturbances = 0
-----------------------------------------------------------------------------
(* The clients.  A call that throws, to a queue that does not exist, has   *)
(* no effect and is left out.                                              *)
Call(intent, c) ==
  /\ Len(calls) < MaxCalls
  /\ calls' = Append(calls, [intent |-> intent, client |-> c])
  /\ UNCHANGED <<queueExists, retriesCount, givenUp>>

Arrive(i) == arrived' = Append(arrived, i)

(* Subscribe: the message is built, and left to the thread pool.           *)
CallSubscribe(c) ==
  /\ Call("Subscribe", c)
  /\ background' = background \cup {Len(calls) + 1}
  /\ UNCHANGED <<storageVars, queueVars, threadVars, replyVars, callbackVars,
                 disturbances>>

(* Unsubscribe, and Send of a request.                                     *)
CallNow(intent, c) ==
  /\ intent \in {"Unsubscribe", "Send"}
  /\ intent = "Send" => Cardinality({i \in Made : Intent(i) = "Send"}) < MaxRequests
  /\ queueExists
  /\ Call(intent, c)
  /\ Arrive(Len(calls) + 1)
  /\ UNCHANGED <<storageVars, background, settled, dead, failures, rolledBack,
                 restarts, threadVars, replyVars, callbackVars, disturbances>>

(* Mutant of SendSubscribeMessageWithRetries: the retries are not counted. *)
SendSubscribeForEver(i) ==
  /\ i \in background
  /\ IF queueExists
     THEN Arrive(i) /\ background' = background \ {i}
     ELSE UNCHANGED <<arrived, background>>
  /\ UNCHANGED <<storageVars, calls, queueExists, retriesCount, givenUp,
                 settled, dead, failures, rolledBack, restarts, threadVars,
                 replyVars, callbackVars, disturbances>>

(* Mutant of SendSubscribeMessageWithRetries: one retry too many.          *)
SendSubscribeOnceMore(i) ==
  /\ i \in background
  /\ IF queueExists
     THEN /\ Arrive(i)
          /\ background' = background \ {i}
          /\ UNCHANGED <<retriesCount, givenUp>>
     ELSE /\ UNCHANGED arrived
          /\ IF retriesCount[i] <= MaxSendRetries
             THEN /\ retriesCount' = [retriesCount EXCEPT ![i] = @ + 1]
                  /\ UNCHANGED <<background, givenUp>>
             ELSE /\ givenUp' = givenUp \cup {i}
                  /\ background' = background \ {i}
                  /\ UNCHANGED retriesCount
  /\ UNCHANGED <<storageVars, calls, queueExists, settled, dead, failures,
                 rolledBack, restarts, threadVars, replyVars, callbackVars,
                 disturbances>>

(* One attempt to send a subscription.                                     *)
SendSubscribeMessageWithRetries(i) ==
  /\ i \in background
  /\ IF queueExists
     THEN /\ Arrive(i)
          /\ background' = background \ {i}
          /\ UNCHANGED <<retriesCount, givenUp>>
     ELSE /\ UNCHANGED arrived
          /\ IF retriesCount[i] < MaxSendRetries
             THEN /\ retriesCount' = [retriesCount EXCEPT ![i] = @ + 1]
                  /\ UNCHANGED <<background, givenUp>>
             ELSE /\ givenUp' = givenUp \cup {i}
                  /\ background' = background \ {i}
                  /\ UNCHANGED retriesCount
  /\ UNCHANGED <<storageVars, calls, queueExists, settled, dead, failures,
                 rolledBack, restarts, threadVars, replyVars, callbackVars,
                 disturbances>>

(* The publisher is installed after the client was started.                *)
CreateQueue ==
  /\ ~ queueExists
  /\ queueExists' = TRUE
  /\ UNCHANGED <<storageVars, calls, background, retriesCount, givenUp,
                 queueVars, threadVars, replyVars, callbackVars, disturbances>>

(* Register, on what Send has returned: the lookup keeps the callback until*)
(* a reply comes, which may have been handled already.                     *)
Register(i) ==
  /\ i \in Made \ registered
  /\ Intent(i) = "Send"
  /\ registered' = registered \cup {i}
  /\ waiting' = waiting \cup {i}
  /\ inTime' = IF reply[i] \in {"none", "queued"} /\ replyFailures[i] = 0
               THEN inTime \cup {i} ELSE inTime
  /\ UNCHANGED <<storageVars, senderVars, queueVars, threadVars, replyVars,
                 invoked, disturbances>>

(* Mutant of HandleCorellatedMessage: the callback stays in the lookup.    *)
HandleCorellatedAgain(i) ==
  /\ reply[i] = "queued"
  /\ reply' = [reply EXCEPT ![i] = "handled"]
  /\ IF i \in waiting
     THEN invoked' = [invoked EXCEPT ![i] = @ + 1] ELSE UNCHANGED invoked
  /\ UNCHANGED <<storageVars, senderVars, queueVars, threadVars, replyFailures,
                 waiting, registered, inTime, disturbances>>

(* A thread of the client has received the reply: the callback leaves the  *)
(* lookup and is invoked, before the handlers of the reply.                *)
HandleCorellatedMessage(i) ==
  /\ reply[i] = "queued"
  /\ reply' = [reply EXCEPT ![i] = "handled"]
  /\ waiting' = waiting \ {i}
  /\ IF i \in waiting
     THEN invoked' = [invoked EXCEPT ![i] = @ + 1] ELSE UNCHANGED invoked
  /\ UNCHANGED <<storageVars, senderVars, queueVars, threadVars, replyFailures,
                 registered, inTime, disturbances>>

(* The handlers end, or one throws: the reply is handled again, or has     *)
(* failed too often.                                                       *)
EndReply(i) ==
  /\ reply[i] = "handled"
  /\ \/ /\ reply' = [reply EXCEPT ![i] = "settled"]
        /\ UNCHANGED <<replyFailures, disturbances>>
     \/ /\ Disturb
        /\ replyFailures' = [replyFailures EXCEPT ![i] = @ + 1]
        /\ reply' = [reply EXCEPT ![i] =
             IF replyFailures[i] + 1 < MaxRetries THEN "queued" ELSE "settled"]
  /\ UNCHANGED <<storageVars, senderVars, queueVars, threadVars, callbackVars>>
-----------------------------------------------------------------------------
(* The publisher.  A message a thread of its transport is busy with has    *)
(* left the step "waiting", and its own transaction.                       *)
Handling == {i \in Calls : step[i] # "waiting"}

InQueue(i) == i \notin settled /\ step[i] = "waiting"

(* The first message nobody handles: a message that was rolled back is in  *)
(* its old place again.                                                    *)
IsNext(i) ==
  \E k \in DOMAIN arrived :
    /\ arrived[k] = i
    /\ InQueue(i)
    /\ \A j \in 1..k-1 : ~ InQueue(arrived[j])

Goto(i, s) == step' = [step EXCEPT ![i] = s]

Receive(i) ==
  /\ Cardinality(Handling) < numberOfWorkerThreads
  /\ IsNext(i)
  /\ failures[i] < MaxRetries
  /\ Goto(i, "received")
  /\ UNCHANGED <<storageVars, clientVars, queueVars, configVars, disturbances>>

(* The message has failed too often.                                       *)
ForwardToErrorQueue(i) ==
  /\ Cardinality(Handling) < numberOfWorkerThreads
  /\ IsNext(i)
  /\ failures[i] >= MaxRetries
  /\ settled' = settled \cup {i}
  /\ dead' = dead \cup {i}
  /\ UNCHANGED <<storageVars, clientVars, arrived, failures, rolledBack,
                 restarts, threadVars, disturbances>>

(* HandledSubscriptionMessage, or the handlers of a request, whose reply   *)
(* leaves with the transaction.                                            *)
HandleMessage(i) ==
  /\ step[i] = "received"
  /\ Goto(i, "handled")
  /\ \/ Intent(i) = "Send" /\ UNCHANGED storageVars
     \/ Intent(i) # "Send" /\ ~ Allowed(i) /\ UNCHANGED storageVars
     \/ Intent(i) = "Subscribe" /\ Allowed(i) /\ Subscribe(i, Client(i), version[i], i)
     \/ Intent(i) = "Unsubscribe" /\ Allowed(i) /\ Unsubscribe(i, Client(i), version[i])
  /\ UNCHANGED <<clientVars, queueVars, configVars, disturbances>>

HandleMessageThrows(i) ==
  /\ step[i] = "received"
  /\ Intent(i) = "Unsubscribe" /\ Allowed(i)
  /\ UnsubscribeThrows(i, Client(i), version[i])
  /\ Goto(i, "failed")
  /\ UNCHANGED <<clientVars, queueVars, configVars, disturbances>>

Commit(i) ==
  /\ step[i] = "handled"
  /\ CommitStorage(i)
  /\ Goto(i, "waiting")
  /\ settled' = settled \cup {i}
  /\ reply' = IF Intent(i) = "Send" THEN [reply EXCEPT ![i] = "queued"] ELSE reply
  /\ UNCHANGED <<senderVars, replyFailures, callbackVars, arrived, dead,
                 failures, rolledBack, restarts, configVars, disturbances>>

(* A unit of work, a mutator, a handler, ClientSubscribed or the storage   *)
(* has thrown, before or after the storage was called.                     *)
Fail(i) ==
  /\ step[i] \in {"received", "handled", "failed"}
  /\ RollbackStorage(i)
  /\ Goto(i, "waiting")
  /\ failures' = [failures EXCEPT ![i] = @ + 1]
  /\ rolledBack' = rolledBack \cup {i}
  /\ IF step[i] = "failed" THEN UNCHANGED disturbances ELSE Disturb
  /\ UNCHANGED <<clientVars, arrived, settled, dead, restarts, configVars>>

(* The publisher dies, and starts again: its messages are in the queue,    *)
(* the failures of the transport and the storage's memory are gone.        *)
Restart ==
  /\ queueExists
  /\ Disturb
  /\ restarts' = restarts + 1
  /\ RestartStorage
  /\ step' = [i \in Calls |-> "waiting"]
  /\ failures' = [i \in Calls |-> 0]
  /\ UNCHANGED <<clientVars, arrived, settled, dead, rolledBack, configVars>>
-----------------------------------------------------------------------------
Work(i) ==
  \/ Receive(i) \/ ForwardToErrorQueue(i)
  \/ HandleMessage(i) \/ HandleMessageThrows(i)
  \/ Commit(i) \/ Fail(i)

HandleReply(i) == HandleCorellatedMessage(i) \/ EndReply(i)

Next ==
  \/ \E c \in Clients :
       \/ CallSubscribe(c)
       \/ \E intent \in Intents : CallNow(intent, c)
  \/ \E i \in Calls :
       \/ SendSubscribeMessageWithRetries(i) \/ Register(i)
       \/ Work(i) \/ HandleReply(i)
  \/ CreateQueue
  \/ Restart

(* The thread pool, and the threads of both endpoints, go on working.      *)
Spec ==
  /\ Init /\ [][Next]_vars
  /\ WF_vars(\E i \in Calls : SendSubscribeMessageWithRetries(i))
  /\ WF_vars(\E i \in Calls : Work(i))
  /\ WF_vars(\E i \in Calls : HandleReply(i))
-----------------------------------------------------------------------------
TypeOK ==
  /\ entries \in [Clients -> Nat]
  /\ lookup \in [Clients \X Versions -> Calls \cup {NoId}]
  /\ stored \subseteq Clients \X Versions \X Calls
  /\ sent \in [Calls -> SUBSET (Clients \X Versions \X Calls)]
  /\ received \in [Calls -> SUBSET stored]
  /\ <<ownTransaction, numberOfWorkerThreads, authorized, version>> \in Configurations
  /\ calls \in Seq([intent : Intents, client : Clients])
  /\ Len(calls) <= MaxCalls
  /\ queueExists \in BOOLEAN
  /\ background \subseteq Made /\ givenUp \subseteq Made
  /\ retriesCount \in [Calls -> 0..MaxSendRetries]
  /\ arrived \in Seq(Made)
  /\ dead \subseteq settled /\ settled \subseteq ToSet(arrived)
  /\ step \in [Calls -> {"waiting", "received", "handled", "failed"}]
  /\ Handling \subseteq ToSet(arrived) \ settled
  /\ failures \in [Calls -> 0..MaxRetries]
  /\ rolledBack \subseteq ToSet(arrived)
  /\ restarts \in 0..disturbances /\ disturbances \in 0..MaxDisturbances
  /\ reply \in [Calls -> {"none", "queued", "handled", "settled"}]
  /\ replyFailures \in [Calls -> 0..MaxRetries]
  /\ inTime \subseteq registered /\ waiting \subseteq registered
  /\ registered \subseteq Made
  /\ invoked \in [Calls -> Nat]

(* No attempt at a message of client c has failed.                         *)
Undisturbed(c) == \A i \in rolledBack : Client(i) # c

AtWork(c) == \E i \in Handling : Client(i) = c

(* The client was not upgraded to another minor version of the type.       *)
OneVersion(c) ==
  \A i, j \in Made :
    Client(i) = c /\ Client(j) = c /\ Intent(i) # "Send" /\ Intent(j) # "Send"
      => version[i] = version[j]

(* What Publish reads is what the queue keeps for the next start, for a    *)
(* client that names one version: always with transactions of its own;     *)
(* with the transaction of the thread, on a publisher with one thread,     *)
(* while no attempt at a request has failed.  The lookup leads to it.      *)
MemoryMatchesQueue ==
  \A c \in Clients :
    /\ OneVersion(c)
    /\ ownTransaction \/ (numberOfWorkerThreads = 1 /\ Undisturbed(c) /\ ~ AtWork(c))
    => IF c \in GetSubscriberAddresses
       THEN \E v \in Versions : MessagesOf(c) = {<<c, v, lookup[<<c, v>>]>>}
       ELSE MessagesOf(c) = {}

(* Nothing of client c is on its way.                                      *)
Quiet(c) ==
  \A i \in Made :
    Client(i) = c => i \in givenUp \/ i \in settled \ dead

LastRequest(c, i) ==
  \E k \in DOMAIN arrived :
    LET Decides(j) == /\ Intent(j) # "Send" /\ Client(j) = c /\ Allowed(j)
    IN /\ arrived[k] = i
       /\ Decides(i)
       /\ \A l \in k+1..Len(arrived) : ~ Decides(arrived[l])

(* The request that came last decides whether a client gets what is        *)
(* published, through failed attempts and restarts: on a publisher with    *)
(* one thread, unless a restart follows a failed attempt and the storage   *)
(* uses the transactions of the thread, or follows an upgrade of the       *)
(* client, whose old message no request of the new version removes.        *)
LastRequestWins ==
  \A c \in Clients :
    /\ numberOfWorkerThreads = 1 /\ Quiet(c)
    /\ restarts = 0 \/ (OneVersion(c) /\ (ownTransaction \/ Undisturbed(c)))
    => (c \in GetSubscriberAddresses <=>
          \E i \in Made : LastRequest(c, i) /\ Intent(i) = "Subscribe")

(* However often a reply is handled, its callback is invoked once.         *)
CallbackInvokedOnce == \A i \in Calls : invoked[i] <= 1

(* The reply to a request has been handled, and so has a callback that was *)
(* registered before.                                                      *)
Answered(i) ==
  reply[i] = "settled" /\ (i \in inTime => invoked[i] = 1)

(* A call is decided when its message has left the publisher's queue,      *)
(* answered if it is a request, or the client has given up sending it.     *)
Decided(i) ==
  \/ i \in givenUp \cup dead
  \/ i \in settled /\ (Intent(i) = "Send" => Answered(i))

(* Every call is decided: the background attempts end, no failed attempt   *)
(* or restart forgets a message, and no callback that was registered in    *)
(* time waits for ever.  The calls come to an end in every behaviour.      *)
EveryCallDecided == <>[](\A i \in Made : Decided(i))
=============================================================================
