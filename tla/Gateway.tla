------------------------------ MODULE Gateway ------------------------------
(***************************************************************************)
(* The gateway between sites.  At the sending site worker threads take     *)
(* messages from the gateway's queue, split a message with several         *)
(* destinations, and forward a message with one by two HTTP calls, Submit  *)
(* and Ack.  At the receiving site each call is handled on a thread of its *)
(* own in a transaction: Submit stores the message under its client id,    *)
(* Ack marks it and sends it to the endpoint.  Web clients make one call,  *)
(* a Submit with the header AutoAck.                                       *)
(*                                                                         *)
(* A call may be lost, or answered when nobody waits any more; the sender  *)
(* then repeats both calls, so that two calls of one message may run side  *)
(* by side.  Whether a message is delivered once depends on the persister. *)
(*                                                                         *)
(* A message is sent on under an id of its own for each destination, so    *)
(* what is kept by client id needs no index for the receiving site.        *)
(***************************************************************************)
EXTENDS Integers, FiniteSets

CONSTANTS
  Messages,           \* messages the endpoint puts in the gateway's queue
  Keys,               \* site keys found in the header DestinationSites
  SitesOf,            \* the keys in the header of each message
  Addresses,          \* keys with a ':' in them
  Configured,         \* keys in the section GatewayConfig
  WebMessages,        \* messages web clients submit
  WebSite,            \* the site a web client calls
  Senders,            \* worker threads of the GatewaySender's transport
  Slots,              \* HTTP calls that can be in flight
  Persisters,         \* implementations of IPersistMessages considered
  MaxRetries,         \* of the GatewaySender's transport
  MaxPosts,           \* bound on the calls made for a web message
  MaxDisturbances,    \* bound on failures, losses, timeouts and restarts
  None

ASSUME GatewayAssumption ==
  /\ SitesOf \in [Messages -> SUBSET Keys]
  /\ WebSite \in [WebMessages -> Keys]
  /\ IsFiniteSet(Keys)
  /\ Addresses \subseteq Keys /\ Configured \subseteq Keys
  /\ Addresses \cap Configured = {}
  /\ Messages \cap WebMessages = {}
  /\ Persisters \subseteq {"InMemory", "Raven", "Sql"}
  /\ MaxRetries \in Nat \ {0} /\ MaxPosts \in Nat /\ MaxDisturbances \in Nat

Envelope(m, sites) == [id |-> m, sites |-> sites]
Original(m) == Envelope(m, SitesOf[m])
Clone(m, k) == Envelope(m, {k})
Queueable == {Original(m) : m \in Messages}
               \cup {Clone(mk[1], mk[2]) : mk \in Messages \X Keys}
Posted(w) == Envelope(w, {WebSite[w]})
Envelopes == Queueable \cup {Posted(w) : w \in WebMessages}

ASSUME NoneAssumption == None \notin Envelopes \cup Senders \cup Messages

VARIABLES
  queue,              \* gateway's queue at the sending site, what is in hand included
  failures,           \* failures counted by the transport
  errors,             \* messages given to the fault manager
  audit,              \* messages in the audit queue
  pc, hand, outgoing, \* per sender: next step, message in hand, clones to be sent
  calls,              \* per slot: the HTTP call in flight
  persister,          \* implementation of IPersistMessages in use
  storage,            \* committed records of each client id, by acknowledgement
  delivered,          \* copies of each message put in the endpoint's queue
  posts,              \* calls made for each web message
  disturbances,
  thrown, overlapped, restarted   \* history: see Excuses below

senderVars == <<queue, failures, errors, audit, pc, hand, outgoing>>
historyVars == <<thrown, overlapped, restarted>>
vars == <<senderVars, calls, persister, storage, delivered, posts, disturbances, historyVars>>

CallTypes == {"Submit", "Ack"}
Steps == {"arrived", "insert", "insertRow", "ack", "save", "raise", "complete", "ok", "failed"}
Calls == [envelope : Envelopes, type : CallTypes, autoAck : BOOLEAN,
          owner : Senders \cup {None}, step : Steps,
          writes : SUBSET {"insert", "ack", "send"}, acks : Nat]

ASSUME NoCallAssumption == None \notin Calls

Init ==
  /\ queue = {Original(m) : m \in Messages}
  /\ failures = [e \in Queueable |-> 0]
  /\ errors = {} /\ audit = {}
  /\ pc = [s \in Senders |-> "idle"]
  /\ hand = [s \in Senders |-> None]
  /\ outgoing = [s \in Senders |-> {}]
  /\ calls = [c \in Slots |-> None]
  /\ persister \in Persisters
  /\ storage = [e \in Envelopes |-> [new |-> 0, acked |-> 0]]
  /\ delivered = [e \in Envelopes |-> 0]
  /\ posts = [w \in WebMessages |-> 0]
  /\ disturbances = 0
  /\ thrown = {} /\ overlapped = {} /\ restarted = {}

Disturb == disturbances < MaxDisturbances /\ disturbances' = disturbances + 1
-----------------------------------------------------------------------------
(* Routing.  Of the routers that are registered, two read the header       *)
(* DestinationSites, in this order; what neither knows is passed over.     *)
ByPrefix(sites) == sites \cap Addresses
ByConfiguration(sites) == sites \cap Configured
GetDestinationSitesFor(sites) == ByPrefix(sites) \cup ByConfiguration(sites)

(* The routers are evaluated lazily, and CloneAndSendLocal overwrites the  *)
(* header: the second router sees the last key the first one returned.     *)
Overwritten(sites) ==
  IF ByPrefix(sites) = {} THEN {sites} ELSE {{k} : k \in ByPrefix(sites)}
SplitOver(sites) ==
  {ByPrefix(sites) \cup ByConfiguration(header) : header \in Overwritten(sites)}

(* The transport of the sending site: receive, roll back, commit.          *)
InHand == {hand[s] : s \in Senders}

Goto(s, l) == pc' = [pc EXCEPT ![s] = l]

Advance(s, l) ==
  /\ Goto(s, l)
  /\ UNCHANGED <<queue, failures, errors, audit, hand, outgoing>>

Drop(s) ==
  /\ Goto(s, "idle")
  /\ hand' = [hand EXCEPT ![s] = None]
  /\ outgoing' = [outgoing EXCEPT ![s] = {}]

(* Mutant of Rollback: the failure is not counted.                         *)
RollbackUncounted(s) == Drop(s) /\ UNCHANGED <<queue, failures, errors, audit>>

Rollback(s) ==
  /\ Drop(s)
  /\ failures' = [failures EXCEPT ![hand[s]] = @ + 1]
  /\ UNCHANGED <<queue, errors, audit>>

Receive(s) ==
  /\ pc[s] = "idle"
  /\ \E e \in queue \ InHand :
       /\ failures[e] < MaxRetries
       /\ hand' = [hand EXCEPT ![s] = e]
  /\ Goto(s, "route")
  /\ UNCHANGED <<queue, failures, errors, audit, outgoing>>

HandledMaxRetries(s) ==
  /\ pc[s] = "idle"
  /\ \E e \in queue \ InHand :
       /\ failures[e] >= MaxRetries
       /\ queue' = queue \ {e}
       /\ errors' = errors \cup {e}
       /\ failures' = [failures EXCEPT ![e] = 0]
  /\ UNCHANGED <<audit, pc, hand, outgoing>>

(* OnTransportMessageReceived: split, fail, or go on to SendToSite.        *)
Split(s) ==
  /\ pc[s] = "route"
  /\ Cardinality(GetDestinationSitesFor(hand[s].sites)) > 1
  /\ \E found \in SplitOver(hand[s].sites) :
       outgoing' = [outgoing EXCEPT ![s] = {Clone(hand[s].id, k) : k \in found}]
  /\ Goto(s, "split")
  /\ UNCHANGED <<queue, failures, errors, audit, hand>>

NoDestination(s) ==
  /\ pc[s] = "route"
  /\ GetDestinationSitesFor(hand[s].sites) = {}
  /\ Rollback(s)

OneDestination(s) ==
  /\ pc[s] = "route"
  /\ Cardinality(GetDestinationSitesFor(hand[s].sites)) = 1
  /\ Advance(s, "submit")

CommitSplit(s) ==
  /\ pc[s] = "split"
  /\ queue' = (queue \ {hand[s]}) \cup outgoing[s]
  /\ Drop(s)
  /\ UNCHANGED <<errors, audit>>
  /\ failures' = [failures EXCEPT ![hand[s]] = 0]

CommitForwarded(s) ==
  /\ pc[s] = "forwarded"
  /\ queue' = queue \ {hand[s]}
  /\ audit' = audit \cup {hand[s]}
  /\ Drop(s)
  /\ UNCHANGED errors
  /\ failures' = [failures EXCEPT ![hand[s]] = 0]

(* What the transport does between calls.                                  *)
Local(s) ==
  /\ \/ Receive(s) \/ HandledMaxRetries(s)
     \/ Split(s) \/ NoDestination(s) \/ OneDestination(s)
     \/ CommitSplit(s) \/ CommitForwarded(s)
  /\ UNCHANGED <<calls, persister, storage, delivered, posts, disturbances, historyVars>>

CommitFails(s) ==
  /\ pc[s] \in {"split", "forwarded"}
  /\ Disturb
  /\ Rollback(s)
  /\ UNCHANGED <<calls, persister, storage, delivered, posts, historyVars>>
-----------------------------------------------------------------------------
(* Calls.  The thread that makes one waits for the answer.                 *)
Free(c) == calls[c] = None
NewCall(e, type, autoAck, s) ==
  [envelope |-> e, type |-> type, autoAck |-> autoAck, owner |-> s,
   step |-> "arrived", writes |-> {}, acks |-> 0]

Place(call) ==
  /\ \E c \in Slots : Free(c)
  /\ calls' = [calls EXCEPT ![CHOOSE c \in Slots : Free(c)] = call]

Transmit(s) ==
  /\ \/ pc[s] = "submit" /\ Advance(s, "submitting") /\ Place(NewCall(hand[s], "Submit", FALSE, s))
     \/ pc[s] = "ack" /\ Advance(s, "acking") /\ Place(NewCall(hand[s], "Ack", FALSE, s))
  /\ UNCHANGED <<persister, storage, delivered, posts, disturbances, historyVars>>

Post(w) ==
  /\ posts[w] < MaxPosts
  /\ posts' = [posts EXCEPT ![w] = @ + 1]
  /\ Place(NewCall(Posted(w), "Submit", TRUE, None))
  /\ UNCHANGED <<senderVars, persister, storage, delivered, disturbances, historyVars>>

(* Mutant of Answer: the status is not looked at.                          *)
AnswerUnchecked(c) ==
  /\ ~ Free(c)
  /\ calls[c].step \in {"ok", "failed"}
  /\ LET s == calls[c].owner
     IN IF s = None THEN UNCHANGED senderVars
        ELSE Advance(s, IF pc[s] = "submitting" THEN "ack" ELSE "forwarded")
  /\ calls' = [calls EXCEPT ![c] = None]
  /\ UNCHANGED <<persister, storage, delivered, posts, disturbances, historyVars>>

(* The call is over: 200, or another status, which the sender turns into   *)
(* an exception.                                                           *)
Answer(c) ==
  /\ ~ Free(c)
  /\ calls[c].step \in {"ok", "failed"}
  /\ LET s == calls[c].owner
     IN IF s = None THEN UNCHANGED senderVars
        ELSE IF calls[c].step = "failed" THEN Rollback(s)
        ELSE Advance(s, IF pc[s] = "submitting" THEN "ack" ELSE "forwarded")
  /\ calls' = [calls EXCEPT ![c] = None]
  /\ UNCHANGED <<persister, storage, delivered, posts, disturbances, historyVars>>

Waiting(s, c) == ~ Free(c) /\ calls[c].owner = s

(* The request is lost, or its answer does not come in time; in the second *)
(* case the call goes on without anybody waiting for it.                   *)
NoAnswer(s, c) ==
  /\ Waiting(s, c)
  /\ Disturb
  /\ Rollback(s)
  /\ \/ calls[c].step = "arrived" /\ calls' = [calls EXCEPT ![c] = None]
     \/ calls' = [calls EXCEPT ![c].owner = None]
  /\ UNCHANGED <<persister, storage, delivered, posts, historyVars>>

(* The sending gateway dies and starts again.                              *)
SenderRestarts ==
  /\ Disturb
  /\ failures' = [e \in Queueable |-> 0]
  /\ pc' = [s \in Senders |-> "idle"]
  /\ hand' = [s \in Senders |-> None]
  /\ outgoing' = [s \in Senders |-> {}]
  /\ calls' = [c \in Slots |-> IF Free(c) THEN None ELSE [calls[c] EXCEPT !.owner = None]]
  /\ UNCHANGED <<queue, errors, audit, persister, storage, delivered, posts, historyVars>>
-----------------------------------------------------------------------------
(* The receiving site.  writes and acks are what the transaction of a call *)
(* has not committed; InMemoryPersistence writes to its list at once.      *)
At(c, step) == ~ Free(c) /\ calls[c].step = step
Active(c) == ~ Free(c) /\ calls[c].step \notin {"arrived", "ok", "failed"}
Twins(c) == {d \in Slots \ {c} : Active(d) /\ calls[d].envelope = calls[c].envelope}

Step(c, step) == calls' = [calls EXCEPT ![c].step = step]
Write(c, what, step) ==
  calls' = [calls EXCEPT ![c].step = step, ![c].writes = @ \cup {what}]
Abort(c) ==
  calls' = [calls EXCEPT ![c].step = "failed", ![c].writes = {}, ![c].acks = 0]

Records(e) == storage[e].new + storage[e].acked
Inserted(c) == IF "insert" \in calls[c].writes THEN 1 ELSE 0
Locked(c) == \E d \in Twins(c) : calls[d].writes \cap {"insert", "ack"} # {}
AfterInsert(c) == IF calls[c].autoAck THEN "ack" ELSE "complete"

(* The transaction begins.                                                 *)
DataReceivedOnChannel(c) ==
  /\ At(c, "arrived")
  /\ Step(c, IF calls[c].type = "Submit" THEN "insert" ELSE "ack")
  /\ overlapped' = IF Twins(c) = {} THEN overlapped ELSE overlapped \cup {calls[c].envelope}
  /\ UNCHANGED <<storage, delivered>>

InMemoryInsert(c) ==
  /\ persister = "InMemory" /\ At(c, "insert")
  /\ storage' = [storage EXCEPT ![calls[c].envelope].new =
                   IF Records(calls[c].envelope) = 0 THEN 1 ELSE @]
  /\ Step(c, AfterInsert(c))

(* Mutant of InMemoryAck: what is acknowledged already is not skipped.     *)
InMemoryAckAgain(c) ==
  LET e == calls[c].envelope
  IN /\ persister = "InMemory" /\ At(c, "ack")
     /\ \/ Records(e) = 0 /\ UNCHANGED storage /\ Step(c, "complete")
        \/ Records(e) > 0 /\ storage' = [storage EXCEPT ![e] = [new |-> 0, acked |-> 1]]
                          /\ Step(c, "raise")

InMemoryAck(c) ==
  LET e == calls[c].envelope
  IN /\ persister = "InMemory" /\ At(c, "ack")
     /\ \/ storage[e].new = 0 /\ UNCHANGED storage /\ Step(c, "complete")
        \/ storage[e].new > 0 /\ storage' = [storage EXCEPT ![e] = [new |-> 0, acked |-> 1]]
                              /\ Step(c, "raise")

(* A session with optimistic concurrency: a document that is there, or is  *)
(* being written, is refused.                                              *)
RavenInsert(c) ==
  /\ persister = "Raven" /\ At(c, "insert")
  /\ IF Records(calls[c].envelope) > 0 \/ Locked(c)
       THEN Step(c, AfterInsert(c))
       ELSE Write(c, "insert", AfterInsert(c))
  /\ UNCHANGED storage

(* A session without it: Load, then SaveChanges, which fails only against  *)
(* a transaction that has not ended.                                       *)
RavenLoad(c) ==
  LET e == calls[c].envelope
  IN /\ persister = "Raven" /\ At(c, "ack")
     /\ \/ Records(e) + Inserted(c) = 0 /\ Abort(c)
        \/ Records(e) + Inserted(c) > 0 /\ Step(c, IF storage[e].acked > 0 THEN "complete" ELSE "save")
     /\ UNCHANGED storage

(* Mutant of RavenSave: SaveChanges is missing.                            *)
RavenSaveForgotten(c) ==
  /\ persister = "Raven" /\ At(c, "save")
  /\ Step(c, "raise")
  /\ UNCHANGED storage

RavenSave(c) ==
  /\ persister = "Raven" /\ At(c, "save")
  /\ \/ Locked(c) /\ Abort(c)
     \/ ~ Locked(c) /\ calls' = [calls EXCEPT
                          ![c].step = "raise", ![c].writes = @ \cup {"ack"},
                          ![c].acks = storage[calls[c].envelope].new + Inserted(c)]
  /\ UNCHANGED storage

(* IF NOT EXISTS (...) INSERT: the table has no unique key, so two         *)
(* transactions may both find nothing.  What is locked is waited for.      *)
SqlExists(c) ==
  /\ persister = "Sql" /\ At(c, "insert")
  /\ ~ Locked(c)
  /\ Step(c, IF Records(calls[c].envelope) = 0 THEN "insertRow" ELSE AfterInsert(c))
  /\ UNCHANGED storage

SqlInsert(c) ==
  /\ persister = "Sql" /\ At(c, "insertRow")
  /\ Write(c, "insert", AfterInsert(c))
  /\ UNCHANGED storage

(* Mutant of SqlAck: the row another transaction has locked is updated.    *)
SqlAckUnlocked(c) ==
  LET rows == storage[calls[c].envelope].new + Inserted(c)
  IN /\ persister = "Sql" /\ At(c, "ack")
     /\ calls' = [calls EXCEPT ![c].step = IF rows = 1 THEN "raise" ELSE "complete",
                               ![c].writes = IF rows = 0 THEN @ ELSE @ \cup {"ack"},
                               ![c].acks = rows]
     /\ UNCHANGED storage

(* UPDATE ...; SELECT ... AND (@@ROWCOUNT = 1): with two rows the update   *)
(* is made and the message is not returned.                                *)
SqlAck(c) ==
  LET rows == storage[calls[c].envelope].new + Inserted(c)
  IN /\ persister = "Sql" /\ At(c, "ack")
     /\ ~ Locked(c)
     /\ calls' = [calls EXCEPT ![c].step = IF rows = 1 THEN "raise" ELSE "complete",
                               ![c].writes = IF rows = 0 THEN @ ELSE @ \cup {"ack"},
                               ![c].acks = rows]
     /\ UNCHANGED storage

(* The victim of a deadlock, or the transaction's timeout of 30 seconds.   *)
SqlGivesUp(c) ==
  /\ persister = "Sql" /\ (At(c, "insert") \/ At(c, "ack"))
  /\ Locked(c)
  /\ Abort(c)
  /\ UNCHANGED storage

(* MessageReceived: the message is sent to the endpoint's queue.           *)
MessageReceivedOnChannel(c) ==
  /\ At(c, "raise")
  /\ Write(c, "send", "complete")
  /\ UNCHANGED storage

Complete(c) ==
  LET call == calls[c]
      e == call.envelope
  IN /\ At(c, "complete")
     /\ storage' = [storage EXCEPT ![e] = [new |-> @.new + Inserted(c) - call.acks,
                                           acked |-> @.acked + call.acks]]
     /\ delivered' = [delivered EXCEPT ![e] = @ + IF "send" \in call.writes THEN 1 ELSE 0]
     /\ calls' = [calls EXCEPT ![c].step = "ok", ![c].writes = {}, ![c].acks = 0]
     /\ UNCHANGED overlapped

Persist(c) ==
  /\ \/ InMemoryInsert(c) \/ InMemoryAck(c)
     \/ RavenInsert(c) \/ RavenLoad(c) \/ RavenSave(c)
     \/ SqlExists(c) \/ SqlInsert(c) \/ SqlAck(c) \/ SqlGivesUp(c)
     \/ MessageReceivedOnChannel(c)
  /\ UNCHANGED <<delivered, overlapped>>

Handle(c) ==
  /\ DataReceivedOnChannel(c) \/ Persist(c) \/ Complete(c)
  /\ UNCHANGED <<senderVars, persister, posts, disturbances, thrown, restarted>>

(* The call is refused (GetCallInfo), a statement or the send fails, or    *)
(* the transaction cannot be committed.                                    *)
Throws(c) ==
  /\ ~ Free(c) /\ calls[c].step \notin {"ok", "failed"}
  /\ Disturb
  /\ Abort(c)
  /\ thrown' = thrown \cup {calls[c].envelope}
  /\ UNCHANGED <<senderVars, persister, storage, delivered, posts, overlapped, restarted>>

(* A receiving gateway dies and starts again; what it kept in memory is    *)
(* gone and so are the calls it was handling.                              *)
ReceiverRestarts(k) ==
  LET here == {e \in Envelopes : k \in e.sites}
  IN /\ Disturb
     /\ storage' = [e \in Envelopes |-> IF persister = "InMemory" /\ e \in here
                                          THEN [new |-> 0, acked |-> 0] ELSE storage[e]]
     /\ calls' = [c \in Slots |->
                    IF Active(c) /\ calls[c].envelope \in here
                      THEN [calls[c] EXCEPT !.step = "failed", !.writes = {}, !.acks = 0]
                      ELSE calls[c]]
     /\ restarted' = restarted \cup {k}
     /\ UNCHANGED <<senderVars, persister, delivered, posts, thrown, overlapped>>
-----------------------------------------------------------------------------
Send(s) == Local(s) \/ Transmit(s)
Serve(c) == Handle(c) \/ Answer(c)

Next ==
  \/ \E s \in Senders : Send(s) \/ CommitFails(s) \/ \E c \in Slots : NoAnswer(s, c)
  \/ \E w \in WebMessages : Post(w)
  \/ \E c \in Slots : Serve(c) \/ Throws(c)
  \/ SenderRestarts
  \/ \E k \in Addresses \cup Configured : ReceiverRestarts(k)

Spec == Init /\ [][Next]_vars

(* Worker threads and the threads that serve calls run.                    *)
FairSpec ==
  /\ Spec
  /\ \A s \in Senders : WF_vars(Send(s))
  /\ \A c \in Slots : WF_vars(Serve(c))
-----------------------------------------------------------------------------
(* Types.  The number of records stays a natural number: a transaction     *)
(* never acknowledges a record that another one has acknowledged.          *)
TypeOK ==
  /\ queue \subseteq Queueable /\ errors \subseteq Queueable /\ audit \subseteq Queueable
  /\ failures \in [Queueable -> 0..MaxRetries]
  /\ pc \in [Senders -> {"idle", "route", "split", "submit", "submitting", "ack", "acking",
                         "forwarded"}]
  /\ hand \in [Senders -> Queueable \cup {None}]
  /\ outgoing \in [Senders -> SUBSET Queueable]
  /\ calls \in [Slots -> Calls \cup {None}]
  /\ persister \in Persisters
  /\ storage \in [Envelopes -> [new : Nat, acked : Nat]]
  /\ delivered \in [Envelopes -> Nat]
  /\ posts \in [WebMessages -> 0..MaxPosts]
  /\ disturbances \in 0..MaxDisturbances
  /\ thrown \subseteq Envelopes /\ overlapped \subseteq Envelopes
  /\ restarted \subseteq Keys

(* Excuses.  What each persister cannot cope with.                         *)
LossExcused(e) ==
  \/ persister = "InMemory" /\ (e \in thrown \/ e.sites \cap restarted # {})
  \/ persister = "Sql" /\ e \in overlapped
RepeatExcused(e) ==
  \/ persister = "InMemory" /\ e.sites \cap restarted # {}
  \/ persister # "InMemory" /\ e \in overlapped

Pending(m, k) ==
  \E e \in queue \cup errors : e.id = m /\ k \in e.sites
Underway(e) ==
  \E c \in Slots : /\ Active(c) /\ calls[c].envelope = e
                   /\ calls[c].step = "raise" \/ "send" \in calls[c].writes
Reached(m, k) ==
  \E e \in audit : /\ e.id = m /\ k \in e.sites
                   /\ delivered[e] > 0 \/ Underway(e) \/ LossExcused(e)

(* Every site that is a destination of a message is served: the message,   *)
(* or its clone for that site, is in the gateway's queue or with the fault *)
(* manager, or has been forwarded and was delivered there or is being sent *)
(* (GatewaySender and IdempotentChannelReceiver, whatever is lost, repeated*)
(* or rolled back).  A message nobody knows a site for is not consumed.    *)
NoDestinationForgotten ==
  \A m \in Messages :
    LET destinations == GetDestinationSitesFor(SitesOf[m])
    IN IF destinations = {} THEN Original(m) \in queue \cup errors
       ELSE \A k \in destinations : Pending(m, k) \/ Reached(m, k)

(* A message is put in the endpoint's queue once, however often the calls  *)
(* are repeated, unless the persister has forgotten it or calls of that    *)
(* message ran side by side (InsertMessage and AckMessage).                *)
AtMostOnce == \A e \in Envelopes : delivered[e] > 1 => RepeatExcused(e)

(* The record of a client id and the endpoint's queue agree: what is       *)
(* acknowledged was sent and what was sent is acknowledged, also after     *)
(* rollbacks (the TransactionScope of DataReceivedOnChannel), whenever no   *)
(* call for that id is being handled.                                      *)
RecordsAgree ==
  \A e \in Envelopes :
    \/ \E c \in Slots : Active(c) /\ calls[c].envelope = e
    \/ LossExcused(e) \/ RepeatExcused(e)
    \/ delivered[e] = storage[e].acked

(* Every destination of a message is served or the message ends with the   *)
(* fault manager, which also gets what has no destination.                 *)
EveryDestinationDecided ==
  <>(\A m \in Messages :
       LET destinations == GetDestinationSitesFor(SitesOf[m])
       IN IF destinations = {} THEN Original(m) \in errors
          ELSE \A k \in destinations :
                 Reached(m, k) \/ \E e \in errors : e.id = m /\ k \in e.sites)
=============================================================================
