---------------------- MODULE MsmqSubscriptionStorage ----------------------
(***************************************************************************)
(* The subscriptions a publisher keeps in a queue, for one message type:   *)
(* a message per subscriber, and in memory the list of entries and the     *)
(* lookup from subscriber and version of the type to message.  Memory      *)
(* changes at once, under a lock; the queue changes when the transaction   *)
(* of the calling thread commits, unless the storage was told to use       *)
(* transactions of its own.                                                *)
(*                                                                         *)
(* A type is equal to one of the same major version, but its hash code is  *)
(* made of the whole version: the list, which compares, does not tell two  *)
(* minor versions apart, and the lookup, a dictionary, does.               *)
(***************************************************************************)
EXTENDS Naturals, FiniteSets

CONSTANTS
  Clients,            \* subscribers
  Versions,           \* minor versions of the message type
  Ids,                \* ids of the messages in the storage queue
  NoId,
  Transactions        \* one for each message a request is handled in

ASSUME StorageAssumption == NoId \notin Ids /\ IsFiniteSet(Versions)

VARIABLES
  ownTransaction,     \* DontUseExternalTransaction
  entries,            \* how many entries of the list are of each client
  lookup,             \* its message for a version, NoId if there is none
  stored,             \* <<client, version, id>>: messages of the queue
  sent,               \* messages each transaction has sent
  received            \* and the ones it has received

memoryVars == <<entries, lookup>>
txVars == <<sent, received>>
storageVars == <<ownTransaction, memoryVars, stored, txVars>>

MessagesOf(c) == {x \in stored : x[1] = c}

(* The addresses a message is published to.                                *)
GetSubscriberAddresses == {c \in Clients : entries[c] > 0}

(* What a transaction has received is hidden from the others, and what it  *)
(* has sent is not there yet.                                              *)
Receivable == stored \ UNION {received[t] : t \in Transactions}
-----------------------------------------------------------------------------
InitStorage ==
  /\ ownTransaction \in BOOLEAN
  /\ entries = [c \in Clients |-> 0]
  /\ lookup = [k \in Clients \X Versions |-> NoId]
  /\ stored = {}
  /\ sent = [t \in Transactions |-> {}]
  /\ received = [t \in Transactions |-> {}]

(* Init: an entry for every message of the queue, duplicates included; the *)
(* lookup keeps the first of a client and version, which may be any.       *)
Load ==
  /\ entries' = [c \in Clients |-> Cardinality(MessagesOf(c))]
  /\ \E first \in [Clients \X Versions -> Ids \cup {NoId}] :
       /\ \A c \in Clients, v \in Versions :
            IF \E id \in Ids : <<c, v, id>> \in stored
            THEN <<c, v, first[<<c, v>>]>> \in stored
            ELSE first[<<c, v>>] = NoId
       /\ lookup' = first

(* Add sends a message, of transaction t or of its own.                    *)
Add(t, c, v, id) ==
  /\ IF ownTransaction
     THEN stored' = stored \cup {<<c, v, id>>} /\ UNCHANGED txVars
     ELSE /\ sent' = [sent EXCEPT ![t] = @ \cup {<<c, v, id>>}]
          /\ UNCHANGED <<stored, received>>
  /\ lookup' = IF lookup[<<c, v>>] = NoId THEN [lookup EXCEPT ![<<c, v>>] = id]
               ELSE lookup

(* Mutant of Subscribe: a client that is in the list is added once more.   *)
SubscribeAgain(t, c, v, id) ==
  /\ Add(t, c, v, id)
  /\ entries' = [entries EXCEPT ![c] = @ + 1]
  /\ UNCHANGED ownTransaction

Subscribe(t, c, v, id) ==
  /\ IF entries[c] > 0
     THEN UNCHANGED <<memoryVars, stored, txVars>>
     ELSE Add(t, c, v, id) /\ entries' = [entries EXCEPT ![c] = @ + 1]
  /\ UNCHANGED ownTransaction

(* Remove: receives the message the lookup has, if any.                     *)
RemoveMessage(t, c, v) ==
  LET x == <<c, v, lookup[<<c, v>>]>> IN
    /\ lookup' = [lookup EXCEPT ![<<c, v>>] = NoId]
    /\ IF lookup[<<c, v>>] = NoId
       THEN UNCHANGED <<stored, txVars>>
       ELSE /\ x \in Receivable
            /\ IF ownTransaction
               THEN stored' = stored \ {x} /\ UNCHANGED txVars
               ELSE /\ received' = [received EXCEPT ![t] = @ \cup {x}]
                    /\ UNCHANGED <<stored, sent>>

(* Mutant of Unsubscribe: without a message the entries stay as well.      *)
UnsubscribeIfFound(t, c, v) ==
  /\ IF entries[c] > 0 /\ lookup[<<c, v>>] # NoId
     THEN RemoveMessage(t, c, v) /\ entries' = [entries EXCEPT ![c] = 0]
     ELSE UNCHANGED <<memoryVars, stored, txVars>>
  /\ UNCHANGED ownTransaction

(* Every entry of the client goes, and the message the lookup has for the  *)
(* version of the request: it is empty when a second entry is removed.     *)
Unsubscribe(t, c, v) ==
  /\ IF entries[c] > 0
     THEN RemoveMessage(t, c, v) /\ entries' = [entries EXCEPT ![c] = 0]
     ELSE UNCHANGED <<memoryVars, stored, txVars>>
  /\ UNCHANGED ownTransaction

(* ReceiveById throws: the message is not there, or not committed.  The    *)
(* client is gone from the lookup then, and still in the list.             *)
UnsubscribeThrows(t, c, v) ==
  /\ entries[c] > 0
  /\ lookup[<<c, v>>] # NoId
  /\ <<c, v, lookup[<<c, v>>]>> \notin Receivable
  /\ lookup' = [lookup EXCEPT ![<<c, v>>] = NoId]
  /\ UNCHANGED <<ownTransaction, entries, stored, txVars>>

CommitStorage(t) ==
  /\ stored' = (stored \cup sent[t]) \ received[t]
  /\ sent' = [sent EXCEPT ![t] = {}]
  /\ received' = [received EXCEPT ![t] = {}]
  /\ UNCHANGED <<ownTransaction, memoryVars>>

(* The transaction fails: memory stays as it is.                           *)
RollbackStorage(t) ==
  /\ sent' = [sent EXCEPT ![t] = {}]
  /\ received' = [received EXCEPT ![t] = {}]
  /\ UNCHANGED <<ownTransaction, memoryVars, stored>>

(* The process dies and starts again: Init after every rollback.           *)
RestartStorage ==
  /\ Load
  /\ sent' = [t \in Transactions |-> {}]
  /\ received' = [t \in Transactions |-> {}]
  /\ UNCHANGED <<ownTransaction, stored>>
=============================================================================
